--------------------------- MODULE IpcServerProofs ---------------------------
(***************************************************************************)
(* Theorems about IpcServer, for any number of runs, clients and lines.    *)
(*                                                                         *)
(* What the threads of different runs may do to each other is settled by   *)
(* OneRun and Bound; what the accept thread and the client threads may do, *)
(* by Handled.  Asked is the bookkeeping of a client that waits for each   *)
(* answer: it is what makes the stdio stream behave.                       *)
(***************************************************************************)
EXTENDS IpcServer, SequenceTheorems, TLAPS

(* One run is alive; it finds no file when it binds, and from bind() to    *)
(* unlink() the file is its own.                                           *)
OneRun == \A p, q \in Procs : main[p] \in Alive /\ main[q] \in Alive => p = q
Bound ==
    \A p \in Procs :
        /\ main[p] = "bind" => path = NoProc
        /\ main[p] \in {"listen", "spawn", "serving", "shutdown", "close",
                        "join", "unlink"} => path = p

(* The accept thread exists between start() and join().                    *)
Joined ==
    \A p \in Procs :
        /\ main[p] \in {"new", "socket", "bind", "listen", "spawn"}
              => acceptor[p] = "none"
        /\ main[p] \in {"unlink", "cleanup", "destroyed"}
              => acceptor[p] = "done"

(* A client has a server from the backlog on, a thread only once it was    *)
(* accepted, and at most one of a run's clients is still without.          *)
Handled ==
    /\ OpenIsHandled
    /\ \A c \in Clients :
          /\ conn[c] = "none" => server[c] = NoProc
          /\ conn[c] \in {"none", "queued"} => handler[c] = "none"
          /\ conn[c] \in {"queued", "open"} => server[c] \in Procs
    /\ \A c, d \in Clients :
          /\ conn[c] = "open" /\ handler[c] = "none"
          /\ conn[d] = "open" /\ handler[d] = "none"
          /\ server[c] = server[d]
          => c = d

(* Of what a client that waits has sent, only the last line can be a       *)
(* command, and it has been answered or not; while it is executed nothing  *)
(* else is on its way.                                                     *)
Blank(lines) == \A i \in DOMAIN lines : lines[i] = "empty"
LastAsks(lines) == \A i \in DOMAIN lines : i < Len(lines) => lines[i] = "empty"
Asked ==
    \A c \in Clients :
        /\ owed[c] \in {0, 1}
        /\ owed[c] = 0 => /\ handler[c] \notin {"exec", "reply"}
                          /\ Blank(buf[c]) /\ Blank(inq[c])
        /\ LastAsks(buf[c]) /\ LastAsks(inq[c])
        /\ inq[c] # << >> => Blank(buf[c])
        /\ handler[c] \in {"exec", "reply"} => buf[c] = << >> /\ inq[c] = << >>

-----------------------------------------------------------------------------
(* fgets makes one chunk of a short line and two of a long one.            *)
LEMMA ChunksType ==
    ASSUME NEW line \in LineKinds PROVE Chunks(line) \in Seq(ChunkKinds)
<1>1. CASE line = "long"
  BY <1>1 DEF Chunks, ChunkKinds
<1>2. CASE line # "long"
  <2>1. line \in ChunkKinds
    BY <1>2 DEF ChunkKinds
  <2>. QED
    BY <1>2, <2>1 DEF Chunks
<1>. QED
  BY <1>1, <1>2

LEMMA TypeInit == Init => TypeOK
<1>. SUFFICES ASSUME Init PROVE TypeOK
  OBVIOUS
<1>1. /\ inq \in [Clients -> Seq(ChunkKinds)]
      /\ buf \in [Clients -> Seq(ChunkKinds)]
  BY DEF Init
<1>2. cur \in [Clients -> ChunkKinds]
  BY DEF Init, ChunkKinds, LineKinds
<1>3. sent \in [Clients -> 0..MaxLines] /\ owed \in [Clients -> Int]
  BY IpcAssumption DEF Init
<1>. QED
  BY <1>1, <1>2, <1>3 DEF Init, TypeOK

(* Reading moves chunks from the socket to the buffer and from there to    *)
(* the client thread, and makes none.                                      *)
LEMMA StreamTypes ==
    ASSUME TypeOK, NEW c \in Clients,
           FillBuffer(c) \/ ReadLine(c) \/ Reply(c) \/ Send(c)
    PROVE  /\ inq' \in [Clients -> Seq(ChunkKinds)]
           /\ buf' \in [Clients -> Seq(ChunkKinds)]
           /\ cur' \in [Clients -> ChunkKinds]
           /\ sent' \in [Clients -> 0..MaxLines]
           /\ owed' \in [Clients -> Int]
<1>1. CASE FillBuffer(c)
  <2>1. PICK n \in 1..Len(inq[c]) :
           /\ buf' = [buf EXCEPT ![c] = SubSeq(inq[c], 1, n)]
           /\ inq' = [inq EXCEPT ![c] = SubSeq(@, n + 1, Len(@))]
    BY <1>1 DEF FillBuffer
  <2>2. inq[c] \in Seq(ChunkKinds)
    BY DEF TypeOK
  <2>3. /\ SubSeq(inq[c], 1, n) \in Seq(ChunkKinds)
        /\ SubSeq(inq[c], n + 1, Len(inq[c])) \in Seq(ChunkKinds)
    BY <2>2
  <2>. QED
    BY <1>1, <2>1, <2>3 DEF FillBuffer, TypeOK
<1>2. CASE ReadLine(c)
  <2>1. Head(buf[c]) \in ChunkKinds /\ Tail(buf[c]) \in Seq(ChunkKinds)
    BY <1>2 DEF ReadLine, TypeOK
  <2>. QED
    BY <1>2, <2>1 DEF ReadLine, TypeOK
<1>3. CASE Reply(c)
  <2>1. << >> \in Seq(ChunkKinds)
    OBVIOUS
  <2>. QED
    BY <1>3, <2>1 DEF Reply, TypeOK
<1>4. CASE Send(c)
  <2>1. PICK line \in Lines[c] :
           /\ inq' = [inq EXCEPT ![c] = @ \o Chunks(line)]
           /\ owed' = [owed EXCEPT ![c] = IF line = "empty" THEN @
                                                            ELSE @ + 1]
    BY <1>4 DEF Send
  <2>2. line \in LineKinds
    BY IpcAssumption
  <2>3. inq[c] \o Chunks(line) \in Seq(ChunkKinds)
    BY <2>2, ChunksType DEF TypeOK
  <2>4. sent' \in [Clients -> 0..MaxLines]
    BY <1>4, IpcAssumption DEF Send, TypeOK
  <2>5. owed' \in [Clients -> Int]
    <3>1. owed[c] \in Int
      BY DEF TypeOK
    <3>2. CASE line = "empty"
      BY <2>1, <3>1, <3>2 DEF TypeOK
    <3>3. CASE line # "empty"
      BY <2>1, <3>1, <3>3 DEF TypeOK
    <3>. QED
      BY <3>2, <3>3
  <2>6. buf' = buf /\ cur' = cur
    BY <1>4 DEF Send
  <2>7. inq' \in [Clients -> Seq(ChunkKinds)]
    BY <2>1, <2>3 DEF TypeOK
  <2>. QED
    BY <2>4, <2>5, <2>6, <2>7 DEF TypeOK
<1>. QED
  BY <1>1, <1>2, <1>3, <1>4

(* A process that ends takes its connections and its threads along.        *)
LEMMA EndsType ==
    ASSUME TypeOK, NEW p \in Procs, Ends(p) PROVE TypeOK'
<1>1. conn' \in [Clients -> {"none", "queued", "open", "closed"}]
  BY DEF Ends, Disconnect, TypeOK
<1>2. handler' \in [Clients ->
          {"none", "fdopen", "read", "exec", "reply", "close", "done"}]
  BY DEF Ends, TypeOK
<1>3. /\ main' \in [Procs -> Alive \cup {"new", "exited"}]
      /\ listener' \in [Procs -> {"none", "open", "listening", "closed"}]
      /\ acceptor' \in [Procs ->
            {"none", "check", "accept", "blocked", "accepted", "done"}]
  BY DEF Ends, TypeOK
<1>. QED
  BY <1>1, <1>2, <1>3 DEF Ends, streamVars, TypeOK

(* Every step of the main thread, the accept thread, a client thread or a  *)
(* client keeps the types.                                                 *)
LEMMA TypeStep == TypeOK /\ [Next]_vars => TypeOK'
<1>. SUFFICES ASSUME TypeOK, [Next]_vars PROVE TypeOK'
  OBVIOUS
<1>. USE IpcAssumption
     DEF Main, Acceptor, Handler, Disconnect, procVars, clientVars, streamVars
<1>1. ASSUME NEW p \in Procs, Socket(p) \/ Stop(p) \/ Crash(p) PROVE TypeOK'
  <2>1. CASE Socket(p) \/ Stop(p)
    BY <2>1 DEF Socket, Stop, TypeOK, Alive
  <2>2. CASE Crash(p)
    BY <2>2, EndsType DEF Crash
  <2>. QED
    BY <1>1, <2>1, <2>2
<1>2. ASSUME NEW p \in Procs, MainStep(p) PROVE TypeOK'
  <2>1. CASE UnlinkStale(p) \/ Bind(p) \/ Listen(p) \/ SpawnAcceptor(p)
    BY <2>1 DEF UnlinkStale, Bind, Listen, SpawnAcceptor, TypeOK, Alive
  <2>2. CASE Shutdown(p) \/ Join(p) \/ UnlinkLast(p) \/ Destroy(p)
    BY <2>2 DEF Shutdown, Join, UnlinkLast, Destroy, TypeOK, Alive
  <2>3. CASE CloseListener(p)
    <3>1. conn' \in [Clients -> {"none", "queued", "open", "closed"}]
      BY <2>3 DEF CloseListener, TypeOK
    <3>. QED
      BY <2>3, <3>1 DEF CloseListener, TypeOK, Alive
  <2>4. CASE Exit(p)
    BY <2>4, EndsType DEF Exit
  <2>. QED
    BY <1>2, <2>1, <2>2, <2>3, <2>4 DEF MainStep
<1>3. ASSUME NEW p \in Procs, AcceptStep(p) PROVE TypeOK'
  <2>1. CASE AcceptCheck(p) \/ AcceptCall(p) \/ AcceptWoken(p)
    BY <2>1 DEF AcceptCheck, AcceptCall, AcceptWoken, TypeOK
  <2>2. ASSUME NEW c \in Clients, AcceptClient(p, c) \/ SpawnHandler(p, c)
        PROVE  TypeOK'
    BY <2>2 DEF AcceptClient, SpawnHandler, TypeOK
  <2>. QED
    BY <1>3, <2>1, <2>2 DEF AcceptStep
<1>4. ASSUME NEW c \in Clients, HandlerStep(c) PROVE TypeOK'
  <2>1. CASE ReadEof(c) \/ Execute(c)
    BY <2>1 DEF ReadEof, Execute, TypeOK
  <2>5. CASE Fdopen(c) \/ Fclose(c)
    <3>1. conn' \in [Clients -> {"none", "queued", "open", "closed"}]
      BY <2>5 DEF Fdopen, Fclose, TypeOK
    <3>. QED
      BY <2>5, <3>1 DEF Fdopen, Fclose, TypeOK
  <2>2. CASE FillBuffer(c)
    BY <2>2, StreamTypes DEF FillBuffer, TypeOK
  <2>3. CASE ReadLine(c)
    BY <2>3, StreamTypes DEF ReadLine, TypeOK
  <2>4. CASE Reply(c)
    BY <2>4, StreamTypes DEF Reply, TypeOK
  <2>. QED
    BY <1>4, <2>1, <2>2, <2>3, <2>4, <2>5 DEF HandlerStep
<1>5. ASSUME NEW c \in Clients, Connect(c) \/ HangUp(c) PROVE TypeOK'
  <2>1. CASE Connect(c)
    <3>1. path \in Procs
      BY <2>1 DEF Connect, TypeOK
    <3>2. /\ conn' \in [Clients -> {"none", "queued", "open", "closed"}]
          /\ server' \in [Clients -> Procs \cup {NoProc}]
      BY <2>1, <3>1 DEF Connect, TypeOK
    <3>. QED
      BY <2>1, <3>2 DEF Connect, TypeOK
  <2>2. CASE HangUp(c)
    BY <2>2 DEF HangUp, TypeOK
  <2>. QED
    BY <1>5, <2>1, <2>2
<1>6. ASSUME NEW c \in Clients, Send(c) PROVE TypeOK'
  BY <1>6, StreamTypes DEF Send, TypeOK
<1>7. CASE UNCHANGED vars
  BY <1>7 DEF vars, TypeOK
<1>. QED
  BY <1>1, <1>2, <1>3, <1>4, <1>5, <1>6, <1>7 DEF Next

(* Every variable of the server and of its clients keeps its type.         *)
THEOREM TypeCorrect == Spec => []TypeOK
  BY TypeInit, TypeStep, PTL DEF Spec

-----------------------------------------------------------------------------
(* What a step of a run's main thread does to the other runs: nothing, for *)
(* no other is alive.                                                      *)
LEMMA MainMoves ==
    ASSUME TypeOK, OneRun, Bound, Joined,
           NEW p \in Procs, main[p] \in Alive, NEW to, NEW at,
           main' = [main EXCEPT ![p] = to],
           acceptor' = [acceptor EXCEPT ![p] = at],
           to = "bind" => path' = NoProc,
           to \in {"listen", "spawn", "serving", "shutdown", "close", "join",
                   "unlink"} => path' = p,
           to \in {"new", "socket", "bind", "listen", "spawn"} => at = "none",
           to \in {"unlink", "cleanup", "destroyed"} => at = "done"
    PROVE  OneRun' /\ Bound' /\ Joined'
<1>1. /\ main \in [Procs -> Alive \cup {"new", "exited"}]
      /\ acceptor \in [Procs ->
            {"none", "check", "accept", "blocked", "accepted", "done"}]
  BY DEF TypeOK
<1>2. OneRun'
  BY <1>1 DEF OneRun
<1>3. Bound'
  <2>1. ASSUME NEW q \in Procs, q # p
        PROVE  main'[q] \in {"new", "exited"}
    BY <1>1, <2>1 DEF OneRun, Alive
  <2>2. main'[p] = to
    BY <1>1
  <2>. QED
    BY <2>1, <2>2 DEF Bound
<1>4. Joined'
  BY <1>1 DEF Joined
<1>. QED
  BY <1>2, <1>3, <1>4

(* Socket lets a run start only when no other is alive, so nobody else     *)
(* renames or removes the file that a run has bound.                       *)
LEMMA RunStep ==
    TypeOK /\ OneRun /\ Bound /\ Joined /\ [Next]_vars
        => OneRun' /\ Bound' /\ Joined'
<1>. SUFFICES ASSUME TypeOK, OneRun, Bound, Joined, [Next]_vars
              PROVE  OneRun' /\ Bound' /\ Joined'
  OBVIOUS
<1>0. /\ main \in [Procs -> Alive \cup {"new", "exited"}]
      /\ acceptor \in [Procs ->
            {"none", "check", "accept", "blocked", "accepted", "done"}]
  BY DEF TypeOK
<1>. USE DEF Main, Acceptor, procVars, clientVars, Alive
<1>1. ASSUME NEW p \in Procs, Socket(p) PROVE OneRun' /\ Bound' /\ Joined'
  <2>1. /\ \A q \in Procs \ {p} : main[q] \in {"new", "exited"}
        /\ \E to \in {"socket", "exited"} : main' = [main EXCEPT ![p] = to]
        /\ main[p] = "new" /\ acceptor' = acceptor
    BY <1>1 DEF Socket
  <2>2. OneRun' /\ Bound'
    BY <1>0, <2>1 DEF OneRun, Bound
  <2>3. Joined'
    BY <1>0, <2>1 DEF Joined
  <2>. QED
    BY <2>2, <2>3
<1>2. ASSUME NEW p \in Procs, Ends(p), main[p] \in Alive
      PROVE  OneRun' /\ Bound' /\ Joined'
  BY <1>2, MainMoves DEF Ends
<1>3. ASSUME NEW p \in Procs, Stop(p) PROVE OneRun' /\ Bound' /\ Joined'
  <2>1. acceptor' = [acceptor EXCEPT ![p] = acceptor[p]]
    BY <1>0, <1>3 DEF Stop
  <2>. QED
    BY <1>3, <2>1, MainMoves DEF Stop, Bound
<1>4. ASSUME NEW p \in Procs,
             \/ UnlinkStale(p) \/ Bind(p) \/ Listen(p) \/ Shutdown(p)
             \/ CloseListener(p) \/ Join(p) \/ UnlinkLast(p) \/ Destroy(p)
      PROVE  OneRun' /\ Bound' /\ Joined'
  <2>1. acceptor' = [acceptor EXCEPT ![p] = acceptor[p]]
    BY <1>0, <1>4 DEF UnlinkStale, Bind, Listen, Shutdown, CloseListener, Join,
                      UnlinkLast, Destroy
  <2>2. CASE UnlinkStale(p)
    BY <2>1, <2>2, MainMoves DEF UnlinkStale, Joined
  <2>3. CASE Bind(p)
    BY <2>1, <2>3, MainMoves DEF Bind, Joined
  <2>4. CASE Listen(p)
    BY <2>1, <2>4, MainMoves DEF Listen, Joined, Bound
  <2>5. CASE Shutdown(p)
    BY <2>1, <2>5, MainMoves DEF Shutdown, Bound
  <2>6. CASE CloseListener(p)
    BY <2>1, <2>6, MainMoves DEF CloseListener, Bound
  <2>7. CASE Join(p)
    BY <2>1, <2>7, MainMoves DEF Join, Bound
  <2>8. CASE UnlinkLast(p) \/ Destroy(p)
    BY <2>1, <2>8, MainMoves DEF UnlinkLast, Destroy, Joined
  <2>. QED
    BY <1>4, <2>2, <2>3, <2>4, <2>5, <2>6, <2>7, <2>8
<1>5. ASSUME NEW p \in Procs, SpawnAcceptor(p)
      PROVE  OneRun' /\ Bound' /\ Joined'
  BY <1>5, MainMoves DEF SpawnAcceptor, Bound
<1>6. ASSUME NEW p \in Procs, AcceptStep(p)
      PROVE  OneRun' /\ Bound' /\ Joined'
  <2>1. /\ main' = main /\ path' = path
        /\ acceptor[p] \in {"check", "accept", "blocked", "accepted"}
        /\ \E to : acceptor' = [acceptor EXCEPT ![p] = to]
    BY <1>6 DEF AcceptStep, AcceptCheck, AcceptCall, AcceptWoken, AcceptClient,
                SpawnHandler
  <2>2. OneRun' /\ Bound'
    BY <2>1 DEF OneRun, Bound
  <2>3. Joined'
    BY <1>0, <2>1 DEF Joined
  <2>. QED
    BY <2>2, <2>3
<1>7. CASE \/ UNCHANGED vars
           \/ \E c \in Clients :
                HandlerStep(c) \/ Connect(c) \/ Send(c) \/ HangUp(c)
  <2>1. main' = main /\ path' = path /\ acceptor' = acceptor
    BY <1>7 DEF HandlerStep, Fdopen, FillBuffer, ReadLine, ReadEof, Execute,
                Reply, Fclose, Connect, Send, HangUp, vars
  <2>. QED
    BY <2>1 DEF OneRun, Bound, Joined
<1>. QED
  BY <1>1, <1>2, <1>3, <1>4, <1>5, <1>6, <1>7
     DEF Next, MainStep, Exit, Crash

(* A connection is opened by the accept thread, which starts its thread    *)
(* before it looks for another; it is closed by that thread, or with the   *)
(* process.                                                                *)
LEMMA HandledStep == TypeOK /\ Handled /\ [Next]_vars => Handled'
<1>. SUFFICES ASSUME TypeOK, Handled, [Next]_vars PROVE Handled'
  OBVIOUS
<1>0. /\ acceptor \in [Procs ->
            {"none", "check", "accept", "blocked", "accepted", "done"}]
      /\ handler \in [Clients ->
            {"none", "fdopen", "read", "exec", "reply", "close", "done"}]
      /\ conn \in [Clients -> {"none", "queued", "open", "closed"}]
      /\ server \in [Clients -> Procs \cup {NoProc}]
  BY DEF TypeOK
<1>. USE IpcAssumption
     DEF Main, Acceptor, Handler, Queued, Open, procVars, clientVars
<1>1. ASSUME NEW p \in Procs, Ends(p) PROVE Handled'
  <2>1. \A c \in Clients :
           IF server[c] = p
           THEN /\ handler'[c] = "done"
                /\ conn'[c] \notin {"queued", "open"} /\ conn[c] # "none"
                /\ conn'[c] # "none"
           ELSE handler'[c] = handler[c] /\ conn'[c] = conn[c]
    BY <1>0, <1>1 DEF Ends, Disconnect, Handled
  <2>2. server' = server /\ acceptor' = [acceptor EXCEPT ![p] = "done"]
    BY <1>1 DEF Ends
  <2>. QED
    BY <1>0, <2>1, <2>2 DEF Handled, OpenIsHandled
<1>2. ASSUME NEW p \in Procs, CloseListener(p) PROVE Handled'
  <2>1. \A c \in Clients :
           \/ conn'[c] = conn[c]
           \/ conn[c] = "queued" /\ conn'[c] = "closed"
    BY <1>0, <1>2 DEF CloseListener, Disconnect
  <2>2. handler' = handler /\ server' = server /\ acceptor' = acceptor
    BY <1>2 DEF CloseListener
  <2>. QED
    BY <1>0, <2>1, <2>2 DEF Handled, OpenIsHandled
<1>3. ASSUME NEW p \in Procs,
             \/ SpawnAcceptor(p)
             \/ AcceptCheck(p) \/ AcceptCall(p) \/ AcceptWoken(p)
      PROVE  Handled'
  <2>1. /\ acceptor[p] # "accepted"
        /\ \E to : to # "accepted" /\ acceptor' = [acceptor EXCEPT ![p] = to]
        /\ handler' = handler /\ server' = server /\ conn' = conn
    BY <1>3 DEF SpawnAcceptor, AcceptCheck, AcceptCall, AcceptWoken
  <2>. QED
    BY <1>0, <2>1 DEF Handled, OpenIsHandled
<1>4. ASSUME NEW p \in Procs, NEW c \in Clients, AcceptClient(p, c)
      PROVE  Handled'
  <2>1. /\ acceptor[p] = "blocked" /\ conn[c] = "queued" /\ server[c] = p
        /\ acceptor' = [acceptor EXCEPT ![p] = "accepted"]
        /\ conn' = [conn EXCEPT ![c] = "open"]
        /\ handler' = handler /\ server' = server
    BY <1>4 DEF AcceptClient
  <2>. QED
    BY <1>0, <2>1 DEF Handled, OpenIsHandled
<1>5. ASSUME NEW p \in Procs, NEW c \in Clients, SpawnHandler(p, c)
      PROVE  Handled'
  <2>1. /\ acceptor[p] = "accepted" /\ conn[c] = "open" /\ server[c] = p
        /\ acceptor' = [acceptor EXCEPT ![p] = "check"]
        /\ handler[c] = "none"
        /\ handler' = [handler EXCEPT ![c] = "fdopen"]
        /\ conn' = conn /\ server' = server
    BY <1>5 DEF SpawnHandler
  <2>. QED
    BY <1>0, <2>1 DEF Handled, OpenIsHandled
<1>6. ASSUME NEW c \in Clients, HandlerStep(c) PROVE Handled'
  <2>1. /\ handler[c] \notin {"none", "done"}
        /\ server' = server /\ acceptor' = acceptor
    BY <1>6 DEF HandlerStep, Fdopen, FillBuffer, ReadLine, ReadEof, Execute,
                Reply, Fclose
  <2>2. CASE (Fdopen(c) /\ conn' # conn) \/ Fclose(c)
    <3>1. /\ \A d \in Clients :
                conn'[d] = IF d = c THEN "closed" ELSE conn[d]
          /\ handler' = [handler EXCEPT ![c] = "done"]
      BY <2>2 DEF Fdopen, Fclose, Disconnect
    <3>. QED
      BY <1>0, <2>1, <3>1 DEF Handled, OpenIsHandled
  <2>3. CASE ~((Fdopen(c) /\ conn' # conn) \/ Fclose(c))
    <3>1. /\ conn' = conn
          /\ \E to \in {"read", "exec", "reply", "close"} :
                handler' = [handler EXCEPT ![c] = to]
      <4>1. CASE Fdopen(c)
        <5>1. conn' = conn
          BY <2>3, <4>1
        <5>2. CASE Handler(c, "fdopen", "read")
          BY <5>1, <5>2
        <5>3. CASE Handler(c, "fdopen", "done") /\ Disconnect({c})
          <6>1. conn[c] = "open"
            BY <2>1 DEF Handled, OpenIsHandled
          <6>2. conn'[c] = "closed"
            BY <5>3 DEF Disconnect
          <6>. QED
            BY <5>1, <6>1, <6>2
        <5>. QED
          BY <4>1, <5>2, <5>3 DEF Fdopen
      <4>2. CASE FillBuffer(c)
        <5>1. handler[c] = "read" /\ handler' = handler /\ conn' = conn
          BY <4>2 DEF FillBuffer
        <5>2. handler' = [handler EXCEPT ![c] = "read"]
          BY <1>0, <5>1
        <5>. QED
          BY <5>1, <5>2
      <4>3. CASE ReadLine(c) \/ ReadEof(c) \/ Execute(c) \/ Reply(c)
        BY <4>3 DEF ReadLine, ReadEof, Execute, Reply
      <4>. QED
        BY <1>6, <2>3, <4>1, <4>2, <4>3 DEF HandlerStep
    <3>. QED
      BY <1>0, <2>1, <3>1 DEF Handled, OpenIsHandled
  <2>. QED
    BY <2>2, <2>3
<1>7. ASSUME NEW c \in Clients, Connect(c) PROVE Handled'
  <2>1. /\ conn[c] = "none" /\ path \in Procs
        /\ conn' = [conn EXCEPT ![c] = "queued"]
        /\ server' = [server EXCEPT ![c] = path]
        /\ handler' = handler /\ acceptor' = acceptor
    BY <1>7 DEF Connect, TypeOK
  <2>. QED
    BY <1>0, <2>1 DEF Handled, OpenIsHandled
<1>8. CASE \/ UNCHANGED vars
           \/ \E c \in Clients : Send(c) \/ HangUp(c)
           \/ \E p \in Procs :
                \/ Socket(p) \/ Stop(p) \/ UnlinkStale(p) \/ Bind(p)
                \/ Listen(p) \/ Shutdown(p) \/ Join(p) \/ UnlinkLast(p)
                \/ Destroy(p)
  <2>1. /\ conn' = conn /\ handler' = handler /\ server' = server
        /\ acceptor' = acceptor
    BY <1>8 DEF Send, HangUp, Socket, Stop, UnlinkStale, Bind, Listen,
                Shutdown, Join, UnlinkLast, Destroy, vars
  <2>. QED
    BY <2>1 DEF Handled, OpenIsHandled
<1>. QED
  BY <1>1, <1>2, <1>3, <1>4, <1>5, <1>6, <1>7, <1>8
     DEF Next, MainStep, AcceptStep, Exit, Crash

LEMMA Invariant == Spec => [](TypeOK /\ OneRun /\ Bound /\ Joined /\ Handled)
<1>1. Init => OneRun /\ Bound /\ Joined /\ Handled
  BY DEF Init, OneRun, Bound, Joined, Handled, OpenIsHandled, Alive
<1>. QED
  BY <1>1, TypeInit, TypeStep, RunStep, HandledStep, PTL DEF Spec

(* The name is free when a run binds it, and from start() to shutdown() the*)
(* socket file is the serving run's own, whatever runs were killed before. *)
THEOREM PathLeads == Spec => []PathLeadsToServer
<1>1. Bound => PathLeadsToServer
  BY DEF Bound, PathLeadsToServer
<1>. QED
  BY <1>1, Invariant, PTL

(* Every accepted connection has its thread or is about to get it, and no  *)
(* thread works on a closed one.                                           *)
THEOREM OpenHandled == Spec => []OpenIsHandled
<1>1. Handled => OpenIsHandled
  BY DEF Handled
<1>. QED
  BY <1>1, Invariant, PTL

(* stop() joins the accept thread, and no other thread creates handlers.   *)
THEOREM NoneStarted == Spec => NoneAfterStop
<1>. DEFINE A == \A c \in Clients :
                   handler[c] = "none" /\ handler'[c] = "fdopen"
                     => main[server[c]] \notin {"unlink", "cleanup",
                                                "destroyed"}
<1>1. TypeOK /\ Joined /\ Handled /\ [Next]_vars => [A]_vars
  <2>. SUFFICES ASSUME TypeOK, Joined, Handled, Next,
                       NEW c \in Clients,
                       handler[c] = "none", handler'[c] = "fdopen"
                PROVE  main[server[c]] \notin {"unlink", "cleanup",
                                               "destroyed"}
    OBVIOUS
  <2>0. handler \in [Clients ->
            {"none", "fdopen", "read", "exec", "reply", "close", "done"}]
    BY DEF TypeOK
  <2>. USE DEF Handler, procVars, clientVars
  <2>1. PICK p \in Procs : SpawnHandler(p, c)
    <3>1. ASSUME NEW p \in Procs, Ends(p) PROVE FALSE
      <4>1. handler'[c] \in {"done", handler[c]}
        BY <3>1 DEF Ends
      <4>. QED
        BY <4>1
    <3>2. ASSUME handler' = handler PROVE FALSE
      BY <3>2
    <3>3. ASSUME NEW p \in Procs, NEW d \in Clients, SpawnHandler(p, d)
          PROVE  d = c
      BY <2>0, <3>3 DEF SpawnHandler
    <3>4. ASSUME NEW d \in Clients, HandlerStep(d) PROVE FALSE
      BY <2>0, <3>4 DEF HandlerStep, Fdopen, FillBuffer, ReadLine, ReadEof,
                        Execute, Reply, Fclose
    <3>5. CASE \E d \in Clients : Connect(d) \/ Send(d) \/ HangUp(d)
      BY <3>2, <3>5 DEF Connect, Send, HangUp
    <3>6. ASSUME NEW p \in Procs,
                 Socket(p) \/ Stop(p) \/ Crash(p) \/ MainStep(p)
          PROVE  FALSE
      BY <3>1, <3>2, <3>6
         DEF Socket, Stop, Crash, MainStep, UnlinkStale, Bind, Listen,
             SpawnAcceptor, Shutdown, CloseListener, Join, UnlinkLast,
             Destroy, Exit
    <3>7. ASSUME NEW p \in Procs, AcceptStep(p) PROVE SpawnHandler(p, c)
      BY <3>2, <3>3, <3>7 DEF AcceptStep, AcceptCheck, AcceptCall,
                              AcceptWoken, AcceptClient
    <3>. QED
      BY <3>4, <3>5, <3>6, <3>7 DEF Next
  <2>2. acceptor[p] = "accepted" /\ server[c] = p
    BY <2>1 DEF SpawnHandler, Acceptor, Open
  <2>. QED
    BY <2>2 DEF Joined
<1>. QED
  BY <1>1, Invariant, PTL DEF Spec, NoneAfterStop

-----------------------------------------------------------------------------
(* Parts of what a waiting client has sent.                                *)
LEMMA Parts ==
    ASSUME NEW lines \in Seq(ChunkKinds), LastAsks(lines), lines # << >>
    PROVE  /\ LastAsks(Tail(lines))
           /\ Blank(lines) => Blank(Tail(lines)) /\ Head(lines) = "empty"
           /\ Head(lines) # "empty" => Tail(lines) = << >>
<1>. DEFINE t == Tail(lines)
<1>1. /\ t \in Seq(ChunkKinds) /\ Len(t) = Len(lines) - 1
      /\ \A i \in 1..Len(t) : t[i] = lines[i + 1]
      /\ Head(lines) = lines[1] /\ Len(lines) \in Nat /\ Len(lines) > 0
  OBVIOUS
<1>2. /\ \A i \in 1..Len(lines) : i < Len(lines) => lines[i] = "empty"
      /\ Blank(lines) => \A i \in 1..Len(lines) : lines[i] = "empty"
  BY DEF LastAsks, Blank
<1>3. /\ \A i \in 1..Len(t) : i < Len(t) => t[i] = "empty"
      /\ Blank(lines) => \A i \in 1..Len(t) : t[i] = "empty"
  BY <1>1, <1>2
<1>4. DOMAIN t = 1..Len(t)
  BY <1>1
<1>5. LastAsks(t) /\ (Blank(lines) => Blank(t))
  BY <1>3, <1>4 DEF LastAsks, Blank
<1>6. Blank(lines) => Head(lines) = "empty"
  BY <1>1, <1>2
<1>7. Head(lines) # "empty" => t = << >>
  BY <1>1, <1>2
<1>. QED
  BY <1>5, <1>6, <1>7

LEMMA Split ==
    ASSUME NEW lines \in Seq(ChunkKinds), LastAsks(lines),
           NEW n \in 1..Len(lines)
    PROVE  LET front == SubSeq(lines, 1, n)
               rest == SubSeq(lines, n + 1, Len(lines))
           IN  /\ LastAsks(front) /\ LastAsks(rest)
               /\ rest # << >> => Blank(front)
               /\ Blank(lines) => Blank(front) /\ Blank(rest)
<1>. DEFINE front == SubSeq(lines, 1, n)
            rest == SubSeq(lines, n + 1, Len(lines))
<1>1. /\ front \in Seq(ChunkKinds) /\ Len(front) = n
      /\ \A i \in 1..n : front[i] = lines[i]
      /\ rest \in Seq(ChunkKinds) /\ Len(rest) = Len(lines) - n
      /\ \A i \in 1..(Len(lines) - n) : rest[i] = lines[n + i]
  OBVIOUS
<1>2. /\ \A i \in 1..Len(lines) : i < Len(lines) => lines[i] = "empty"
      /\ Blank(lines) => \A i \in 1..Len(lines) : lines[i] = "empty"
  BY DEF LastAsks, Blank
<1>3. DOMAIN front = 1..n /\ DOMAIN rest = 1..(Len(lines) - n)
  BY <1>1
<1>4. LastAsks(front) /\ LastAsks(rest)
  BY <1>1, <1>2, <1>3 DEF LastAsks
<1>5. rest # << >> => Blank(front)
  BY <1>1, <1>2, <1>3 DEF Blank
<1>6. Blank(lines) => Blank(front) /\ Blank(rest)
  BY <1>1, <1>2, <1>3 DEF Blank
<1>. QED
  BY <1>4, <1>5, <1>6

LEMMA Appended ==
    ASSUME NEW lines \in Seq(ChunkKinds), Blank(lines),
           NEW line \in ChunkKinds
    PROVE  /\ LastAsks(lines \o <<line>>)
           /\ line = "empty" => Blank(lines \o <<line>>)
<1>. DEFINE all == lines \o <<line>>
<1>1. /\ all \in Seq(ChunkKinds) /\ Len(all) = Len(lines) + 1
      /\ \A i \in 1..Len(lines) : all[i] = lines[i]
      /\ all[Len(lines) + 1] = line /\ Len(lines) \in Nat
  OBVIOUS
<1>2. \A i \in 1..Len(lines) : lines[i] = "empty"
  BY DEF Blank
<1>3. DOMAIN all = 1..(Len(lines) + 1)
  BY <1>1
<1>4. LastAsks(all)
  BY <1>1, <1>2, <1>3 DEF LastAsks
<1>5. line = "empty" => Blank(all)
  BY <1>1, <1>2, <1>3 DEF Blank
<1>. QED
  BY <1>4, <1>5

LEMMA EmptyLines == Blank(<< >>) /\ LastAsks(<< >>)
  BY DEF Blank, LastAsks

(* Clients that wait for each answer and send no line longer than fgets'   *)
(* buffer.                                                                 *)
Patient == Window = 1 /\ \A c \in Clients : "long" \notin Lines[c]

(* A client that waits for its answer finds the stdio buffer empty when it *)
(* comes, so no answer is lost to the change from reading to writing.      *)
LEMMA AskedStep ==
    ASSUME Patient, TypeOK, Asked, [Next]_vars PROVE Asked'
<1>0. /\ buf \in [Clients -> Seq(ChunkKinds)]
      /\ inq \in [Clients -> Seq(ChunkKinds)]
      /\ owed \in [Clients -> Int]
      /\ handler \in [Clients ->
            {"none", "fdopen", "read", "exec", "reply", "close", "done"}]
  BY DEF TypeOK
<1>. DEFINE At(h, b, q, o) ==
                /\ o \in {0, 1}
                /\ o = 0 => h \notin {"exec", "reply"} /\ Blank(b) /\ Blank(q)
                /\ LastAsks(b) /\ LastAsks(q)
                /\ q # << >> => Blank(b)
                /\ h \in {"exec", "reply"} => b = << >> /\ q = << >>
<1>. USE DEF Handler, procVars, clientVars, streamVars
<1>1. \A c \in Clients : At(handler[c], buf[c], inq[c], owed[c])
  BY DEF Asked
<1>2. ASSUME \A c \in Clients : At(handler'[c], buf'[c], inq'[c], owed'[c])
      PROVE  Asked'
  BY <1>2 DEF Asked
<1>3. ASSUME buf' = buf, inq' = inq, owed' = owed,
             \A c \in Clients :
                \/ handler'[c] = handler[c]
                \/ handler'[c] \notin {"exec", "reply"}
                \/ handler[c] = "exec" /\ handler'[c] = "reply"
      PROVE  Asked'
  BY <1>1, <1>2, <1>3
<1>4. ASSUME NEW c \in Clients,
             \A d \in Clients \ {c} : /\ handler'[d] = handler[d]
                                      /\ buf'[d] = buf[d] /\ inq'[d] = inq[d]
                                      /\ owed'[d] = owed[d],
             At(handler'[c], buf'[c], inq'[c], owed'[c])
      PROVE  Asked'
  <2>. HIDE DEF At
  <2>. QED
    BY <1>1, <1>2, <1>4
<1>5. ASSUME NEW c \in Clients, FillBuffer(c) PROVE Asked'
  <2>1. PICK n \in 1..Len(inq[c]) :
           /\ buf' = [buf EXCEPT ![c] = SubSeq(inq[c], 1, n)]
           /\ inq' = [inq EXCEPT ![c] = SubSeq(@, n + 1, Len(@))]
    BY <1>5 DEF FillBuffer
  <2>2. /\ buf'[c] = SubSeq(inq[c], 1, n)
        /\ inq'[c] = SubSeq(inq[c], n + 1, Len(inq[c]))
        /\ handler'[c] = handler[c] /\ owed'[c] = owed[c]
        /\ handler[c] = "read"
    BY <1>0, <1>5, <2>1 DEF FillBuffer
  <2>3. inq[c] \in Seq(ChunkKinds) /\ LastAsks(inq[c])
    BY <1>0, <1>1
  <2>4. /\ LastAsks(buf'[c]) /\ LastAsks(inq'[c])
        /\ inq'[c] # << >> => Blank(buf'[c])
        /\ Blank(inq[c]) => Blank(buf'[c]) /\ Blank(inq'[c])
    BY <2>2, <2>3, Split
  <2>5. At(handler'[c], buf'[c], inq'[c], owed'[c])
    BY <1>1, <2>2, <2>4
  <2>. QED
    BY <1>0, <1>4, <1>5, <2>1, <2>5 DEF FillBuffer
<1>6. ASSUME NEW c \in Clients, ReadLine(c) PROVE Asked'
  <2>1. /\ handler[c] = "read" /\ buf[c] # << >>
        /\ handler'[c] = IF Head(buf[c]) = "empty" THEN "read" ELSE "exec"
        /\ buf'[c] = Tail(buf[c]) /\ inq'[c] = inq[c] /\ owed'[c] = owed[c]
    BY <1>0, <1>6 DEF ReadLine
  <2>2. buf[c] \in Seq(ChunkKinds) /\ LastAsks(buf[c])
    BY <1>0, <1>1
  <2>3. /\ LastAsks(buf'[c])
        /\ Blank(buf[c]) => Blank(buf'[c]) /\ Head(buf[c]) = "empty"
        /\ Head(buf[c]) # "empty" => buf'[c] = << >>
    BY <2>1, <2>2, Parts
  <2>4. At(handler'[c], buf'[c], inq'[c], owed'[c])
    BY <1>1, <2>1, <2>3
  <2>. QED
    BY <1>0, <1>4, <1>6, <2>4 DEF ReadLine
<1>7. ASSUME NEW c \in Clients, Reply(c) PROVE Asked'
  <2>1. /\ handler[c] = "reply" /\ handler'[c] \in {"close", "read"}
        /\ buf'[c] = << >> /\ inq'[c] = inq[c]
    BY <1>0, <1>7 DEF Reply
  <2>2. buf[c] = << >> /\ inq[c] = << >> /\ owed[c] = 1
    BY <1>1, <2>1
  <2>3. owed' = [owed EXCEPT ![c] = owed[c] - 1]
    BY <1>7, <2>2 DEF Reply
  <2>4. At(handler'[c], buf'[c], inq'[c], owed'[c])
    BY <1>0, <2>1, <2>2, <2>3, EmptyLines
  <2>. QED
    BY <1>0, <1>4, <1>7, <2>3, <2>4 DEF Reply
<1>8. ASSUME NEW c \in Clients, Send(c) PROVE Asked'
  <2>1. PICK line \in Lines[c] :
           /\ inq' = [inq EXCEPT ![c] = @ \o Chunks(line)]
           /\ owed' = [owed EXCEPT ![c] = IF line = "empty" THEN @
                                                            ELSE @ + 1]
    BY <1>8 DEF Send
  <2>2. line \in ChunkKinds /\ Chunks(line) = <<line>>
    BY IpcAssumption DEF Patient, Chunks, ChunkKinds
  <2>3. owed[c] = 0 /\ Blank(inq[c]) /\ Blank(buf[c])
    BY <1>1, <1>8 DEF Send, Patient
  <2>4. /\ inq'[c] = inq[c] \o <<line>>
        /\ owed'[c] = IF line = "empty" THEN 0 ELSE 1
        /\ handler'[c] = handler[c] /\ buf'[c] = buf[c]
    BY <1>0, <1>8, <2>1, <2>2, <2>3 DEF Send
  <2>5. /\ LastAsks(inq'[c])
        /\ line = "empty" => Blank(inq'[c])
    BY <1>0, <2>2, <2>3, <2>4, Appended
  <2>6. At(handler'[c], buf'[c], inq'[c], owed'[c])
    BY <1>1, <2>3, <2>4, <2>5
  <2>. QED
    BY <1>0, <1>4, <1>8, <2>1, <2>6 DEF Send
<1>9. ASSUME NEW c \in Clients,
             Fdopen(c) \/ ReadEof(c) \/ Execute(c) \/ Fclose(c)
      PROVE  Asked'
  BY <1>0, <1>3, <1>9 DEF Fdopen, ReadEof, Execute, Fclose
<1>10. ASSUME NEW p \in Procs, Ends(p) PROVE Asked'
  BY <1>0, <1>3, <1>10 DEF Ends
<1>11. ASSUME NEW p \in Procs, NEW c \in Clients, SpawnHandler(p, c)
       PROVE  Asked'
  BY <1>0, <1>3, <1>11 DEF SpawnHandler
<1>12. CASE \/ UNCHANGED vars
            \/ \E c \in Clients : Connect(c) \/ HangUp(c)
            \/ \E p \in Procs :
                  AcceptCheck(p) \/ AcceptCall(p) \/ AcceptWoken(p)
            \/ \E p \in Procs, c \in Clients : AcceptClient(p, c)
            \/ \E p \in Procs :
                  \/ Socket(p) \/ Stop(p) \/ UnlinkStale(p) \/ Bind(p)
                  \/ Listen(p) \/ SpawnAcceptor(p) \/ Shutdown(p)
                  \/ CloseListener(p) \/ Join(p) \/ UnlinkLast(p)
                  \/ Destroy(p)
  BY <1>3, <1>12
     DEF Connect, HangUp, AcceptCheck, AcceptCall, AcceptWoken, AcceptClient,
         Socket, Stop, UnlinkStale, Bind, Listen, SpawnAcceptor, Shutdown,
         CloseListener, Join, UnlinkLast, Destroy, vars
<1>. QED
  BY <1>5, <1>6, <1>7, <1>8, <1>9, <1>10, <1>11, <1>12
     DEF Next, MainStep, AcceptStep, HandlerStep, Exit, Crash

(* Every step of the server and its clients is one of the channel's, or    *)
(* leaves connections and debts alone.                                     *)
LEMMA ChannelStep ==
    ASSUME Patient, TypeOK, Handled, Asked, [Next]_vars
    PROVE  [Channel!Next]_(Channel!vars)
<1>0. /\ owed \in [Clients -> Int]
      /\ conn \in [Clients -> {"none", "queued", "open", "closed"}]
  BY DEF TypeOK
<1>. USE DEF Handler, Acceptor, procVars, clientVars, streamVars
<1>1. ASSUME NEW S \in SUBSET Clients, Disconnect(S), owed' = owed,
             \A c \in S : conn[c] \in {"queued", "open"}
      PROVE  Channel!Next
  BY <1>1 DEF Disconnect, Channel!Next, Channel!Close
<1>2. ASSUME NEW p \in Procs, Ends(p) \/ CloseListener(p)
      PROVE  Channel!Next
  <2>1. CASE Ends(p)
    <3>. DEFINE S == Queued(p) \cup Open(p)
    <3>1. S \in SUBSET Clients /\ \A c \in S : conn[c] \in {"queued", "open"}
      BY DEF Queued, Open
    <3>2. Disconnect(S) /\ owed' = owed
      BY <2>1 DEF Ends
    <3>. HIDE DEF S
    <3>. QED
      BY <1>1, <3>1, <3>2
  <2>2. CASE CloseListener(p)
    <3>1. /\ Queued(p) \in SUBSET Clients
          /\ \A c \in Queued(p) : conn[c] \in {"queued", "open"}
      BY DEF Queued
    <3>2. Disconnect(Queued(p)) /\ owed' = owed
      BY <2>2 DEF CloseListener
    <3>. QED
      BY <1>1, <3>1, <3>2
  <2>. QED
    BY <1>2, <2>1, <2>2
<1>3. ASSUME NEW c \in Clients, Fdopen(c) \/ Fclose(c)
      PROVE  [Channel!Next]_(Channel!vars)
  <2>1. conn[c] = "open" /\ owed' = owed
    BY <1>3 DEF Fdopen, Fclose, Handled, OpenIsHandled
  <2>2. conn' = conn \/ Disconnect({c})
    BY <1>3 DEF Fdopen, Fclose
  <2>3. Disconnect({c}) => Channel!Next
    BY <1>1, <2>1
  <2>. QED
    BY <2>1, <2>2, <2>3 DEF Channel!vars
<1>4. ASSUME NEW c \in Clients, Reply(c) PROVE Channel!Next
  <2>1. /\ handler[c] = "reply" /\ conn' = conn
        /\ \E written \in {TRUE} \cup
                             (IF buf[c] = << >> THEN {} ELSE {FALSE}) :
              owed' = [owed EXCEPT ![c] = IF written THEN @ - 1 ELSE @]
    BY <1>4 DEF Reply
  <2>2. conn[c] = "open"
    BY <2>1 DEF Handled, OpenIsHandled
  <2>3. buf[c] = << >> /\ owed[c] = 1
    BY <2>1 DEF Asked
  <2>4. owed' = [owed EXCEPT ![c] = 0]
    BY <1>0, <2>1, <2>3
  <2>5. Channel!Answer(c)
    BY <2>1, <2>2, <2>3, <2>4 DEF Channel!Answer
  <2>. QED
    BY <2>5 DEF Channel!Next
<1>5. ASSUME NEW c \in Clients, Send(c) PROVE [Channel!Next]_(Channel!vars)
  <2>1. /\ conn[c] \in {"queued", "open"} /\ conn' = conn
        /\ \E line \in Lines[c] :
              owed' = [owed EXCEPT ![c] = IF line = "empty" THEN @ ELSE @ + 1]
    BY <1>5 DEF Send
  <2>2. owed[c] = 0
    BY <1>5 DEF Send, Patient, Asked
  <2>3. owed' = owed \/ owed' = [owed EXCEPT ![c] = 1]
    <3>1. PICK line \in Lines[c] :
             owed' = [owed EXCEPT ![c] = IF line = "empty" THEN owed[c]
                                                          ELSE owed[c] + 1]
      BY <2>1
    <3>2. CASE line = "empty"
      BY <1>0, <3>1, <3>2
    <3>3. CASE line # "empty"
      BY <2>2, <3>1, <3>3
    <3>. QED
      BY <3>2, <3>3
  <2>4. owed' = [owed EXCEPT ![c] = 1] => Channel!Send(c)
    BY <2>1, <2>2 DEF Channel!Send
  <2>. QED
    BY <2>1, <2>3, <2>4 DEF Channel!Next, Channel!vars
<1>6. ASSUME NEW c \in Clients, Connect(c) PROVE Channel!Next
  <2>1. Channel!Connect(c)
    BY <1>6 DEF Connect, Channel!Connect
  <2>. QED
    BY <2>1 DEF Channel!Next
<1>7. ASSUME NEW p \in Procs, NEW c \in Clients, AcceptClient(p, c)
      PROVE  Channel!Next
  <2>1. Channel!Accept(c)
    BY <1>7 DEF AcceptClient, Queued, Channel!Accept
  <2>. QED
    BY <2>1 DEF Channel!Next
<1>8. CASE \/ UNCHANGED vars
           \/ \E c \in Clients :
                \/ FillBuffer(c) \/ ReadLine(c) \/ ReadEof(c) \/ Execute(c)
                \/ HangUp(c)
           \/ \E p \in Procs :
                \/ AcceptCheck(p) \/ AcceptCall(p) \/ AcceptWoken(p)
                \/ \E c \in Clients : SpawnHandler(p, c)
           \/ \E p \in Procs :
                \/ Socket(p) \/ Stop(p) \/ UnlinkStale(p) \/ Bind(p)
                \/ Listen(p) \/ SpawnAcceptor(p) \/ Shutdown(p)
                \/ Join(p) \/ UnlinkLast(p) \/ Destroy(p)
  BY <1>8
     DEF FillBuffer, ReadLine, ReadEof, Execute, HangUp, AcceptCheck,
         AcceptCall, AcceptWoken, SpawnHandler, Socket, Stop, UnlinkStale,
         Bind, Listen, SpawnAcceptor, Shutdown, Join, UnlinkLast, Destroy,
         vars, Channel!vars
<1>. QED
  BY <1>2, <1>3, <1>4, <1>5, <1>6, <1>7, <1>8
     DEF Next, MainStep, AcceptStep, HandlerStep, Exit, Crash

(* Clients that wait for each answer and send short lines cannot tell the  *)
(* server, with its threads, crashes and restarts, from one channel that   *)
(* answers each command once.                                              *)
THEOREM IsChannel == ASSUME Patient PROVE Spec => ImplementsChannel
<1>1. Init => Channel!Init /\ Asked
  BY EmptyLines DEF Init, Channel!Init, Asked
<1>2. TypeOK /\ Asked /\ [Next]_vars => Asked'
  BY AskedStep
<1>3. TypeOK /\ Handled /\ Asked /\ [Next]_vars
         => [Channel!Next]_(Channel!vars)
  BY ChannelStep
<1>. QED
  BY <1>1, <1>2, <1>3, Invariant, PTL DEF Spec, ImplementsChannel, Channel!Spec
=============================================================================
