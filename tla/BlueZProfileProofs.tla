------------------------- MODULE BlueZProfileProofs -------------------------
(***************************************************************************)
(* Proofs about BlueZProfile, for every number of connections, descriptors *)
(* and senders.                                                            *)
(*                                                                         *)
(* The first invariant, Watch, holds in every state.  The second, Turns, is*)
(* about behaviours in which each host leaves by itself and is noticed     *)
(* before the next one comes: each number is then closed once, by its own  *)
(* reader, and none is handed out too early.  The third, Exclusive, is     *)
(* about behaviours in which no number was handed out too early: the       *)
(* threads that have not closed yet hold pairwise different numbers, and   *)
(* each close and compare-and-swap reaches the file it was meant for.      *)
(***************************************************************************)
EXTENDS BlueZProfile, TLAPS

Watch ==
    /\ pc \in {"close_old", "spawn"} =>
         newest \in Conns /\ rpc[newest] = "none" /\ link[newest] # "unused"
    /\ \A c \in Conns : link[c] = "unused" =>
         rpc[c] = "none" /\ \A f \in Fds : fdtab[f] # c
    /\ WatchedUntilCleared
    /\ NoLeak

(* A reader whose thread has not closed its number yet, or will be started *)
(* to do so.                                                               *)
Holds(c) == link[c] # "unused" /\ rpc[c] # "done" /\ new_fd[c] # NoFd

Apart ==
    /\ pc \notin {"close_old", "close_asked", "close_last"} => old_fd = NoFd
    /\ old_fd # NoFd => fdtab[old_fd] \notin Others /\ old_fd # interrupt_fd
    /\ \A o \in Others, f \in Fds : other[o] = f <=> fdtab[f] = o
    /\ \A c \in Conns : Holds(c) => fdtab[new_fd[c]] \in {c, NoFile}
    /\ \A c, d \in Conns :
         Holds(c) /\ Holds(d) /\ new_fd[c] = new_fd[d] => c = d
    /\ \A c \in Conns : rpc[c] = "blocked" => rfile[c] = c /\ new_fd[c] # NoFd
    /\ \A c \in Conns : rpc[c] \in {"cas", "callback", "close"} =>
         \/ link[c] = "down"
         \/ FileAt(new_fd[c]) = NoFile
    /\ interrupt_fd # NoFd => FileAt(interrupt_fd) = newest

Exclusive == ~clash => Apart

InOrder ==
    /\ ~clash
    /\ old_fd = NoFd
    /\ \A c \in Conns : link[c] = "unused" => new_fd[c] = NoFd
    /\ \A c \in Conns : Holds(c) => fdtab[new_fd[c]] = c
    /\ \A o \in Others, f \in Fds : other[o] = f <=> fdtab[f] = o

Turns == ~cut => InOrder

-----------------------------------------------------------------------------
(* Every variable keeps its type, for every value of the constants.        *)
THEOREM TypeCorrect == Spec => []TypeOK
<1>. USE FilesAssumption DEF TypeOK, MaybeFd, MaybeFile, Files, HandlerPcs,
         ReaderPcs, LinkStates
<1>1. Init => TypeOK
  <2>. SUFFICES ASSUME Init PROVE TypeOK
    OBVIOUS
  <2>1. fdtab \in [Fds -> MaybeFile]
    BY DEF Init
  <2>2. link \in [Conns -> LinkStates] /\ rpc \in [Conns -> ReaderPcs]
    BY DEF Init
  <2>3. new_fd \in [Conns -> MaybeFd] /\ rfile \in [Conns -> MaybeFile]
    BY DEF Init
  <2>4. /\ spc \in [Senders -> {"idle", "write"}]
        /\ sfd \in [Senders -> MaybeFd]
        /\ sto \in [Senders -> Conns \cup {NoFile}]
    BY DEF Init
  <2>5. other \in [Others -> MaybeFd]
    BY DEF Init
  <2>. QED
    BY <2>1, <2>2, <2>3, <2>4, <2>5 DEF Init
<1>2. TypeOK /\ [Next]_vars => TypeOK'
  <2>. SUFFICES ASSUME TypeOK, [Next]_vars PROVE TypeOK'
    OBVIOUS
  <2>1. ASSUME NEW c \in Conns, NewConnection(c) PROVE  TypeOK'
    BY <2>1
       DEF NewConnection, Available, Free, handlerVars, readerVars,
           senderVars, history
  <2>2. ASSUME NEW c \in Conns, RequestDisconnection(c) PROVE  TypeOK'
    BY <2>2
       DEF RequestDisconnection, handlerVars, readerVars, senderVars, history
  <2>3. CASE CloseOld
    BY <2>3 DEF CloseOld, CloseFd, handlerVars, readerVars, senderVars, history
  <2>4. CASE SpawnReader
    BY <2>4 DEF SpawnReader, handlerVars, readerVars, senderVars, history
  <2>5. CASE ConnectedCallback
    BY <2>5 DEF ConnectedCallback, handlerVars, readerVars, senderVars, history
  <2>6. CASE CloseAsked
    BY <2>6
       DEF CloseAsked, CloseFd, handlerVars, readerVars, senderVars, history
  <2>7. CASE DisconnectedCallback
    BY <2>7
       DEF DisconnectedCallback, handlerVars, readerVars, senderVars, history
  <2>8. CASE CloseLast
    BY <2>8
       DEF CloseLast, CloseFd, handlerVars, readerVars, senderVars, history
  <2>9. CASE UnregisterProfile
    BY <2>9 DEF UnregisterProfile, handlerVars, readerVars, senderVars, history
  <2>10. ASSUME NEW c \in Conns, ReadCall(c) PROVE  TypeOK'
    BY <2>10 DEF ReadCall, FileAt, handlerVars, readerVars, senderVars, history
  <2>11. ASSUME NEW c \in Conns, ReadData(c) PROVE  TypeOK'
    BY <2>11
       DEF ReadData, HasData, handlerVars, readerVars, senderVars, history
  <2>12. ASSUME NEW c \in Conns, ReadEnd(c) PROVE  TypeOK'
    BY <2>12 DEF ReadEnd, AtEnd, handlerVars, readerVars, senderVars, history
  <2>13. ASSUME NEW c \in Conns, ReaderClears(c) PROVE  TypeOK'
    BY <2>13 DEF ReaderClears, handlerVars, readerVars, senderVars, history
  <2>14. ASSUME NEW c \in Conns, ReaderCallback(c) PROVE  TypeOK'
    BY <2>14 DEF ReaderCallback, handlerVars, readerVars, senderVars, history
  <2>15. ASSUME NEW c \in Conns, ReaderCloses(c) PROVE  TypeOK'
    BY <2>15
       DEF ReaderCloses, CloseFd, handlerVars, readerVars, senderVars, history
  <2>16. ASSUME NEW c \in Conns, HangUp(c) PROVE  TypeOK'
    BY <2>16 DEF HangUp, handlerVars, readerVars, senderVars, history
  <2>17. ASSUME NEW s \in Senders, SendLoads(s) PROVE  TypeOK'
    BY <2>17 DEF SendLoads, handlerVars, readerVars, senderVars, history
  <2>18. ASSUME NEW s \in Senders, SendReturns(s) PROVE  TypeOK'
    BY <2>18 DEF SendReturns, handlerVars, readerVars, senderVars, history
  <2>19. ASSUME NEW o \in Others, OtherOpens(o) PROVE  TypeOK'
    BY <2>19
       DEF OtherOpens, Available, Free, handlerVars, readerVars,
           senderVars, history
  <2>20. ASSUME NEW o \in Others, OtherCloses(o) PROVE  TypeOK'
    BY <2>20
       DEF OtherCloses, CloseFd, handlerVars, readerVars, senderVars, history
  <2>21. CASE UNCHANGED vars
    BY <2>21 DEF vars
  <2>22. CASE RegisterHIDProfile
    BY <2>22 DEF RegisterHIDProfile, readerVars, senderVars, history
  <2>. QED
    BY <2>1, <2>2, <2>3, <2>4, <2>5, <2>6, <2>7, <2>8, <2>9, <2>10, <2>11,
       <2>12, <2>13, <2>14, <2>15, <2>16, <2>17, <2>18, <2>19, <2>20, <2>21,
       <2>22
       DEF Next, Handler, Reader, Sender
<1>. QED
  BY <1>1, <1>2, PTL DEF Spec

-----------------------------------------------------------------------------
(* Watch is inductive: only the reader of the newest connection can be the *)
(* last thread to know a published number, and it clears it before it goes *)
(* on to close.                                                            *)
LEMMA WatchInit == Init => Watch
  BY FilesAssumption DEF Init, Watch, WatchedUntilCleared, NoLeak

(* Every step of the handler, the readers and the senders keeps it.        *)
LEMMA WatchStep == TypeOK /\ Watch /\ [Next]_vars => Watch'
<1>. SUFFICES ASSUME TypeOK, Watch, [Next]_vars PROVE Watch'
  OBVIOUS
<1>. USE FilesAssumption DEF TypeOK, MaybeFd, MaybeFile, Files, FileAt,
         LinkStates, Watch, WatchedUntilCleared, NoLeak
<1>1. ASSUME NEW k \in Conns, NewConnection(k) PROVE  Watch'
  BY <1>1
     DEF NewConnection, Available, Free, handlerVars, readerVars,
         senderVars, history
<1>2. ASSUME NEW k \in Conns, RequestDisconnection(k) PROVE  Watch'
  BY <1>2
     DEF RequestDisconnection, handlerVars, readerVars, senderVars, history
<1>3. CASE CloseOld
  BY <1>3 DEF CloseOld, CloseFd, handlerVars, readerVars, senderVars, history
<1>4. CASE SpawnReader
  BY <1>4 DEF SpawnReader, handlerVars, readerVars, senderVars, history
<1>5. CASE ConnectedCallback
  BY <1>5 DEF ConnectedCallback, handlerVars, readerVars, senderVars, history
<1>6. CASE CloseAsked
  BY <1>6 DEF CloseAsked, CloseFd, handlerVars, readerVars, senderVars, history
<1>7. CASE DisconnectedCallback
  BY <1>7
     DEF DisconnectedCallback, handlerVars, readerVars, senderVars, history
<1>8. CASE CloseLast
  BY <1>8 DEF CloseLast, CloseFd, handlerVars, readerVars, senderVars, history
<1>9. CASE UnregisterProfile
  BY <1>9 DEF UnregisterProfile, handlerVars, readerVars, senderVars, history
<1>10. ASSUME NEW k \in Conns, ReadCall(k) PROVE  Watch'
  BY <1>10 DEF ReadCall, handlerVars, readerVars, senderVars, history
<1>11. ASSUME NEW k \in Conns, ReadData(k) PROVE  Watch'
  BY <1>11 DEF ReadData, HasData, handlerVars, readerVars, senderVars, history
<1>12. ASSUME NEW k \in Conns, ReadEnd(k) PROVE  Watch'
  BY <1>12 DEF ReadEnd, AtEnd, handlerVars, readerVars, senderVars, history
<1>13. ASSUME NEW k \in Conns, ReaderClears(k) PROVE  Watch'
  BY <1>13 DEF ReaderClears, handlerVars, readerVars, senderVars, history
<1>14. ASSUME NEW k \in Conns, ReaderCallback(k) PROVE  Watch'
  BY <1>14 DEF ReaderCallback, handlerVars, readerVars, senderVars, history
<1>15. ASSUME NEW k \in Conns, ReaderCloses(k) PROVE  Watch'
  BY <1>15
     DEF ReaderCloses, CloseFd, handlerVars, readerVars, senderVars, history
<1>16. ASSUME NEW k \in Conns, HangUp(k) PROVE  Watch'
  BY <1>16 DEF HangUp, handlerVars, readerVars, senderVars, history
<1>17. ASSUME NEW s \in Senders, SendLoads(s) PROVE  Watch'
  BY <1>17 DEF SendLoads, handlerVars, readerVars, senderVars, history
<1>18. ASSUME NEW s \in Senders, SendReturns(s) PROVE  Watch'
  BY <1>18 DEF SendReturns, handlerVars, readerVars, senderVars, history
<1>19. ASSUME NEW n \in Others, OtherOpens(n) PROVE  Watch'
  BY <1>19
     DEF OtherOpens, Available, Free, handlerVars, readerVars,
         senderVars, history
<1>20. ASSUME NEW n \in Others, OtherCloses(n) PROVE  Watch'
  BY <1>20
     DEF OtherCloses, CloseFd, handlerVars, readerVars, senderVars, history
<1>21. CASE UNCHANGED vars
  BY <1>21 DEF vars
<1>22. CASE RegisterHIDProfile
  BY <1>22 DEF RegisterHIDProfile, readerVars, senderVars, history
<1>. QED
  BY <1>1, <1>2, <1>3, <1>4, <1>5, <1>6, <1>7, <1>8, <1>9, <1>10, <1>11,
     <1>12, <1>13, <1>14, <1>15, <1>16, <1>17, <1>18, <1>19, <1>20, <1>21,
     <1>22
     DEF Next, Handler, Reader, Sender

(* A published number always has a reader that will clear it, whatever     *)
(* numbers the kernel reuses: bluez_profile.cpp 64-90.                     *)
THEOREM Watched == Spec => []WatchedUntilCleared
<1>1. Watch => WatchedUntilCleared
  BY DEF Watch
<1>. QED
  BY <1>1, WatchInit, WatchStep, TypeCorrect, PTL DEF Spec

(* No reader ends while its connection's socket is open, whatever numbers  *)
(* the kernel reuses: bluez_profile.cpp 88-90.                             *)
THEOREM NothingLeaks == Spec => []NoLeak
<1>1. Watch => NoLeak
  BY DEF Watch
<1>. QED
  BY <1>1, WatchInit, WatchStep, TypeCorrect, PTL DEF Spec

-----------------------------------------------------------------------------
(* A number that is handed out is free.                                    *)
LEMMA HandedOut ==
  ASSUME TypeOK, NEW fd \in Available
  PROVE  /\ fd \in MaybeFd
         /\ fd # NoFd => fd \in Fds /\ fdtab[fd] = NoFile
  BY DEF TypeOK, MaybeFd, Available, Free

(* Turns is inductive: while nothing was taken out of interrupt_fd before a*)
(* reader cleared it, each number a reader holds names its own socket, so  *)
(* it is not free, so it is not handed out.                                *)
LEMMA InOrderInit == Init => InOrder
  BY FilesAssumption DEF Init, InOrder, Holds

LEMMA InOrderStep ==
  ASSUME ~cut', TypeOK, Watch, InOrder, [Next]_vars
  PROVE  InOrder'
<1>. USE FilesAssumption DEF TypeOK, MaybeFd, MaybeFile, Files, LinkStates,
         ReaderPcs, Watch, InOrder, Holds
<1>1. ASSUME NEW k \in Conns, NewConnection(k) PROVE  InOrder'
  <2>. USE <1>1 DEF NewConnection, handlerVars, readerVars, senderVars
  <2>1. PICK fd \in Available :
          /\ fdtab' = [f \in Fds |-> IF f = fd THEN k ELSE fdtab[f]]
          /\ new_fd' = [new_fd EXCEPT ![k] = fd]
          /\ interrupt_fd' = fd
          /\ clash' = (clash \/ ToBeClosed(fd))
    OBVIOUS
  <2>2. fd \in MaybeFd /\ (fd # NoFd => fdtab[fd] = NoFile)
    BY <2>1, HandedOut
  <2>3. ~ToBeClosed(fd)
    BY <2>2 DEF ToBeClosed
  <2>4. interrupt_fd = NoFd
    OBVIOUS
  <2>. QED
    BY <2>1, <2>2, <2>3, <2>4
<1>2. ASSUME NEW k \in Conns, RequestDisconnection(k) PROVE  InOrder'
  <2>. USE <1>2 DEF RequestDisconnection, readerVars, senderVars
  <2>1. interrupt_fd = NoFd
    OBVIOUS
  <2>2. old_fd' = NoFd /\ link' = [link EXCEPT ![k] = "ending"]
    BY <2>1
  <2>3. UNCHANGED <<clash, fdtab, new_fd, rpc, other>> /\ link[k] = "up"
    OBVIOUS
  <2>. QED
    BY <2>2, <2>3
<1>3. CASE CloseOld
  BY <1>3 DEF CloseOld, CloseFd, handlerVars, readerVars, senderVars, history
<1>4. CASE SpawnReader
  BY <1>4 DEF SpawnReader, handlerVars, readerVars, senderVars, history
<1>5. CASE ConnectedCallback
  BY <1>5 DEF ConnectedCallback, handlerVars, readerVars, senderVars, history
<1>6. CASE CloseAsked
  BY <1>6 DEF CloseAsked, CloseFd, handlerVars, readerVars, senderVars, history
<1>7. CASE DisconnectedCallback
  BY <1>7
     DEF DisconnectedCallback, handlerVars, readerVars, senderVars, history
<1>8. CASE CloseLast
  BY <1>8 DEF CloseLast, CloseFd, handlerVars, readerVars, senderVars, history
<1>9. CASE UnregisterProfile
  BY <1>9 DEF UnregisterProfile, handlerVars, readerVars, senderVars, history
<1>10. ASSUME NEW k \in Conns, ReadCall(k) PROVE  InOrder'
  BY <1>10 DEF ReadCall, FileAt, handlerVars, readerVars, senderVars, history
<1>11. ASSUME NEW k \in Conns, ReadData(k) PROVE  InOrder'
  BY <1>11 DEF ReadData, HasData, handlerVars, readerVars, senderVars, history
<1>12. ASSUME NEW k \in Conns, ReadEnd(k) PROVE  InOrder'
  BY <1>12 DEF ReadEnd, AtEnd, handlerVars, readerVars, senderVars, history
<1>13. ASSUME NEW k \in Conns, ReaderClears(k) PROVE  InOrder'
  BY <1>13 DEF ReaderClears, handlerVars, readerVars, senderVars, history
<1>14. ASSUME NEW k \in Conns, ReaderCallback(k) PROVE  InOrder'
  BY <1>14 DEF ReaderCallback, handlerVars, readerVars, senderVars, history
<1>15. ASSUME NEW k \in Conns, ReaderCloses(k) PROVE  InOrder'
  BY <1>15
     DEF ReaderCloses, CloseFd, handlerVars, readerVars, senderVars, history
<1>16. ASSUME NEW k \in Conns, HangUp(k) PROVE  InOrder'
  BY <1>16 DEF HangUp, handlerVars, readerVars, senderVars, history
<1>17. ASSUME NEW s \in Senders, SendLoads(s) PROVE  InOrder'
  BY <1>17 DEF SendLoads, handlerVars, readerVars, senderVars, history
<1>18. ASSUME NEW s \in Senders, SendReturns(s) PROVE  InOrder'
  BY <1>18 DEF SendReturns, handlerVars, readerVars, senderVars, history
<1>19. ASSUME NEW n \in Others, OtherOpens(n) PROVE  InOrder'
  <2>. USE <1>19 DEF OtherOpens, handlerVars, readerVars, senderVars
  <2>1. PICK fd \in Available \ {NoFd} :
          /\ fdtab' = [fdtab EXCEPT ![fd] = n]
          /\ other' = [other EXCEPT ![n] = fd]
          /\ clash' = (clash \/ ToBeClosed(fd))
    OBVIOUS
  <2>2. fd \in Fds /\ fdtab[fd] = NoFile
    BY <2>1, HandedOut
  <2>3. ~ToBeClosed(fd)
    BY <2>2 DEF ToBeClosed
  <2>. QED
    BY <2>1, <2>2, <2>3
<1>20. ASSUME NEW n \in Others, OtherCloses(n) PROVE  InOrder'
  <2>. USE <1>20 DEF OtherCloses, CloseFd, handlerVars, readerVars,
                     senderVars, history
  <2>1. other[n] \in Fds /\ fdtab[other[n]] = n
    OBVIOUS
  <2>2. (\A c \in Conns : Holds(c) => fdtab[new_fd[c]] = c)'
    BY <2>1
  <2>3. (\A o \in Others, f \in Fds : other[o] = f <=> fdtab[f] = o)'
    BY <2>1
  <2>4. (~clash /\ old_fd = NoFd)'
    OBVIOUS
  <2>5. (\A c \in Conns : link[c] = "unused" => new_fd[c] = NoFd)'
    OBVIOUS
  <2>. QED
    BY <2>2, <2>3, <2>4, <2>5
<1>21. CASE UNCHANGED vars
  BY <1>21 DEF vars
<1>22. CASE RegisterHIDProfile
  BY <1>22 DEF RegisterHIDProfile, readerVars, senderVars, history
<1>. QED
  BY <1>1, <1>2, <1>3, <1>4, <1>5, <1>6, <1>7, <1>8, <1>9, <1>10, <1>11,
     <1>12, <1>13, <1>14, <1>15, <1>16, <1>17, <1>18, <1>19, <1>20, <1>21,
     <1>22
     DEF Next, Handler, Reader, Sender

(* What was cut stays in the history.                                      *)
LEMMA CutStays == ASSUME TypeOK, cut, [Next]_vars PROVE cut'
  BY DEF TypeOK, Next, vars, Handler, Reader, Sender, RegisterHIDProfile,
         NewConnection, RequestDisconnection, CloseOld, SpawnReader,
         ConnectedCallback, CloseAsked, DisconnectedCallback, CloseLast,
         UnregisterProfile, ReadCall, ReadData, ReadEnd, ReaderClears,
         ReaderCallback, ReaderCloses, HangUp, SendLoads, SendReturns,
         OtherOpens, OtherCloses, history

(* Hosts that come one after another do no harm, whatever numbers the      *)
(* kernel reuses: bluez_profile.cpp 65, 83, 89.                            *)
THEOREM InTurn == Spec => []InTurnHarmless
<1>1. Init => Turns
  BY InOrderInit DEF Turns
<1>2. TypeOK /\ Watch /\ Turns /\ [Next]_vars => Turns'
  BY CutStays, InOrderStep DEF Turns
<1>3. TypeOK /\ InOrder => ~clash /\ OthersIntact
  <2>. SUFFICES ASSUME TypeOK, InOrder, NEW o \in Others, other[o] # NoFd
                PROVE  FileAt(other[o]) = o
    BY DEF InOrder, OthersIntact
  <2>1. other[o] \in Fds
    BY DEF TypeOK, MaybeFd
  <2>. QED
    BY <2>1 DEF InOrder, FileAt
<1>4. TypeOK /\ Turns => InTurnHarmless
  BY <1>3 DEF Turns, InTurnHarmless
<1>. QED
  BY <1>1, <1>2, <1>4, WatchInit, WatchStep, TypeCorrect, PTL DEF Spec

-----------------------------------------------------------------------------
(* A fresh number differs from that of every thread that has still to      *)
(* close, as long as no clash was seen; so the numbers stay apart.         *)
LEMMA ApartInit == Init => Apart
  BY FilesAssumption DEF Init, Apart, Holds, FileAt

LEMMA ApartStep ==
  ASSUME ~clash', TypeOK, Watch, Apart, [Next]_vars
  PROVE  Apart'
<1>. USE FilesAssumption DEF TypeOK, MaybeFd, MaybeFile, Files, FileAt,
         LinkStates, ReaderPcs, Watch, WatchedUntilCleared, NoLeak, Holds,
         Apart
<1>1. ASSUME NEW k \in Conns, NewConnection(k) PROVE  Apart'
  <2>. USE <1>1 DEF NewConnection, handlerVars, readerVars, senderVars, history
  <2>1. PICK fd \in Available :
          /\ fdtab' = [f \in Fds |-> IF f = fd THEN k ELSE fdtab[f]]
          /\ new_fd' = [new_fd EXCEPT ![k] = fd]
          /\ interrupt_fd' = fd
          /\ clash' = (clash \/ ToBeClosed(fd))
    OBVIOUS
  <2>2. /\ fd \in MaybeFd
        /\ fd # NoFd => fdtab[fd] = NoFile /\ ~ToBeClosed(fd)
    BY <2>1 DEF Available, Free
  <2>3. pc' = "close_old"
    OBVIOUS
  <2>4. (old_fd # NoFd =>
           fdtab[old_fd] \notin Others /\ old_fd # interrupt_fd)'
    BY <2>1, <2>2
  <2>5. (\A o \in Others, f \in Fds : other[o] = f <=> fdtab[f] = o)'
    BY <2>1, <2>2
  <2>6. (\A c \in Conns : Holds(c) => fdtab[new_fd[c]] \in {c, NoFile})'
    BY <2>1, <2>2 DEF ToBeClosed
  <2>7. (\A c, d \in Conns :
           Holds(c) /\ Holds(d) /\ new_fd[c] = new_fd[d] => c = d)'
    BY <2>1, <2>2 DEF ToBeClosed
  <2>8. (\A c \in Conns : rpc[c] = "blocked" =>
           rfile[c] = c /\ new_fd[c] # NoFd)'
    BY <2>1, <2>2
  <2>9. (\A c \in Conns : rpc[c] \in {"cas", "callback", "close"} =>
           link[c] = "down" \/ FileAt(new_fd[c]) = NoFile)'
    BY <2>1, <2>2 DEF ToBeClosed
  <2>10. (interrupt_fd # NoFd => FileAt(interrupt_fd) = newest)'
    BY <2>1, <2>2
  <2>. QED
    BY <2>3, <2>4, <2>5, <2>6, <2>7, <2>8, <2>9, <2>10
<1>2. ASSUME NEW k \in Conns, RequestDisconnection(k) PROVE  Apart'
  BY <1>2
     DEF RequestDisconnection, handlerVars, readerVars, senderVars, history
<1>3. CASE CloseOld
  BY <1>3 DEF CloseOld, CloseFd, handlerVars, readerVars, senderVars, history
<1>4. CASE SpawnReader
  BY <1>4 DEF SpawnReader, handlerVars, readerVars, senderVars, history
<1>5. CASE ConnectedCallback
  BY <1>5 DEF ConnectedCallback, handlerVars, readerVars, senderVars, history
<1>6. CASE CloseAsked
  BY <1>6 DEF CloseAsked, CloseFd, handlerVars, readerVars, senderVars, history
<1>7. CASE DisconnectedCallback
  BY <1>7
     DEF DisconnectedCallback, handlerVars, readerVars, senderVars, history
<1>8. CASE CloseLast
  BY <1>8 DEF CloseLast, CloseFd, handlerVars, readerVars, senderVars, history
<1>9. CASE UnregisterProfile
  BY <1>9 DEF UnregisterProfile, handlerVars, readerVars, senderVars, history
<1>10. ASSUME NEW k \in Conns, ReadCall(k) PROVE  Apart'
  BY <1>10 DEF ReadCall, handlerVars, readerVars, senderVars, history
<1>11. ASSUME NEW k \in Conns, ReadData(k) PROVE  Apart'
  BY <1>11 DEF ReadData, HasData, handlerVars, readerVars, senderVars, history
<1>12. ASSUME NEW k \in Conns, ReadEnd(k) PROVE  Apart'
  BY <1>12 DEF ReadEnd, AtEnd, handlerVars, readerVars, senderVars, history
<1>13. ASSUME NEW k \in Conns, ReaderClears(k) PROVE  Apart'
  BY <1>13 DEF ReaderClears, handlerVars, readerVars, senderVars, history
<1>14. ASSUME NEW k \in Conns, ReaderCallback(k) PROVE  Apart'
  BY <1>14 DEF ReaderCallback, handlerVars, readerVars, senderVars, history
<1>15. ASSUME NEW k \in Conns, ReaderCloses(k) PROVE  Apart'
  BY <1>15
     DEF ReaderCloses, CloseFd, handlerVars, readerVars, senderVars, history
<1>16. ASSUME NEW k \in Conns, HangUp(k) PROVE  Apart'
  BY <1>16 DEF HangUp, handlerVars, readerVars, senderVars, history
<1>17. ASSUME NEW s \in Senders, SendLoads(s) PROVE  Apart'
  BY <1>17 DEF SendLoads, handlerVars, readerVars, senderVars, history
<1>18. ASSUME NEW s \in Senders, SendReturns(s) PROVE  Apart'
  BY <1>18 DEF SendReturns, handlerVars, readerVars, senderVars, history
<1>19. ASSUME NEW n \in Others, OtherOpens(n) PROVE  Apart'
  <2>. USE <1>19 DEF OtherOpens, handlerVars, readerVars, senderVars
  <2>1. PICK fd \in Available \ {NoFd} :
          /\ fdtab' = [fdtab EXCEPT ![fd] = n]
          /\ other' = [other EXCEPT ![n] = fd]
          /\ clash' = (clash \/ ToBeClosed(fd))
    OBVIOUS
  <2>2. fd \in Fds /\ fdtab[fd] = NoFile
    BY <2>1, HandedOut
  <2>3. old_fd # fd /\ \A c \in Conns : Holds(c) => new_fd[c] # fd
    BY <2>1 DEF ToBeClosed
  <2>. QED
    BY <2>1, <2>2, <2>3
<1>20. ASSUME NEW n \in Others, OtherCloses(n) PROVE  Apart'
  BY <1>20
     DEF OtherCloses, CloseFd, handlerVars, readerVars, senderVars, history
<1>21. CASE UNCHANGED vars
  BY <1>21 DEF vars
<1>22. CASE RegisterHIDProfile
  BY <1>22 DEF RegisterHIDProfile, readerVars, senderVars, history
<1>. QED
  BY <1>1, <1>2, <1>3, <1>4, <1>5, <1>6, <1>7, <1>8, <1>9, <1>10, <1>11,
     <1>12, <1>13, <1>14, <1>15, <1>16, <1>17, <1>18, <1>19, <1>20, <1>21,
     <1>22
     DEF Next, Handler, Reader, Sender

(* A clash that was seen stays in the history.                             *)
LEMMA ClashStays == ASSUME TypeOK, clash, [Next]_vars PROVE clash'
  BY DEF TypeOK, Next, vars, Handler, Reader, Sender, RegisterHIDProfile,
         NewConnection, RequestDisconnection, CloseOld, SpawnReader,
         ConnectedCallback, CloseAsked, DisconnectedCallback, CloseLast,
         UnregisterProfile, ReadCall, ReadData, ReadEnd, ReaderClears,
         ReaderCallback, ReaderCloses, HangUp, SendLoads, SendReturns,
         OtherOpens, OtherCloses, history

LEMMA ExclusiveStep ==
  ASSUME TypeOK, Watch, Exclusive, [Next]_vars PROVE Exclusive'
  BY ClashStays, ApartStep DEF Exclusive

(* A step in which a reader clears the slot is the step of the newest      *)
(* connection's reader, after that host left.                              *)
LEMMA ClearsOwnStep ==
  ASSUME TypeOK, Watch, Apart, [Next]_vars, NEW c \in Conns,
         rpc[c] = "cas", rpc'[c] = "callback", interrupt_fd # NoFd
  PROVE  newest = c /\ link[c] = "down"
<1>. USE FilesAssumption DEF TypeOK, MaybeFd, MaybeFile, Files, FileAt,
         LinkStates, ReaderPcs, Watch, WatchedUntilCleared, NoLeak, Holds,
         Apart
<1>1. ReaderClears(c)
  BY DEF Next, vars, Handler, Reader, Sender, RegisterHIDProfile,
     NewConnection,
         RequestDisconnection, CloseOld, SpawnReader, ConnectedCallback,
         CloseAsked, DisconnectedCallback, CloseLast, UnregisterProfile,
         ReadCall, ReadData, ReadEnd, ReaderClears, ReaderCallback,
         ReaderCloses, HangUp, SendLoads, SendReturns, OtherOpens,
         OtherCloses, handlerVars, readerVars, senderVars, history
<1>2. interrupt_fd = new_fd[c]
  BY <1>1 DEF ReaderClears
<1>3. Holds(c) /\ Holds(newest) /\ new_fd[newest] = interrupt_fd
  BY <1>2
<1>4. newest = c
  BY <1>2, <1>3
<1>. QED
  BY <1>2, <1>4

(* In every state.                                                         *)
LEMMA ExclusiveAlways == Spec => [](TypeOK /\ Watch /\ Exclusive)
<1>1. Init => Exclusive
  BY ApartInit DEF Exclusive
<1>2. TypeOK /\ Watch /\ Exclusive /\ [Next]_vars => Exclusive'
  BY ExclusiveStep
<1>. QED
  BY <1>1, <1>2, TypeCorrect, WatchInit, WatchStep, PTL DEF Spec

(* The published number names the socket of the newest host, until a number*)
(* is handed out that a thread has still to close (bluez_profile.cpp 65,   *)
(* 83, 116).                                                               *)
THEOREM NewestOnly == Spec => []StoredFdIsNewest
<1>1. Exclusive => StoredFdIsNewest
  BY DEF Exclusive, Apart, StoredFdIsNewest
<1>. QED
  BY <1>1, ExclusiveAlways, PTL

(* Until then a reader clears the slot only for its own host, once that    *)
(* host has left (bluez_profile.cpp 83).                                   *)
THEOREM ReadersClearOwn == Spec => ClearsOwnUnlessClash
<1>1. TypeOK /\ Watch /\ Exclusive /\ [Next]_vars => (~clash => ClearsOwn)
  BY ClearsOwnStep DEF ClearsOwn, Exclusive
<1>2. TypeOK /\ Watch /\ Exclusive /\ [Next]_vars
        => [~clash => ClearsOwn]_vars
  BY <1>1
<1>3. Spec => [][~clash => ClearsOwn]_vars
  BY <1>2, ExclusiveAlways, PTL DEF Spec
<1>. QED
  BY <1>3 DEF ClearsOwnUnlessClash

-----------------------------------------------------------------------------
(* The slot holds the newest host or nobody, as Apart says before and      *)
(* after each step.  So a step that only closes, reads, writes or starts a *)
(* thread leaves it as it is, and every other is a step of the slot.       *)
LEMMA KeepStep ==
  ASSUME TypeOK, Watch, Apart, TypeOK', Apart', [Next]_vars, UNCHANGED clash
  PROVE  [Slot!Next]_(Slot!vars)
<1>. DEFINE S == FileAt(interrupt_fd)
            Open == pc \notin {"close_last", "stopped"}
<1>1. /\ S = IF interrupt_fd = NoFd THEN NoFile ELSE newest
      /\ S' = IF interrupt_fd' = NoFd THEN NoFile ELSE newest'
  BY FilesAssumption
     DEF TypeOK, Apart, FileAt, MaybeFd
<1>2. ASSUME UNCHANGED <<interrupt_fd, newest, link>>, Open' = Open
      PROVE  [Slot!Next]_(Slot!vars)
  BY <1>1, <1>2 DEF Slot!vars
<1>. USE DEF handlerVars, readerVars, senderVars, history
<1>3. ASSUME NEW c \in Conns, NewConnection(c)
      PROVE  [Slot!Next]_(Slot!vars)
  <2>1. Slot!Connect(c)
    BY <1>1, <1>3 DEF NewConnection, Slot!Connect
  <2>. QED
    BY <2>1 DEF Slot!Next, Slot!Keep
<1>4. ASSUME NEW c \in Conns, RequestDisconnection(c)
      PROVE  [Slot!Next]_(Slot!vars)
  <2>1. Slot!Disconnect(c)
    BY <1>1, <1>4 DEF RequestDisconnection, Slot!Disconnect
  <2>. QED
    BY <2>1 DEF Slot!Next, Slot!Keep
<1>5. ASSUME NEW c \in Conns, HangUp(c)
      PROVE  [Slot!Next]_(Slot!vars)
  <2>1. Slot!HangUp(c)
    BY <1>1, <1>5 DEF HangUp, Slot!HangUp
  <2>. QED
    BY <2>1 DEF Slot!Next, Slot!Keep
<1>6. CASE UnregisterProfile
  <2>1. Slot!Close
    BY <1>1, <1>6 DEF UnregisterProfile, Slot!Close
  <2>. QED
    BY <2>1 DEF Slot!Next, Slot!Keep
<1>7. ASSUME NEW c \in Conns, ReaderClears(c)
      PROVE  [Slot!Next]_(Slot!vars)
  <2>. USE <1>7 DEF ReaderClears
  <2>1. CASE interrupt_fd # new_fd[c] \/ interrupt_fd = NoFd
    BY <1>2, <2>1
  <2>2. CASE interrupt_fd = new_fd[c] /\ interrupt_fd # NoFd
    <3>1. newest = c /\ link[c] = "down"
      <4>1. rpc'[c] = "callback"
        BY <2>2 DEF TypeOK
      <4>. QED
        BY <2>2, <4>1, ClearsOwnStep
    <3>2. Slot!Lapse
      BY <1>1, <2>2, <3>1, FilesAssumption DEF Slot!Lapse
    <3>. QED
      BY <3>2 DEF Slot!Next, Slot!Keep
  <2>. QED
    BY <2>1, <2>2
<1>8. CASE Handler
  BY <1>2, <1>8
     DEF Handler, RegisterHIDProfile, CloseOld, SpawnReader,
         ConnectedCallback, CloseAsked, DisconnectedCallback, CloseLast
<1>9. ASSUME NEW c \in Conns, Reader(c)
      PROVE  [Slot!Next]_(Slot!vars)
  BY <1>2, <1>7, <1>9
     DEF Reader, ReadCall, ReadData, ReadEnd, ReaderCallback, ReaderCloses
<1>10. ASSUME NEW s \in Senders, Sender(s)
       PROVE  [Slot!Next]_(Slot!vars)
  BY <1>2, <1>10 DEF Sender, SendLoads, SendReturns
<1>11. ASSUME NEW o \in Others, OtherOpens(o) \/ OtherCloses(o)
       PROVE  [Slot!Next]_(Slot!vars)
  BY <1>2, <1>11 DEF OtherOpens, OtherCloses
<1>12. CASE UNCHANGED vars
  BY <1>2, <1>12 DEF vars
<1>. QED
  BY <1>3, <1>4, <1>5, <1>6, <1>8, <1>9, <1>10, <1>11, <1>12 DEF Next

(* A step that sees a clash may do anything; every other keeps the promise.*)
LEMMA SlotStep ==
  ASSUME TypeOK, Watch, Exclusive, TypeOK', Exclusive', [Next]_vars
  PROVE  [Slot!Next]_(Slot!vars)
<1>1. CASE clash'
  BY <1>1 DEF Slot!Next
<1>2. CASE ~clash'
  BY <1>2, ClashStays, KeepStep DEF Exclusive, TypeOK
<1>. QED
  BY <1>1, <1>2

(* The Classic profile implements the slot: whatever the handler, the      *)
(* readers and the senders do, the host that reports go to changes by the  *)
(* steps of HostSlot alone, until, if ever, a number is handed out that a  *)
(* thread has still to close.                                              *)
THEOREM ImplementsSlot == Spec => ImplementsHostSlot
<1>1. Init => Slot!Init
  BY FilesAssumption DEF Init, Slot!Init, FileAt
<1>2. TypeOK /\ Watch /\ Exclusive /\ TypeOK' /\ Exclusive' /\ [Next]_vars
        => [Slot!Next]_(Slot!vars)
  BY SlotStep
<1>3. Spec => [](TypeOK /\ Watch /\ Exclusive)
  BY ExclusiveAlways
<1>4. Spec => Slot!Spec
  BY <1>1, <1>2, <1>3, PTL DEF Spec, Slot!Spec
<1>. QED
  BY <1>4 DEF ImplementsHostSlot
=============================================================================
