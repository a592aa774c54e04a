---------------------------- MODULE MCIpcServer ----------------------------
(* Instances of IpcServer for TLC.                                         *)
EXTENDS IpcServer, TLC

(* The lines of each client: all short, or those of one client long.       *)
ShortLines == [c \in Clients |-> {"command", "empty", "quit"}]

OneSendsLong ==
    LET long == CHOOSE c \in Clients : TRUE
    IN  [c \in Clients |-> IF c = long THEN {"long", "spaced_quit"}
                                      ELSE {"command", "spaced_quit"}]

Symmetry == Permutations(Clients) \cup Permutations(Procs)
=============================================================================
