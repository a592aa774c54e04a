--------------------------- MODULE CommandChannel ---------------------------
(***************************************************************************)
(* What the command socket promises a client that sends no command before  *)
(* it has the answer to the last: answers come one for one, over one       *)
(* connection, until either side gives it up.                              *)
(***************************************************************************)
EXTENDS Naturals

CONSTANT Clients

VARIABLES
    conn,   \* each client's connection: "none", "queued", "open", "closed"
    owed    \* commands sent minus answers received

vars == <<conn, owed>>

Init ==
    /\ conn = [c \in Clients |-> "none"]
    /\ owed = [c \in Clients |-> 0]

Connect(c) ==
    /\ conn[c] = "none"
    /\ conn' = [conn EXCEPT ![c] = "queued"]
    /\ UNCHANGED owed

Accept(c) ==
    /\ conn[c] = "queued"
    /\ conn' = [conn EXCEPT ![c] = "open"]
    /\ UNCHANGED owed

Send(c) ==
    /\ conn[c] \in {"queued", "open"}
    /\ owed[c] = 0
    /\ owed' = [owed EXCEPT ![c] = 1]
    /\ UNCHANGED conn

(* Only an accepted client is answered, and only one that asked.           *)
Answer(c) ==
    /\ conn[c] = "open"
    /\ owed[c] = 1
    /\ owed' = [owed EXCEPT ![c] = 0]
    /\ UNCHANGED conn

(* The end of a client, of the server, or of a whole process.              *)
Close(S) ==
    /\ \A c \in S : conn[c] \in {"queued", "open"}
    /\ conn' = [c \in Clients |-> IF c \in S THEN "closed" ELSE conn[c]]
    /\ UNCHANGED owed

Next ==
    \/ \E c \in Clients : Connect(c) \/ Accept(c) \/ Send(c) \/ Answer(c)
    \/ \E S \in SUBSET Clients : Close(S)

Spec == Init /\ [][Next]_vars
=============================================================================
