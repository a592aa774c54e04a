------------------------------ MODULE HostSlot ------------------------------
(***************************************************************************)
(* What BlueZProfile promises its callers: one slot, which holds the host  *)
(* that connected last or nobody.  Nothing else takes a host out of it than*)
(* its own departure, a newer host, a request of BlueZ or the end of the   *)
(* program.  The promise holds until it is broken: "broken" may become TRUE*)
(* at any step, and nothing is promised from that step on.                 *)
(***************************************************************************)
CONSTANTS Hosts, NoHost

VARIABLES
    slot,   \* the host that reports go to
    link,   \* each host: "unused", "up", "ending" or "down"
    open,   \* the program has not begun to shut down
    broken  \* the promise is void

vars == <<slot, link, open, broken>>

Init ==
    /\ slot = NoHost
    /\ link = [h \in Hosts |-> "unused"]
    /\ open = TRUE
    /\ broken = FALSE

(* A host connects and takes the slot over, or empties it, if there is no  *)
(* descriptor for its socket.                                              *)
Connect(h) ==
    /\ open /\ UNCHANGED open
    /\ link[h] = "unused"
    /\ link' = [link EXCEPT ![h] = "up"]
    /\ slot' \in {h, NoHost}

(* BlueZ wants a host to go; the slot is given up, whoever has it.         *)
Disconnect(h) ==
    /\ open /\ UNCHANGED open
    /\ link[h] = "up"
    /\ link' = [link EXCEPT ![h] = "ending"]
    /\ slot' = NoHost

HangUp(h) ==
    /\ link[h] \in {"up", "ending"}
    /\ link' = [link EXCEPT ![h] = "down"]
    /\ UNCHANGED <<slot, open>>

(* A host that has left is noticed.                                        *)
Lapse ==
    /\ slot # NoHost /\ link[slot] = "down"
    /\ slot' = NoHost
    /\ UNCHANGED <<link, open>>

Close ==
    /\ open /\ open' = FALSE
    /\ slot' = NoHost
    /\ UNCHANGED link

Keep ==
    \/ \E h \in Hosts : Connect(h) \/ Disconnect(h) \/ HangUp(h)
    \/ Lapse \/ Close

Next == broken' \/ (Keep /\ UNCHANGED broken)

Spec == Init /\ [][Next]_vars
=============================================================================
