------------------------------ MODULE KeyStream ------------------------------
(***************************************************************************)
(* What a client of ReportPath may count on while it is the only one: each *)
(* stroke of its commands is stored, then sent to the BLE host, and sent   *)
(* to the Classic host, whole and once to each, before the next one is.    *)
(* A host is left out only if it does not listen when its turn comes, or   *)
(* began to after the stroke did; and all is over for the store and the    *)
(* BLE host once gatt.stop() was called.                                   *)
(***************************************************************************)
EXTENDS Sequences

CONSTANTS
    Reports, Zero,
    Nothing     \* a host that has no report yet

Hosts == {"ble", "classic"}
Receivers == {"store"} \cup Hosts

VARIABLES
    alone,      \* one client at most has issued commands
    serving,    \* gatt.stop() was not called
    strokes,    \* what the client has still to send, the current one first
    offered,    \* who has had its turn with the current one
    has,        \* the last report of each receiver
    listening,  \* the hosts that subscribed or are connected
    late        \* those among them that may miss the current stroke

vars == <<alone, serving, strokes, offered, has, listening, late>>
hostVars == <<listening, late>>

Init ==
    /\ alone = TRUE /\ serving = TRUE
    /\ strokes = << >> /\ offered = {}
    /\ has = [r \in Receivers |-> IF r = "store" THEN Zero ELSE Nothing]
    /\ listening = {} /\ late = {}

Command ==
    /\ strokes = << >>
    /\ strokes' \in Seq(Reports)
    /\ UNCHANGED <<alone, serving, offered, has, hostVars>>

(* Who may be passed over.                                                 *)
Excused(r) ==
    \/ r \in {"store", "ble"} /\ ~serving
    \/ r \in Hosts /\ (r \notin listening \/ r \in late)

(* Some receivers have their turn, in one step.                            *)
Offer(turn) ==
    /\ strokes # << >>
    /\ offered' = offered \cup turn
    /\ "ble" \in offered' => "store" \in offered'
    /\ late' = late \ turn
    /\ \E told \in SUBSET turn :
        /\ told \subseteq {"store"} \cup listening
        /\ \A r \in turn \ told : Excused(r)
        /\ has' = [r \in Receivers |->
                      IF r \in told THEN Head(strokes) ELSE has[r]]
    /\ UNCHANGED <<alone, serving, strokes, listening>>

NextStroke ==
    /\ strokes # << >> /\ offered = Receivers
    /\ strokes' = Tail(strokes) /\ offered' = {} /\ late' = {}
    /\ UNCHANGED <<alone, serving, has, listening>>

(* A host that comes in the middle of a stroke may have missed it.         *)
Join(host) ==
    /\ host \notin listening
    /\ listening' = listening \cup {host}
    /\ late' \in {late} \cup (IF strokes = << >> THEN {}
                              ELSE {late \cup {host}})
    /\ UNCHANGED <<alone, serving, strokes, offered, has>>

Leave(host) ==
    /\ host \in listening
    /\ listening' = listening \ {host} /\ late' = late \ {host}
    /\ has' = [has EXCEPT ![host] = Nothing]
    /\ UNCHANGED <<alone, serving, strokes, offered>>

(* Another client begins: nothing is promised any more.                    *)
Crowd ==
    /\ alone' = FALSE
    /\ strokes' = << >> /\ offered' = {}
    /\ has' = [r \in Receivers |-> Nothing]
    /\ listening' = {} /\ late' = {}
    /\ UNCHANGED serving

Stop ==
    /\ serving' = FALSE
    /\ UNCHANGED <<alone, strokes, offered, has, hostVars>>

Next ==
    \/ alone /\ \/ Command \/ NextStroke \/ Crowd
                \/ \E turn \in SUBSET (Receivers \ offered) :
                      turn # {} /\ Offer(turn)
                \/ \E host \in Hosts : Join(host) \/ Leave(host)
    \/ serving /\ Stop

Spec == Init /\ [][Next]_vars
=============================================================================
