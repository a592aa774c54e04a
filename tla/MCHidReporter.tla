--------------------------- MODULE MCHidReporter ---------------------------
(* Instances of HidReporter for TLC.                                       *)
EXTENDS HidReporter

(* Every character of the US layout, and one beyond it.                    *)
AllChars == UsChars \cup {"e acute"}

MCStrokes == {[mod |-> 2, key |-> 4]}

(* Nothing, a key, and the same key as a number beyond a byte and as a     *)
(* negative number: 0, 4, 4 and 4.                                         *)
MCWords ==
    {[neg |-> FALSE, digits |-> n] : n \in {0, 4, 260}}
        \cup {[neg |-> TRUE, digits |-> 252]}
=============================================================================
