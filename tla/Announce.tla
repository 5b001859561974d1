---- MODULE Announce ----
(***************************************************************************)
(* What the notification task promises once the broker has it: it tells    *)
(* the parties of a transfer, the sender before the receiver, and either   *)
(* tells them all or is dropped; there are no attempts, workers or sockets *)
(* here.  It is at least once: a second telling of a party is a stutter.   *)
(***************************************************************************)
CONSTANT Task

VARIABLES
    parties,    \* whom each task handed over is to tell; none before that
    told,       \* whom it has told so far
    over        \* "no" while it is due, then "done" or "dropped"

vars == <<parties, told, over>>

Init ==
    /\ parties = [t \in Task |-> {}]
    /\ told = [t \in Task |-> {}]
    /\ over = [t \in Task |-> "no"]

HandOver(t) ==
    /\ parties[t] = {}
    /\ \E P \in {{"sender"}, {"sender", "receiver"}} :
           parties' = [parties EXCEPT ![t] = P]
    /\ UNCHANGED <<told, over>>

Tell(t, x) ==
    /\ over[t] = "no"
    /\ x \in parties[t] \ told[t]
    /\ x = "receiver" => "sender" \in told[t]
    /\ told' = [told EXCEPT ![t] = @ \cup {x}]
    /\ UNCHANGED <<parties, over>>

Settle(t) ==
    /\ over[t] = "no"
    /\ parties[t] # {}
    /\ \E o \in {"done", "dropped"} :
         /\ o = "done" => told[t] = parties[t]
         /\ over' = [over EXCEPT ![t] = o]
    /\ UNCHANGED <<parties, told>>

Next ==
    \E t \in Task :
        \/ HandOver(t)
        \/ \E x \in {"sender", "receiver"} : Tell(t, x)
        \/ Settle(t)

Spec == Init /\ [][Next]_vars
====
