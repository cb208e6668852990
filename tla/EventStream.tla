---------------------------- MODULE EventStream ----------------------------
(***************************************************************************)
(* What the event socket promises its client: after connecting with a      *)
(* cursor the client receives the events that follow it, one by one, until *)
(* the stream ends, possibly by a request to resynchronise.  How the       *)
(* events are found (replay window, broadcast channel) does not appear.    *)
(***************************************************************************)
EXTENDS Integers, Sequences

CONSTANTS
    Sessions,     \* WebSocket sessions
    MaxSequence   \* bound: number of publications explored

VARIABLES
    next_sequence,  \* number of the next event
    open,           \* whether the stream of a session is open
    after,          \* the cursor the client connected with
    delivered,      \* what it received since
    resynced        \* whether it was told to resynchronise

vars == <<next_sequence, open, after, delivered, resynced>>
sessionVars == <<open, after, delivered, resynced>>

Init ==
    /\ next_sequence = 1
    /\ open = [s \in Sessions |-> FALSE]
    /\ after = [s \in Sessions |-> 0]
    /\ delivered = [s \in Sessions |-> <<>>]
    /\ resynced = [s \in Sessions |-> FALSE]

Publish ==
    /\ next_sequence <= MaxSequence
    /\ next_sequence' = next_sequence + 1
    /\ UNCHANGED sessionVars

Connect(s) ==
    /\ ~open[s]
    /\ open' = [open EXCEPT ![s] = TRUE]
    /\ \E sequence \in 0..(MaxSequence + 1) : after' = [after EXCEPT ![s] = sequence]
    /\ delivered' = [delivered EXCEPT ![s] = <<>>]
    /\ resynced' = [resynced EXCEPT ![s] = FALSE]
    /\ UNCHANGED next_sequence

(* The successor of the last event received, once it is published.         *)
Deliver(s) ==
    LET n == after[s] + Len(delivered[s]) + 1
    IN  /\ open[s]
        /\ n < next_sequence
        /\ delivered' = [delivered EXCEPT ![s] = Append(@, n)]
        /\ UNCHANGED <<next_sequence, open, after, resynced>>

(* The stream breaks off, with or without the request to resynchronise.    *)
End(s) ==
    /\ open[s]
    /\ open' = [open EXCEPT ![s] = FALSE]
    /\ resynced' \in {resynced, [resynced EXCEPT ![s] = TRUE]}
    /\ UNCHANGED <<next_sequence, after, delivered>>

Next == Publish \/ \E s \in Sessions : Connect(s) \/ Deliver(s) \/ End(s)

Spec == Init /\ [][Next]_vars
=============================================================================
