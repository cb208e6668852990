------------------------------ MODULE EventBus ------------------------------
(***************************************************************************)
(* The in-process event bus (crates/lattice-event-bus) and the WebSocket   *)
(* sessions that serve it (crates/lattice-service/src/ws.rs).              *)
(*                                                                         *)
(* A publisher numbers an envelope, keeps it in a bounded replay window    *)
(* and broadcasts it, all under one mutex.  A session subscribes, reads    *)
(* the replay window for the events after its client's cursor, sends them, *)
(* and then forwards what the broadcast channel delivers.  Publications    *)
(* may fall between any two of these steps.                                *)
(*                                                                         *)
(* An envelope is represented by its sequence number: payloads play no     *)
(* role in delivery.                                                       *)
(***************************************************************************)
EXTENDS Integers, Sequences, FiniteSets, FiniteSetsExt

CONSTANTS
    Sessions,            \* WebSocket sessions
    ReplayCapacity,      \* EventBus::replay_capacity
    SubscriberCapacity,  \* capacity of the tokio broadcast channel
    MaxSequence          \* bound: number of publications explored

ASSUME CapacityAssumption ==
    /\ ReplayCapacity \in Nat \ {0}
    /\ SubscriberCapacity \in Nat \ {0}
    /\ MaxSequence \in Nat

VARIABLES
    next_sequence,   \* State::next_sequence
    replay,          \* State::replay, as the set of retained sequence numbers
    phase,           \* where serve_socket stands, per session
    after,           \* after_sequence, the cursor the client connected with
    receiver,        \* next sequence number the broadcast receiver yields
    backlog,         \* replay messages not sent yet
    last_sent,       \* last_sent_sequence
    delivered,       \* history: what was written to the socket since Connect
    resynced         \* history: the session ended with ResyncRequired

busVars == <<next_sequence, replay>>
sessionVars == <<phase, after, receiver, backlog, last_sent, delivered, resynced>>
vars == <<busVars, sessionVars>>

Phases == {"closed", "subscribed", "replaying", "live"}

LastSequence == next_sequence - 1

TypeOK ==
    /\ next_sequence \in 1..(MaxSequence + 1)
    /\ replay \in SUBSET (1..MaxSequence)
    /\ phase \in [Sessions -> Phases]
    /\ after \in [Sessions -> Nat]
    /\ receiver \in [Sessions -> Nat \ {0}]
    /\ backlog \in [Sessions -> SUBSET (1..MaxSequence)]
    /\ last_sent \in [Sessions -> Nat]
    /\ delivered \in [Sessions -> Seq(Nat)]
    /\ resynced \in [Sessions -> BOOLEAN]

InitBus ==
    /\ next_sequence = 1
    /\ replay = {}

Init ==
    /\ InitBus
    /\ phase = [s \in Sessions |-> "closed"]
    /\ after = [s \in Sessions |-> 0]
    /\ receiver = [s \in Sessions |-> 1]
    /\ backlog = [s \in Sessions |-> {}]
    /\ last_sent = [s \in Sessions |-> 0]
    /\ delivered = [s \in Sessions |-> <<>>]
    /\ resynced = [s \in Sessions |-> FALSE]

-----------------------------------------------------------------------------
(* The bus.                                                                *)

(* push_back, then pop_front while the window exceeds its capacity.  One   *)
(* push overflows the window by at most one element.                       *)
PushReplay(n) ==
    LET grown == replay \cup {n}
    IN  IF Cardinality(grown) > ReplayCapacity THEN grown \ {Min(grown)} ELSE grown

publish ==
    /\ next_sequence <= MaxSequence
    /\ next_sequence' = next_sequence + 1
    /\ replay' = PushReplay(next_sequence)
    /\ UNCHANGED sessionVars

(* Bug: the oldest retained event is taken as out of reach.                *)
ResumableOffByOne(sequence) ==
    \/ sequence = LastSequence
    \/ /\ sequence < LastSequence
       /\ replay # {}
       /\ sequence + 1 > Min(replay)

(* resume_after: TRUE where the code answers Resume::Events.               *)
Resumable(sequence) ==
    \/ sequence = LastSequence
    \/ /\ sequence < LastSequence
       /\ replay # {}
       /\ sequence + 1 >= Min(replay)

(* The events resume_after returns when it does not ask for a snapshot.    *)
ResumeEvents(sequence) == {n \in replay : n > sequence}

(* tokio broadcast: the slot of an unread message is overwritten once      *)
(* SubscriberCapacity newer messages have been sent.                       *)
Lagged(s) == receiver[s] + SubscriberCapacity < next_sequence

-----------------------------------------------------------------------------
(* One WebSocket session: serve_socket.                                    *)

(* Bug: the receiver starts at the last publication, not after it.         *)
subscribe_OffByOne(s, sequence) ==
    /\ phase[s] = "closed"
    /\ phase' = [phase EXCEPT ![s] = "subscribed"]
    /\ after' = [after EXCEPT ![s] = sequence]
    /\ receiver' = [receiver EXCEPT ![s] = LastSequence]
    /\ backlog' = [backlog EXCEPT ![s] = {}]
    /\ last_sent' = [last_sent EXCEPT ![s] = sequence]
    /\ delivered' = [delivered EXCEPT ![s] = <<>>]
    /\ resynced' = [resynced EXCEPT ![s] = FALSE]
    /\ UNCHANGED busVars

(* bus.subscribe(): the receiver sees the publications from here on.       *)
subscribe(s, sequence) ==
    /\ phase[s] = "closed"
    /\ phase' = [phase EXCEPT ![s] = "subscribed"]
    /\ after' = [after EXCEPT ![s] = sequence]
    /\ receiver' = [receiver EXCEPT ![s] = next_sequence]
    /\ backlog' = [backlog EXCEPT ![s] = {}]
    /\ last_sent' = [last_sent EXCEPT ![s] = sequence]
    /\ delivered' = [delivered EXCEPT ![s] = <<>>]
    /\ resynced' = [resynced EXCEPT ![s] = FALSE]
    /\ UNCHANGED busVars

(* resume_messages under the bus mutex; ResyncRequired ends the session.   *)
resume_messages(s) ==
    /\ phase[s] = "subscribed"
    /\ \/ /\ Resumable(after[s])
          /\ phase' = [phase EXCEPT ![s] = "replaying"]
          /\ backlog' = [backlog EXCEPT ![s] = ResumeEvents(after[s])]
          /\ UNCHANGED resynced
       \/ /\ ~Resumable(after[s])
          /\ phase' = [phase EXCEPT ![s] = "closed"]
          /\ resynced' = [resynced EXCEPT ![s] = TRUE]
          /\ UNCHANGED backlog
    /\ UNCHANGED <<busVars, after, receiver, last_sent, delivered>>

send_replay(s) ==
    /\ phase[s] = "replaying"
    /\ backlog[s] # {}
    /\ LET n == Min(backlog[s])
       IN  /\ backlog' = [backlog EXCEPT ![s] = @ \ {n}]
           /\ last_sent' = [last_sent EXCEPT ![s] = n]
           /\ delivered' = [delivered EXCEPT ![s] = Append(@, n)]
    /\ UNCHANGED <<busVars, phase, after, receiver, resynced>>

(* Bug: the broadcast subscription is taken after the replay was sent.     *)
go_live_SubscribesLate(s) ==
    /\ phase[s] = "replaying"
    /\ backlog[s] = {}
    /\ phase' = [phase EXCEPT ![s] = "live"]
    /\ receiver' = [receiver EXCEPT ![s] = next_sequence]
    /\ UNCHANGED <<busVars, after, backlog, last_sent, delivered, resynced>>

go_live(s) ==
    /\ phase[s] = "replaying"
    /\ backlog[s] = {}
    /\ phase' = [phase EXCEPT ![s] = "live"]
    /\ UNCHANGED <<busVars, after, receiver, backlog, last_sent, delivered, resynced>>

(* receiver.recv() yields an event already sent from the replay window.    *)
receive_duplicate(s) ==
    /\ phase[s] = "live"
    /\ receiver[s] < next_sequence
    /\ ~Lagged(s)
    /\ receiver[s] <= last_sent[s]
    /\ receiver' = [receiver EXCEPT ![s] = @ + 1]
    /\ UNCHANGED <<busVars, phase, after, backlog, last_sent, delivered, resynced>>

(* Bug: broadcast events that the replay already covered are sent again.   *)
receive_event_SendsDuplicates(s) ==
    /\ phase[s] = "live"
    /\ receiver[s] < next_sequence
    /\ ~Lagged(s)
    /\ receiver[s] <= last_sent[s] + 1
    /\ receiver' = [receiver EXCEPT ![s] = @ + 1]
    /\ last_sent' = [last_sent EXCEPT ![s] = receiver[s]]
    /\ delivered' = [delivered EXCEPT ![s] = Append(@, receiver[s])]
    /\ UNCHANGED <<busVars, phase, after, backlog, resynced>>

receive_event(s) ==
    /\ phase[s] = "live"
    /\ receiver[s] < next_sequence
    /\ ~Lagged(s)
    /\ receiver[s] = last_sent[s] + 1
    /\ receiver' = [receiver EXCEPT ![s] = @ + 1]
    /\ last_sent' = [last_sent EXCEPT ![s] = receiver[s]]
    /\ delivered' = [delivered EXCEPT ![s] = Append(@, receiver[s])]
    /\ UNCHANGED <<busVars, phase, after, backlog, resynced>>

(* Bug: a lagged receiver is waited on.                                    *)
MustResync_IgnoresLag(s) == receiver[s] < next_sequence /\ receiver[s] > last_sent[s] + 1

(* RecvError::Lagged, or an event that is not the successor of the last    *)
(* one sent: ResyncRequired, then close.                                   *)
MustResync(s) ==
    \/ Lagged(s)
    \/ receiver[s] < next_sequence /\ receiver[s] > last_sent[s] + 1

(* Bug: the session goes on after it asked its client to resynchronise.    *)
receive_resync_StaysOpen(s) ==
    /\ phase[s] = "live"
    /\ MustResync(s)
    /\ resynced' = [resynced EXCEPT ![s] = TRUE]
    /\ UNCHANGED <<busVars, phase, after, receiver, backlog, last_sent, delivered>>

receive_resync(s) ==
    /\ phase[s] = "live"
    /\ MustResync(s)
    /\ phase' = [phase EXCEPT ![s] = "closed"]
    /\ resynced' = [resynced EXCEPT ![s] = TRUE]
    /\ UNCHANGED <<busVars, after, receiver, backlog, last_sent, delivered>>

(* A failed send, or a close frame, an error, the end of the stream or     *)
(* unsolicited data from the client while live.                            *)
disconnect(s) ==
    /\ \/ phase[s] = "replaying" /\ backlog[s] # {}
       \/ phase[s] = "live"
    /\ phase' = [phase EXCEPT ![s] = "closed"]
    /\ UNCHANGED <<busVars, after, receiver, backlog, last_sent, delivered, resynced>>

(* What serve_socket does by itself, without its peer or a publisher.      *)
serve_step(s) ==
    \/ resume_messages(s)
    \/ send_replay(s)
    \/ go_live(s)
    \/ receive_duplicate(s)
    \/ receive_event(s)
    \/ receive_resync(s)

Next ==
    \/ publish
    \/ \E s \in Sessions :
        \/ \E sequence \in 0..(MaxSequence + 1) : subscribe(s, sequence)
        \/ serve_step(s)
        \/ disconnect(s)

Spec == Init /\ [][Next]_vars

(* The runtime keeps polling the task of an open session.                  *)
FairSpec == Spec /\ \A s \in Sessions : WF_vars(serve_step(s))

-----------------------------------------------------------------------------
(* Properties.                                                             *)

(* What a session wrote to its socket is exactly the run of events after   *)
(* the client's cursor: none missing, none twice, none out of order, even  *)
(* though replay and broadcast overlap (ws.rs:89-142).                     *)
GapFree ==
    \A s \in Sessions :
        /\ Len(delivered[s]) = last_sent[s] - after[s]
        /\ \A i \in 1..Len(delivered[s]) : delivered[s][i] = after[s] + i

(* A live session never meets an event beyond the successor of the last    *)
(* one sent: subscribing before reading the replay window leaves no hole,  *)
(* so the gap test at ws.rs:132 is pure defence and the only loss is Lagged. *)
NoHoleBehindReplay ==
    \A s \in Sessions : phase[s] = "live" => receiver[s] <= last_sent[s] + 1

(* A client that comes back is replayed what it missed exactly when it is  *)
(* at most ReplayCapacity events behind, whatever was published and        *)
(* evicted since it left; one further behind, or ahead of the bus, is told *)
(* to resynchronise (lib.rs:62-67, 81-97, ws.rs:96-100).  A live session   *)
(* that lags behind the channel is resynchronised even when the replay had *)
(* already sent it the events it lagged on (ws.rs:143).                    *)
ResumedIffWithinCapacity ==
    [][\A s \in Sessions :
          phase[s] = "subscribed" /\ phase'[s] # "subscribed" =>
              (phase'[s] = "replaying")
                  <=> after[s] \in (LastSequence - ReplayCapacity)..LastSequence]_vars

(* Replay window and broadcast channel together are one stream: whatever   *)
(* the overlap of the two, a session is a step by step delivery of the     *)
(* events after its cursor (ws.rs:88-151 implements EventStream).          *)
Stream == INSTANCE EventStream WITH open <- [s \in Sessions |-> phase[s] # "closed"]
ImplementsStream == Stream!Spec

(* Every event published after a session's cursor is eventually written to *)
(* it, unless the session ends (ws.rs:95-150).                             *)
EventuallyDelivered ==
    \A s \in Sessions : \A n \in 1..MaxSequence :
        (phase[s] # "closed" /\ after[s] < n /\ n < next_sequence)
            ~> (phase[s] = "closed" \/ last_sent[s] >= n)
=============================================================================
