------------------------------ MODULE Presence ------------------------------
(***************************************************************************)
(* The presence engine (crates/lattice-intelligence/src/presence.rs):      *)
(* evidence about devices, with the time it was observed and the time it   *)
(* arrived, becomes a presence state per device, a bounded history of      *)
(* transitions, and now and then a correction of an earlier departure.     *)
(*                                                                         *)
(* Times are small numbers; arrivals are the clock.  An input the engine   *)
(* refuses (validate, capacity, clock) leaves it as it was and is no step. *)
(***************************************************************************)
EXTENDS Integers, Sequences, FiniteSets, FiniteSetsExt, SequencesExt

CONSTANTS
    Devices, Sources,          \* devices; PresenceConfig::trusted_sources
    Kinds,                     \* the kinds of ordinary evidence that arrive
    Validities,                \* how long a lease, association or probe is valid
    online_window, correction_window, retention, future_skew, confirmation_window,
    join_confirmations, departure_confirmations,
    max_devices, max_evidence, max_history,
    MaxTime, MaxInputs         \* bounds: the instants; evidence and evaluations

(* PresenceConfig::validate.                                               *)
ASSUME ConfigAssumption ==
    /\ {online_window, correction_window, confirmation_window} \subseteq 1..retention
    /\ future_skew \in Nat
    /\ {join_confirmations, departure_confirmations, max_devices, max_evidence, max_history}
           \subseteq Nat \ {0}

VARIABLES
    devices,          \* PresenceEngine::devices, on the devices it has met
    next_transition,  \* PresenceEngine::next_transition
    now, inputs,
    made,             \* history: every transition of a device
    told              \* history: the evidence accepted, and how it came

vars == <<devices, next_transition, now, inputs, made, told>>

None == -1
Support == {"Lease", "RouterAssociation", "NeighborCache", "ProbeSuccess"}
RealPositive == {"Traffic", "Lease", "RouterAssociation", "NeighborCache"}
Positive == RealPositive \cup {"ProbeSuccess"}
Evidence(source, kind, at, until) ==
    [source |-> source, kind |-> kind, observed_at |-> at, valid_until |-> until]

-----------------------------------------------------------------------------
(* Control messages: three families of an active and an inactive kind.     *)

Families == {"enforcement", "impairment", "contradiction"}
ActiveKind == [enforcement |-> "EnforcementBlocked", impairment |-> "SensorImpaired",
               contradiction |-> "Contradiction"]
InactiveKind == [enforcement |-> "EnforcementUnblocked", impairment |-> "SensorRecovered",
                 contradiction |-> "ContradictionCleared"]

ControlKinds == {ActiveKind[f] : f \in Families} \cup {InactiveKind[f] : f \in Families}
control_family ==
    [kind \in ControlKinds |-> CHOOSE f \in Families : kind \in {ActiveKind[f], InactiveKind[f]}]

IsControl(e) == e.kind \in ControlKinds
InFamily(e, f) == IsControl(e) /\ control_family[e.kind] = f

NoControl == [f \in Families |-> [active |-> FALSE, clock |-> None]]

(* control_state: what a set of messages says of a family.                 *)
control_state(evidence, f) ==
    LET messages == {e \in evidence : InFamily(e, f)}
        clock == Max({e.observed_at : e \in messages})
    IN  IF messages = {} THEN [active |-> FALSE, clock |-> None]
        ELSE [active |-> \E e \in messages : e.kind = ActiveKind[f] /\ e.observed_at = clock,
              clock |-> clock]

(* Bug: a message as old as the latest one is taken.                       *)
stale_control_Ties(d, e) ==
    \E f \in Families : InFamily(e, f) /\ e.observed_at < d.control[f].clock

stale_control(d, e) ==
    \E f \in Families :
        /\ InFamily(e, f)
        /\ LET c == d.control[f]
           IN  \/ e.observed_at < c.clock
               \/ e.observed_at = c.clock /\ (c.active \/ e.kind = InactiveKind[f])

apply_flags(d, e) ==
    [d EXCEPT !.control =
        [f \in Families |->
            IF InFamily(e, f) /\ e.observed_at >= @[f].clock
            THEN [active |-> e.kind = ActiveKind[f], clock |-> e.observed_at]
            ELSE @[f]]]

-----------------------------------------------------------------------------
(* What evidence is kept, and what it supports.                            *)

semantically_retained(e, at) ==
    CASE IsControl(e) -> TRUE
      [] e.kind \in Support /\ e.valid_until # None -> at - e.valid_until <= correction_window
      [] e.kind = "ConfirmationFailure" -> at - e.observed_at <= confirmation_window
      [] e.kind = "Traffic" -> at - e.observed_at <= Max({online_window, correction_window})
      [] OTHER -> at - e.observed_at <= retention

(* The state a piece of evidence supports at an instant.                   *)
support_at(e, at, ever) ==
    CASE e.observed_at > at -> "None"
      [] e.observed_at <= at /\ e.kind = "Traffic" /\ at - e.observed_at < online_window -> "Online"
      [] e.observed_at <= at /\ e.kind \in Support /\ e.valid_until >= at
            /\ (e.kind = "ProbeSuccess" => ever) -> "Quiet"
      [] OTHER -> "None"

(* When support ends; no end for what never supported anything.            *)
SupportEnd(e) ==
    CASE e.kind = "Traffic" -> e.observed_at + online_window
      [] e.kind \in Support -> e.valid_until
      [] OTHER -> None

(* Only the newest messages of a control family are kept.                  *)
prune_control_evidence(evidence) ==
    {e \in evidence : IsControl(e) =>
        \A x \in evidence : InFamily(x, control_family[e.kind]) => x.observed_at <= e.observed_at}

distinct_count(evidence) ==
    Cardinality({<<e.source, e.kind, e.observed_at>> : e \in evidence})

Within(evidence, at, kinds) ==
    {e \in evidence : e.kind \in kinds /\ e.observed_at <= at
                        /\ at - e.observed_at <= confirmation_window}

-----------------------------------------------------------------------------
(* The state the evidence calls for.                                       *)

(* Bug: confirmation failures from before the support ended count.         *)
Failures_Early(d, at) == Within(d.evidence, at, {"ConfirmationFailure"})

(* Confirmation failures after the last support ended.                     *)
Failures(d, at) ==
    {e \in Within(d.evidence, at, {"ConfirmationFailure"}) :
        \A s \in d.evidence : e.observed_at > SupportEnd(s)}

candidate(d, at) ==
    LET supported(state) == \E e \in d.evidence : support_at(e, at, TRUE) = state
    IN  CASE d.control["enforcement"].active -> "Blocked"
          [] ~d.control["enforcement"].active
                /\ (d.control["impairment"].active \/ d.control["contradiction"].active) -> "Unknown"
          [] OTHER ->
                IF supported("Online") THEN "Online"
                ELSE IF supported("Quiet") /\ d.ever_supported THEN "Quiet"
                ELSE IF d.ever_supported /\ distinct_count(Failures(d, at)) >= departure_confirmations
                THEN "Offline"
                ELSE IF d.state \in {"Online", "Quiet"} THEN d.state ELSE "Unknown"

(* recompute's gate: joining takes confirmations.                          *)
gated(d, at) ==
    LET c == candidate(d, at)
    IN  IF /\ c \in {"Online", "Quiet"} /\ d.state \in {"Unknown", "Offline"}
           /\ distinct_count(Within(d.evidence, at, RealPositive)) < join_confirmations
        THEN d.state ELSE c

make_transition(id, from, to, e, at, correction_of) ==
    [transition_id |-> id, from |-> from, to |-> to, occurred_at |-> at,
     trigger |-> e, correction_of |-> correction_of]

(* Bug: the corrections that go with an evicted departure are not counted. *)
push_history_Uncounted(d, t) ==
    LET h == d.history
        gone == Max({k \in 1..Len(h) : \A i \in 2..k : h[i].correction_of = h[1].transition_id})
    IN  IF Len(h) < max_history THEN [d EXCEPT !.history = Append(h, t)]
        ELSE [d EXCEPT !.history = Append(SubSeq(h, gone + 1, Len(h)), t),
                       !.evicted_through = h[1].transition_id]

(* Bug: a full history keeps its oldest transition.                        *)
push_history_Unbounded(d, t) == [d EXCEPT !.history = Append(d.history, t)]

(* Bug: the eviction mark is the transition that came, not the one that    *)
(* went.                                                                   *)
push_history_MarksNew(d, t) ==
    LET h == d.history
        gone == Max({k \in 1..Len(h) : \A i \in 2..k : h[i].correction_of = h[1].transition_id})
    IN  IF Len(h) < max_history THEN [d EXCEPT !.history = Append(h, t)]
        ELSE [d EXCEPT !.history = Append(SubSeq(h, gone + 1, Len(h)), t),
                       !.evicted_through = t.transition_id]

(* A full history loses its oldest transition and the corrections of it    *)
(* that follow it.                                                         *)
push_history(d, t) ==
    LET h == d.history
        gone == Max({k \in 1..Len(h) : \A i \in 2..k : h[i].correction_of = h[1].transition_id})
    IN  IF Len(h) < max_history THEN [d EXCEPT !.history = Append(h, t)]
        ELSE [d EXCEPT !.history = Append(SubSeq(h, gone + 1, Len(h)), t),
                       !.evicted_through = h[gone].transition_id]

-----------------------------------------------------------------------------
(* Replay and restore.                                                     *)

(* domain_events_since: the transitions after a cursor.                    *)
CursorExpired(d, cursor) == cursor < d.evicted_through
domain_events_since(d, cursor) == SelectSeq(d.history, LAMBDA t : t.transition_id > cursor)

(* from_checkpoint: what it demands of the checkpoint of one device.       *)
HistoryRestores(d) ==
    /\ Len(d.history) <= max_history
    /\ \A i \in DOMAIN d.history :
          LET t == d.history[i]
          IN  /\ t.transition_id < next_transition
              /\ i > 1 => t.transition_id > d.history[i - 1].transition_id /\ t.from = d.history[i - 1].to
              /\ i = 1 /\ d.evicted_through = None => t.from = "Unknown"
              /\ t.occurred_at <= d.last_evaluation + future_skew
              /\ t.trigger.source \in Sources /\ t.trigger.kind # "Evaluation"
              /\ t.trigger.observed_at <= t.occurred_at
              /\ t.correction_of # 0 =>
                     \E j \in 1..(i - 1) : d.history[j].transition_id = t.correction_of
                                              /\ d.history[j].to = "Offline"
    /\ d.history # <<>> => Last(d.history).to = d.state /\ d.evicted_through < d.history[1].transition_id
    /\ d.evicted_through < next_transition

EvidenceRestores(d) ==
    /\ Cardinality(d.evidence) <= max_evidence
    /\ \A e \in d.evidence : e.observed_at <= d.last_evaluation
    /\ \A f \in Families :
          /\ d.control[f] = control_state(d.evidence, f)
          /\ \A x, y \in d.evidence : x.kind = ActiveKind[f] /\ y.kind = InactiveKind[f] =>
                                         x.observed_at # y.observed_at

EnforcementRestores(d) ==
    LET triggers == {d.history[i].trigger : i \in DOMAIN d.history}
    IN  /\ {e \in triggers : InFamily(e, "enforcement")} \subseteq d.evidence
        /\ \A e \in d.evidence : InFamily(e, "enforcement") =>
               e \in triggers \/ (d.evicted_through # None
                                    /\ d.control["enforcement"].clock = e.observed_at)

from_checkpoint(d) == HistoryRestores(d) /\ EvidenceRestores(d) /\ EnforcementRestores(d)

-----------------------------------------------------------------------------
NewDevice ==
    [state |-> "Unknown", evidence |-> {}, history |-> <<>>, last_evaluation |-> 0,
     ever_supported |-> FALSE, control |-> NoControl, evicted_through |-> None]

Known(id) == id \in DOMAIN devices
Device(id) == IF Known(id) THEN devices[id] ELSE NewDevice

validate(e) ==
    /\ e.source \in Sources
    /\ e.observed_at <= now + future_skew
    /\ e.valid_until # None => e.valid_until >= e.observed_at
    /\ e.kind = "NeighborCache" => e.valid_until # None

(* Where a device's history departs, and its last departure.               *)
Departures(d) == {i \in DOMAIN d.history : d.history[i].to = "Offline"}
LastDeparture(d) == d.history[Max(Departures(d))]

Late(d, e) ==
    /\ e.kind \in Positive /\ Departures(d) # {}
    /\ e.observed_at <= LastDeparture(d).occurred_at

(* The departure e shows to have been none, if any, and what e supports.   *)
Corrects(d, e) ==
    /\ Departures(d) # {}
    /\ LET dep == LastDeparture(d)
       IN  /\ now - dep.occurred_at <= correction_window
           /\ support_at(e, dep.occurred_at, d.ever_supported) # "None"

(* The device with the evidence taken in.                                  *)
TakeIn(d, e) ==
    LET current_valid == support_at(e, now, d.ever_supported) # "None"
        kept == {x \in d.evidence : semantically_retained(x, now)}
        keep == semantically_retained(e, now)
                    /\ (~Late(d, e) \/ current_valid \/ e.kind \notin Positive)
    IN  [apply_flags(d, e) EXCEPT
            !.last_evaluation = now,
            !.ever_supported = @ \/ (e.kind \in RealPositive /\ (~Late(d, e) \/ current_valid)),
            !.evidence = IF keep THEN prune_control_evidence(kept \cup {e}) ELSE kept]

(* Late evidence is about a time before a departure already made, and over *)
(* when it arrives; evidence from ahead was observed after it arrived.     *)
Came(d, e) ==
    CASE e.observed_at > now -> "ahead"
      [] Late(d, e) /\ support_at(e, now, d.ever_supported) = "None" -> "late"
      [] OTHER -> "in time"

(* What one input makes: a correction or none, then a transition or none.  *)
Pushed(d, transition) == IF transition = <<>> THEN d ELSE push_history(d, transition[1])

Record(id, d, correction, current, state) ==
    LET after == [Pushed(Pushed(d, correction), current) EXCEPT !.state = state]
    IN  /\ devices' = IF Known(id) THEN [devices EXCEPT ![id] = after] ELSE devices @@ (id :> after)
        /\ next_transition' = next_transition + Len(correction) + Len(current)
        /\ made' = [made EXCEPT ![id] = @ \o correction \o current]

ingest_authorized(id, e) ==
    LET d == Device(id)
        taken == TakeIn(d, e)
        dep == LastDeparture(d)
        correction == IF Corrects(d, e)
                      THEN <<make_transition(next_transition, "Offline",
                                support_at(e, dep.occurred_at, d.ever_supported), e, now,
                                dep.transition_id)>>
                      ELSE <<>>
        historical == Late(d, e) /\ support_at(e, now, d.ever_supported) = "None"
                          /\ correction = <<>>
        state == IF historical THEN d.state ELSE gated(taken, now)
        current == IF state = d.state THEN <<>>
                   ELSE <<make_transition(next_transition + Len(correction), d.state, state, e,
                                          now, 0)>>
    IN  /\ validate(e)
        /\ Known(id) \/ Cardinality(DOMAIN devices) < max_devices
        /\ now >= d.last_evaluation
        /\ Known(id) =>
               /\ e \notin d.evidence /\ ~stale_control(d, e)
               /\ semantically_retained(e, now) =>
                      Cardinality({x \in d.evidence : semantically_retained(x, now)}) < max_evidence
        /\ Record(id, taken, correction, current, state)
        /\ told' = [told EXCEPT ![id] = @ \cup {[evidence |-> e, came |-> Came(d, e)]}]
        /\ inputs' = inputs + 1
        /\ UNCHANGED now

(* Ordinary evidence ...                                                   *)
ingest_events(id) ==
    \E source \in Sources, kind \in Kinds, at \in 0..MaxTime, v \in Validities :
        ingest_authorized(id, Evidence(source, kind, at, IF kind \in Support THEN at + v ELSE None))

(* ... and verified enforcement, which comes by its own entrance.          *)
record_verified_enforcement(id) ==
    \E source \in Sources, at \in 0..MaxTime, f \in {ActiveKind, InactiveKind} :
        ingest_authorized(id, Evidence(source, f["enforcement"], at, None))

evaluate(id) ==
    /\ Known(id) /\ now >= devices[id].last_evaluation
    /\ LET d == [devices[id] EXCEPT !.last_evaluation = now]
           state == gated(d, now)
           timer == Evidence("presence.timer", "Evaluation", now, None)
       IN  Record(id, d, <<>>,
                  IF state = d.state THEN <<>>
                  ELSE <<make_transition(next_transition, d.state, state, timer, now, 0)>>, state)
    /\ inputs' = inputs + 1
    /\ UNCHANGED <<now, told>>

Tick ==
    /\ now < MaxTime /\ now' = now + 1
    /\ UNCHANGED <<devices, next_transition, inputs, made, told>>

Init ==
    /\ devices = [id \in {} |-> NewDevice]
    /\ next_transition = 1 /\ now = 0 /\ inputs = 0
    /\ made = [id \in Devices |-> <<>>]
    /\ told = [id \in Devices |-> {}]

(* Once the inputs are spent the clock has nothing left to decide.         *)
Next ==
    /\ inputs < MaxInputs
    /\ \/ \E id \in Devices : ingest_events(id) \/ record_verified_enforcement(id) \/ evaluate(id)
       \/ Tick

Spec == Init /\ [][Next]_vars

-----------------------------------------------------------------------------
States == {"Unknown", "Online", "Quiet", "Offline", "Blocked"}

(* The engine's maps have their shape, and their bounds.                   *)
TypeOK ==
    /\ DOMAIN devices \subseteq Devices /\ Cardinality(DOMAIN devices) <= max_devices
    /\ next_transition \in Nat \ {0}
    /\ \A id \in DOMAIN devices :
          LET d == devices[id]
          IN  /\ d.state \in States /\ d.ever_supported \in BOOLEAN
              /\ Cardinality(d.evidence) <= max_evidence /\ Len(d.history) <= max_history
              /\ d.last_evaluation \in 0..now

(* A block, an impairment, a contradiction is in force exactly when the    *)
(* newest message about it said so, whatever order the messages came in;   *)
(* and a device is shown blocked exactly while a block is in force.        *)
Told(id, ways) == {t.evidence : t \in {x \in told[id] : x.came \in ways}}

ControlsByEventTime ==
    \A id \in DOMAIN devices :
        /\ \A f \in Families : devices[id].control[f] = control_state(Told(id, {"ahead", "in time"}), f)
        /\ (devices[id].state = "Blocked") = devices[id].control["enforcement"].active

(* A device is declared gone only on enough distinct failures to reach it, *)
(* each later than the end of everything that supported its presence, what *)
(* the engine has forgotten since included.  Left out is support that came *)
(* late: the engine answers it with a correction at most and drops it      *)
(* (presence.rs:643), see the README.  This takes windows like the default *)
(* ones (30 s and 2 min against 5 min); validate asks for less.            *)
WindowsLikeDefault == online_window + confirmation_window <= correction_window

NoEarlyDeparture ==
    [][\A id \in DOMAIN devices :
          WindowsLikeDefault /\ devices[id].state # "Offline" /\ devices'[id].state = "Offline" =>
              LET known == Told(id, {"ahead", "in time"})'
              IN  /\ devices'[id].ever_supported
                  /\ departure_confirmations <=
                        distinct_count({e \in Within(known, now, {"ConfirmationFailure"}) :
                                           \A s \in known : e.observed_at > SupportEnd(s)})]_vars

(* A replay of transitions is complete, or refused.                        *)
ReplayIsComplete ==
    \A id \in DOMAIN devices, cursor \in 0..next_transition :
        \/ CursorExpired(devices[id], cursor)
        \/ domain_events_since(devices[id], cursor)
               = SelectSeq(made[id], LAMBDA t : t.transition_id > cursor)

(* The checkpoint the engine writes is one it can start from again, for a  *)
(* device with no enforcement, no correction, no transition of the timer,  *)
(* no two contrary control messages of one instant and no evidence from    *)
(* ahead of its arrival; from_checkpoint refuses what the engine makes of  *)
(* each of these.                                                          *)
Ordinary(id) ==
    /\ \A i \in DOMAIN made[id] :
          made[id][i].correction_of = 0 /\ made[id][i].trigger.kind # "Evaluation"
    /\ Told(id, {"ahead"}) = {}
    /\ \A e \in Told(id, {"in time"}) : ~InFamily(e, "enforcement")
    /\ \A f \in Families, x, y \in Told(id, {"in time"}) :
          x.kind = ActiveKind[f] /\ y.kind = InactiveKind[f] => x.observed_at # y.observed_at

CheckpointRestores == \A id \in DOMAIN devices : Ordinary(id) => from_checkpoint(devices[id])
====
