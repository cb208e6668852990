----------------------------- MODULE PolicyState -----------------------------
(***************************************************************************)
(* Enforcement of the owner's decision about one device: the coordinator   *)
(* (lattice-service/src/policy.rs), the rows it keeps (lattice-store/src/  *)
(* policy.rs, w6.rs and the control facts of checkpoint.rs) and the router *)
(* connector it drives (lattice-w6).                                       *)
(*                                                                         *)
(* Several coordinators work on the same rows without a common lock: the   *)
(* discovery worker sweeps, and every owner request builds a coordinator   *)
(* of its own.  One awaited storage or router call is one step here, so    *)
(* that steps of two coordinators interleave as the code lets them, and a  *)
(* coordinator may stop at any await: a storage error, a dropped request   *)
(* future, or a crash of the service.                                      *)
(*                                                                         *)
(* Abstractions: one device; the policy version is a constant of the       *)
(* build; retry times are only "due" or "not yet due"; a decision is its   *)
(* reason, action, result and undo flag.                                   *)
(***************************************************************************)
EXTENDS Integers

CONSTANTS
    Coordinators,    \* PolicyCoordinator instances alive at the same time
    Sweepers,        \* those the discovery worker owns
    Servers,         \* those that serve owner requests
    W6Coordinators,  \* those built with W6PolicyActuator; the others use
                     \* ManualRequiredActuator
    FilterCapacity,  \* Profile::filter_capacity of the router
    Protections,     \* values of (protection # Protection::None) explored
    Risks,           \* values of "high-confidence danger" explored
    Cohorts,         \* values of baseline_exempt explored
    MaxInputs,       \* bound: owner requests and identification changes
    MaxFaults        \* bound: failed or dropped calls and crashes

ASSUME WiringAssumption ==
    /\ Sweepers \subseteq Coordinators
    /\ Servers \subseteq Coordinators
    /\ W6Coordinators \subseteq Coordinators
    /\ \A c, d \in W6Coordinators : c = d
    /\ FilterCapacity \in Nat
    /\ Protections \subseteq BOOLEAN
    /\ Risks \subseteq BOOLEAN
    /\ Cohorts \subseteq BOOLEAN
    /\ MaxInputs \in Nat
    /\ MaxFaults \in Nat

VARIABLES
    owner,              \* device_policy.owner_decision_json
    identified,         \* device_policy.identification_json is a strong automatic one
    exempt,             \* device_policy.baseline_exempt
    deadline,           \* where now stands against the applicable deadline
    extension_used,     \* device_policy.extension_used
    protected,          \* device_policy.protection_json # none
    danger,             \* device_policy.risk_json is high-confidence danger
    published,          \* device_policy.published_decision_json (and fingerprint)
    outbox,             \* policy_outbox row
    journal,            \* policy_actuation_journal row
    enforcement_retry,  \* device_policy.enforcement_retry_at
    release_retry,      \* device_policy.release_retry_action_json / _at
    blocked,            \* verified_control_blocked
    w6_row,             \* w6_previous_state row
    appliance,          \* the router's DeviceState (external)
    shown,              \* what a connected client shows: the last PolicyChanged
    task,               \* the program state of each coordinator
    inputs,             \* bound counter: inputs taken
    faults              \* bound counter: faults met

rowVars == <<owner, identified, exempt, deadline, extension_used, protected, danger>>
publicationVars == <<published, outbox>>
retryVars == <<enforcement_retry, release_retry>>
routerVars == <<w6_row, appliance>>
vars == <<rowVars, publicationVars, journal, retryVars, blocked, routerVars, shown, task,
          inputs, faults>>

-----------------------------------------------------------------------------
(* Values.                                                                 *)

Owners == {"Pending", "Approved", "Rejected", "Quarantined"}
Deadlines == {"open", "extended", "expired"}
BlockActions == {"Quarantine", "PermanentBan"}
Actions == BlockActions \cup {"None", "OwnerAttention"}
Results == {"NotRequested", "Verified", "ManualRequired", "Failed"}
Reasons == {"OwnerRejected", "OwnerQuarantined", "HighConfidenceDanger", "OwnerApproved",
            "BaselineExempt", "UnknownDeadlineExpired", "AutomaticDeadlineExpired",
            "OwnerExtension", "PendingConfirmation", "ProtectedDevice"}

Kinds == {"-", "Unknown48Hours", "Automatic7Days"}

(* Evaluation: the reason, the requested action, the kind of the deadline. *)
Evaluations == [reason : Reasons, action : Actions, kind : Kinds]
Eval(reason, action) == [reason |-> reason, action |-> action, kind |-> "-"]

Decisions == [eval : Evaluations, result : Results, undo : BOOLEAN]
NoDecision == [eval |-> Eval("-", "-"), result |-> "-", undo |-> FALSE]
policy_event(evaluation, result, undo) ==
    [eval |-> evaluation, result |-> result, undo |-> undo]

Attempts == [action : BlockActions, decision : Decisions]
NoAttempt == [action |-> "-", decision |-> NoDecision]

NoRelease == [action |-> "-", due |-> FALSE]
Releases == [action : BlockActions, due : BOOLEAN] \cup {NoRelease}
EnforcementRetries == {"none", "later", "due"}

ApplianceStates == [deny_internet : BOOLEAN, filter_entries : 0..FilterCapacity]
Unblocked == [deny_internet |-> FALSE, filter_entries |-> 0]
NoMarker == [deny_internet |-> FALSE, filter_entries |-> -1]
W6Rows == [restore : ApplianceStates, action : BlockActions,
           before : ApplianceStates, after : ApplianceStates \cup {NoMarker}]
NoW6Row == [restore |-> Unblocked, action |-> "-", before |-> Unblocked, after |-> NoMarker]

PolicyRows == [owner : Owners, identified : BOOLEAN, exempt : BOOLEAN, deadline : Deadlines,
               protected : BOOLEAN, danger : BOOLEAN]
PolicyRow == [owner |-> owner, identified |-> identified, exempt |-> exempt,
              deadline |-> deadline, protected |-> protected, danger |-> danger]
NoRow == [owner |-> "Pending", identified |-> FALSE, exempt |-> FALSE, deadline |-> "open",
          protected |-> FALSE, danger |-> FALSE]

Deny(p, reason) ==
    IF p.protected THEN Eval("ProtectedDevice", "OwnerAttention") ELSE Eval(reason, "Quarantine")

Waiting(p, reason) ==
    [Eval(reason, "None") EXCEPT !.kind = IF p.identified THEN "Automatic7Days"
                                                          ELSE "Unknown48Hours"]

(* PolicyEngine::evaluate, its tests in order.  The deadline position is   *)
(* now against first_seen_at plus 48 hours or 7 days, or the extension if  *)
(* that is later; an overflowing date is not modelled.                     *)
evaluate_policy(p) ==
    IF p.owner = "Rejected" THEN Eval("OwnerRejected", "PermanentBan")
    ELSE IF p.owner = "Quarantined" THEN Eval("OwnerQuarantined", "Quarantine")
    ELSE IF p.danger THEN Deny(p, "HighConfidenceDanger")
    ELSE IF p.owner = "Approved" THEN Eval("OwnerApproved", "None")
    ELSE IF p.exempt THEN Eval("BaselineExempt", "None")
    ELSE CASE p.deadline = "expired" ->
                Deny(p, IF p.identified THEN "AutomaticDeadlineExpired" ELSE "UnknownDeadlineExpired")
           [] p.deadline = "extended" -> Waiting(p, "OwnerExtension")
           [] p.deadline = "open" -> Waiting(p, "PendingConfirmation")

-----------------------------------------------------------------------------
(* The program state of a coordinator.  pc names the next await; ret and   *)
(* then are where undo and publish_exact return to; late holds the retries *)
(* that fell due only after the operation took its "now".                  *)
Idle == [pc |-> "idle", p |-> NoRow, eval |-> Eval("-", "-"), prior |-> NoDecision,
         attempt |-> NoAttempt, action |-> "-", result |-> "-", undo |-> FALSE,
         event |-> NoDecision, then |-> "-", ret |-> "-", late |-> {}]

Init ==
    /\ owner = "Pending"
    /\ identified = FALSE
    /\ exempt \in Cohorts
    /\ deadline = "open"
    /\ extension_used = FALSE
    /\ protected \in Protections
    /\ danger \in Risks
    /\ published = NoDecision
    /\ outbox = NoDecision
    /\ journal = NoAttempt
    /\ enforcement_retry = "none"
    /\ release_retry = NoRelease
    /\ blocked = FALSE
    /\ w6_row = NoW6Row
    /\ appliance = Unblocked
    /\ shown = NoDecision
    /\ task = [c \in Coordinators |-> Idle]
    /\ inputs = 0
    /\ faults = 0

At(c, label) == task[c].pc = label
Set(c, t) == task' = [task EXCEPT ![c] = t]
Goto(c, label) == Set(c, [task[c] EXCEPT !.pc = label])
Stop(c) == Set(c, Idle)
Fresh(t, label) == [Idle EXCEPT !.pc = label, !.late = t.late]

(* Every step is one of these: the code's own, one that meets a fault, or  *)
(* one that takes an input.                                                *)
Regular == UNCHANGED <<inputs, faults>>
Fault == faults < MaxFaults /\ faults' = faults + 1 /\ UNCHANGED inputs
Input == inputs < MaxInputs /\ inputs' = inputs + 1 /\ UNCHANGED faults

(* finish: build the event of this evaluation and publish it exactly.      *)
Finish(c, evaluation, result, undo) ==
    Set(c, [Idle EXCEPT !.pc = "prepare", !.event = policy_event(evaluation, result, undo),
                        !.then = "done"])

IsBlock(decision) == decision.result = "Verified" /\ decision.eval.action \in BlockActions
=============================================================================
