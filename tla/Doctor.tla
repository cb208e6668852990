------------------------------- MODULE Doctor -------------------------------
(***************************************************************************)
(* The Network Doctor's service state and routes (lattice-service          *)
(* doctor.rs) with the repair executor they drive (lattice-doctor          *)
(* executor.rs).                                                           *)
(*                                                                         *)
(* Requests run concurrently.  One acquisition of the inner lock, one      *)
(* access to the running flag, one awaited transport or audit call is one  *)
(* step.  A request future may be dropped at an await, which releases the  *)
(* flag (RunningGuard) and nothing else, and the service may restart,      *)
(* which empties the in-memory state.  The transport is external: each of  *)
(* its calls may fail, with or without an effect.                          *)
(*                                                                         *)
(* Requests refused without a change of state are not steps.               *)
(***************************************************************************)
EXTENDS DoctorTables, FiniteSets

CONSTANTS
    Requests,    \* concurrent requests
    Tokens,      \* approval ids
    Diagnoses,   \* diagnoses a run may find
    NONE,        \* no token
    Ttl,         \* APPROVAL_TTL_MINUTES, in ticks of the clock
    Faults,      \* kinds of faults explored
    MaxInputs,   \* bound: requests served
    MaxFaults,   \* bound: faults met
    MaxTime      \* bound: ticks of the clock

ASSUME DoctorAssumption ==
    /\ NONE \notin Tokens
    /\ Ttl \in Nat \ {0}
    /\ Faults \subseteq {"drop", "audit", "transport", "restart"}
    /\ MaxInputs \in Nat
    /\ MaxFaults \in Nat
    /\ MaxTime \in Nat

VARIABLES
    running,     \* DoctorShared::running
    latest,      \* DoctorInner::latest: number and findings of the last run
    approvals,   \* DoctorInner::approvals, the records minted and not dropped
    settings,    \* DoctorShared::settings, by the number of the last writer
    host,        \* the state behind each StateKey (external), as a version
    executions,  \* history: the token of every repair handed to apply
    audited,     \* the audit log: settings, approvals and number of executions
    known,       \* tokens the owner has received
    task,        \* the program state of each request
    now,         \* the clock
    inputs,      \* bound counter
    faults       \* bound counter

inner == <<latest, approvals>>
bounds == <<now, inputs, faults>>
vars == <<running, latest, approvals, settings, host, executions, audited, known, task,
          now, inputs, faults>>

Keys == {state_key(plan_repair(d)) : d \in {e \in Diagnoses : Executable(plan_repair(e))}}
NoRun == [run |-> 0, findings |-> {}]
NoDiagnosis == Diagnosis("-", {})
Records == [token : Tokens, diagnosis : Diagnoses, expires : Nat, used : BOOLEAN, run : Nat]

(* holds: the request carries the RunningGuard.                            *)
Idle == [pc |-> "idle", holds |-> FALSE, diagnosis |-> NoDiagnosis, token |-> NONE, run |-> 0,
         now |-> 0, snapshot |-> 0, outcome |-> "-", rollback |-> "-", settings |-> 0, next |-> 0]

Init ==
    /\ running = FALSE
    /\ latest = NoRun
    /\ approvals = {}
    /\ settings = 0
    /\ host = [k \in Keys |-> 0]
    /\ executions = <<>>
    /\ audited = [settings |-> {0}, approvals |-> {}, executions |-> 0]
    /\ known = {}
    /\ task = [r \in Requests |-> Idle]
    /\ now = 0
    /\ inputs = 0
    /\ faults = 0

At(r, label) == task[r].pc = label
Set(r, t) == task' = [task EXCEPT ![r] = t]
Goto(r, label) == Set(r, [task[r] EXCEPT !.pc = label])

Regular == UNCHANGED bounds
Input == inputs < MaxInputs /\ inputs' = inputs + 1 /\ UNCHANGED <<now, faults>>
Fault(kind) ==
    kind \in Faults /\ faults < MaxFaults /\ faults' = faults + 1 /\ UNCHANGED <<now, inputs>>

PlanOf(r) == plan_repair(task[r].diagnosis)
KeyOf(r) == state_key(PlanOf(r))

-----------------------------------------------------------------------------
(* run_route.                                                              *)

(* The flag is taken by compare_exchange; it is refused (409) when set.    *)
run_begin(r) ==
    /\ At(r, "idle")
    /\ ~running
    /\ running' = TRUE
    /\ Set(r, [Idle EXCEPT !.pc = "run", !.holds = TRUE])
    /\ Input
    /\ UNCHANGED <<inner, settings, host, executions, audited, known>>

(* engine.run and diagnose, then under one lock: the new run replaces the  *)
(* latest and every outstanding approval is cleared.                       *)
run_store(r) ==
    /\ At(r, "run")
    /\ \E findings \in SUBSET Diagnoses :
        latest' = [run |-> latest.run + 1, findings |-> findings]
    /\ approvals' = {}
    /\ Goto(r, "release")
    /\ Regular
    /\ UNCHANGED <<running, settings, host, executions, audited, known>>

(* The response is built and RunningGuard dropped.                         *)
release(r) ==
    /\ At(r, "release")
    /\ running' = IF task[r].holds THEN FALSE ELSE running
    /\ Set(r, Idle)
    /\ Regular
    /\ UNCHANGED <<inner, settings, host, executions, audited, known>>

-----------------------------------------------------------------------------
(* approvals_route.                                                        *)

(* The clock is read before the lock is taken.                             *)
approve_begin(r) ==
    /\ At(r, "idle")
    /\ \E d \in Diagnoses : Set(r, [Idle EXCEPT !.pc = "mint", !.diagnosis = d, !.now = now])
    /\ Input
    /\ UNCHANGED <<running, inner, settings, host, executions, audited, known>>

Approvable(d) == d \in latest.findings /\ NeedsApproval(plan_repair(d))

(* A fresh random id: one that was never in use.                           *)
FreshTokens ==
    Tokens \ UNION {known, {entry.token : entry \in audited.approvals},
                    {record.token : record \in approvals}, {task[r].token : r \in Requests}}

(* Bug: any finding can be approved, whether the latest run has it or not. *)
mint_Unchecked(r) ==
    /\ At(r, "mint")
    /\ \E token \in FreshTokens :
        /\ approvals' = {record \in approvals : task[r].now < record.expires} \cup
                {[token |-> token, diagnosis |-> task[r].diagnosis, expires |-> task[r].now + Ttl,
                  used |-> FALSE, run |-> latest.run]}
        /\ Set(r, [task[r] EXCEPT !.pc = "mint_audit", !.token = token])
    /\ Regular
    /\ UNCHANGED <<running, latest, settings, host, executions, audited, known>>

(* Check against the latest run, drop expired records, insert, one lock.   *)
(* run is not a field of the code's record: it remembers for which run the *)
(* approval was given.                                                     *)
mint(r) ==
    /\ At(r, "mint")
    /\ \/ /\ Approvable(task[r].diagnosis)
          /\ \E token \in FreshTokens :
                /\ approvals' = {record \in approvals : task[r].now < record.expires} \cup
                        {[token |-> token, diagnosis |-> task[r].diagnosis,
                          expires |-> task[r].now + Ttl, used |-> FALSE, run |-> latest.run]}
                /\ Set(r, [task[r] EXCEPT !.pc = "mint_audit", !.token = token])
       \/ /\ ~Approvable(task[r].diagnosis)
          /\ Set(r, Idle)
          /\ UNCHANGED approvals
    /\ Regular
    /\ UNCHANGED <<running, latest, settings, host, executions, audited, known>>

(* Bug: the owner gets the token although the log did not take the entry.  *)
mint_audit_AnswersAnyway(r) ==
    /\ At(r, "mint_audit")
    /\ known' = known \cup {task[r].token}
    /\ \/ /\ audited' = [audited EXCEPT !.approvals =
                            @ \cup {[token |-> task[r].token, diagnosis |-> task[r].diagnosis]}]
          /\ Set(r, Idle)
          /\ Regular
       \/ Goto(r, "mint_withdraw") /\ Fault("audit") /\ UNCHANGED audited
    /\ UNCHANGED <<running, inner, settings, host, executions>>

(* append_audit; the response hands the token to the owner.                *)
mint_audit(r) ==
    /\ At(r, "mint_audit")
    /\ \/ /\ audited' = [audited EXCEPT !.approvals =
                            @ \cup {[token |-> task[r].token, diagnosis |-> task[r].diagnosis]}]
          /\ known' = known \cup {task[r].token}
          /\ Set(r, Idle)
          /\ Regular
       \/ /\ Goto(r, "mint_withdraw")
          /\ Fault("audit")
          /\ UNCHANGED <<audited, known>>
    /\ UNCHANGED <<running, inner, settings, host, executions>>

mint_withdraw(r) ==
    /\ At(r, "mint_withdraw")
    /\ approvals' = {record \in approvals : record.token # task[r].token}
    /\ Set(r, Idle)
    /\ Regular
    /\ UNCHANGED <<running, latest, settings, host, executions, audited, known>>

-----------------------------------------------------------------------------
(* repair_route up to the executor.                                        *)

(* Bug: the flag is not looked at.                                         *)
repair_begin_IgnoresFlag(r) ==
    /\ At(r, "idle")
    /\ running' = TRUE
    /\ \E d \in Diagnoses, token \in known \cup {NONE} :
        Set(r, [Idle EXCEPT !.pc = "plan", !.holds = TRUE, !.diagnosis = d, !.token = token])
    /\ Input
    /\ UNCHANGED <<inner, settings, host, executions, audited, known>>

(* The single-flight flag comes before the approval is looked at.          *)
repair_begin(r) ==
    /\ At(r, "idle")
    /\ ~running
    /\ running' = TRUE
    /\ \E d \in Diagnoses, token \in known \cup {NONE} :
        Set(r, [Idle EXCEPT !.pc = "plan", !.holds = TRUE, !.diagnosis = d, !.token = token])
    /\ Input
    /\ UNCHANGED <<inner, settings, host, executions, audited, known>>

(* The plan of the latest run, then the clock; 404, 400 or 403 otherwise.  *)
repair_plan(r) ==
    /\ At(r, "plan")
    /\ LET found == task[r].diagnosis \in latest.findings
           class == PlanOf(r).class
       IN  \/ /\ found /\ class = "SafeAutomatic"
              /\ Set(r, [task[r] EXCEPT !.pc = "snapshot", !.token = NONE, !.run = latest.run])
           \/ /\ found /\ class = "ApprovalRequiredReversible" /\ task[r].token # NONE
              /\ Set(r, [task[r] EXCEPT !.pc = "consume", !.now = now])
           \/ /\ \/ ~found
                 \/ ~Executable(PlanOf(r))
                 \/ class = "ApprovalRequiredReversible" /\ task[r].token = NONE
              /\ Goto(r, "release")
    /\ Regular
    /\ UNCHANGED <<running, inner, settings, host, executions, audited, known>>

(* Bug: an approval for one finding serves for another.                    *)
Live_AnyDiagnosis(record, r) ==
    /\ record.token = task[r].token
    /\ ~record.used
    /\ task[r].now < record.expires

Live(record, r) ==
    /\ record.token = task[r].token
    /\ ~record.used
    /\ task[r].now < record.expires
    /\ record.diagnosis = task[r].diagnosis

(* Bug: the record is checked but not marked.                              *)
consume_Unmarked(r) ==
    /\ At(r, "consume")
    /\ \E record \in approvals :
        /\ Live(record, r)
        /\ Set(r, [task[r] EXCEPT !.pc = "snapshot", !.run = record.run])
    /\ Regular
    /\ UNCHANGED <<running, inner, settings, host, executions, audited, known>>

(* Validate and spend the approval under one lock.                         *)
consume(r) ==
    /\ At(r, "consume")
    /\ \/ \E record \in approvals :
            /\ Live(record, r)
            /\ approvals' = (approvals \ {record}) \cup {[record EXCEPT !.used = TRUE]}
            /\ Set(r, [task[r] EXCEPT !.pc = "snapshot", !.run = record.run])
       \/ /\ ~\E record \in approvals : Live(record, r)
          /\ Goto(r, "release")
          /\ UNCHANGED approvals
    /\ Regular
    /\ UNCHANGED <<running, latest, settings, host, executions, audited, known>>

-----------------------------------------------------------------------------
(* RepairExecutor::execute: snapshot, baseline, apply, verify, roll back.  *)

Outcome(r, label, outcome, rollback) ==
    Set(r, [task[r] EXCEPT !.pc = label, !.outcome = outcome, !.rollback = rollback])

snapshot(r) ==
    /\ At(r, "snapshot")
    /\ \/ Set(r, [task[r] EXCEPT !.pc = "baseline", !.snapshot = host[KeyOf(r)]]) /\ Regular
       \/ Outcome(r, "repair_audit", "SnapshotFailed", "NotNeeded") /\ Fault("transport")
    /\ UNCHANGED <<running, inner, settings, host, executions, audited, known>>

baseline(r) ==
    /\ At(r, "baseline")
    /\ \/ Goto(r, "apply") /\ Regular
       \/ Outcome(r, "repair_audit", "BaselineFailed", "NotNeeded") /\ Fault("transport")
    /\ UNCHANGED <<running, inner, settings, host, executions, audited, known>>

Changed(r) == [host EXCEPT ![KeyOf(r)] = @ + 1]
Restored(r) == [host EXCEPT ![KeyOf(r)] = task[r].snapshot]

(* Bug: a failed apply is taken for one without effect.                    *)
apply_NoRollback(r) ==
    /\ At(r, "apply")
    /\ executions' = Append(executions, task[r].token)
    /\ \/ host' = Changed(r) /\ Goto(r, "verify") /\ Regular
       \/ /\ host' \in {host, Changed(r)}
          /\ Outcome(r, "repair_audit", "ApplyFailed", "NotNeeded")
          /\ Fault("transport")
    /\ UNCHANGED <<running, inner, settings, audited, known>>

(* A failed apply may have left partial state.                             *)
apply(r) ==
    /\ At(r, "apply")
    /\ executions' = Append(executions, task[r].token)
    /\ \/ host' = Changed(r) /\ Goto(r, "verify") /\ Regular
       \/ /\ host' \in {host, Changed(r)}
          /\ Outcome(r, "rollback", "ApplyFailed", "-")
          /\ Fault("transport")
    /\ UNCHANGED <<running, inner, settings, audited, known>>

(* Improvement in units of min_meaningful_delta.                           *)
compare(improvement) ==
    IF improvement >= 1 THEN "Improved" ELSE IF improvement <= -1 THEN "Regressed" ELSE "Unchanged"

(* The symptom is measured again; a missing or non-finite value counts as  *)
(* a failed measurement.                                                   *)
verify(r) ==
    /\ At(r, "verify")
    /\ \/ /\ \E improvement \in -1..1 :
                LET verdict == compare(improvement)
                IN  IF verdict = "Regressed" THEN Outcome(r, "rollback", verdict, "-")
                    ELSE Outcome(r, "repair_audit", verdict, "NotNeeded")
          /\ Regular
       \/ Outcome(r, "rollback", "VerificationFailed", "-") /\ Fault("transport")
    /\ UNCHANGED <<running, inner, settings, host, executions, audited, known>>

RollBack(r, label, rollback) == Set(r, [task[r] EXCEPT !.pc = label, !.rollback = rollback])

roll_back(r) ==
    /\ At(r, "rollback")
    /\ IF reversible(PlanOf(r))
       THEN \/ host' = Restored(r) /\ RollBack(r, "rollback_verify", "-") /\ Regular
            \/ /\ host' \in {host, Restored(r)}
               /\ RollBack(r, "repair_audit", "Failed")
               /\ Fault("transport")
       ELSE RollBack(r, "repair_audit", "NotReversible") /\ Regular /\ UNCHANGED host
    /\ UNCHANGED <<running, inner, settings, executions, audited, known>>

(* A restore only counts once the symptom is back at its baseline.         *)
roll_back_verify(r) ==
    /\ At(r, "rollback_verify")
    /\ \/ /\ \E improvement \in -1..1 :
                RollBack(r, "repair_audit",
                         IF compare(improvement) = "Regressed" THEN "Failed" ELSE "Succeeded")
          /\ Regular
       \/ RollBack(r, "repair_audit", "Failed") /\ Fault("transport")
    /\ UNCHANGED <<running, inner, settings, host, executions, audited, known>>

(* The execution is recorded; a failed append answers 503 instead.         *)
repair_audit(r) ==
    /\ At(r, "repair_audit")
    /\ Goto(r, "release")
    /\ \/ audited' = [audited EXCEPT !.executions = @ + 1] /\ Regular
       \/ UNCHANGED audited /\ Fault("audit")
    /\ UNCHANGED <<running, inner, settings, host, executions, known>>

-----------------------------------------------------------------------------
(* update_settings_route: write first, audit, put the old value back when  *)
(* the audit fails.                                                        *)

update_settings(r) ==
    /\ At(r, "idle")
    /\ settings' = inputs + 1
    /\ Set(r, [Idle EXCEPT !.pc = "settings_audit", !.settings = settings, !.next = inputs + 1])
    /\ Input
    /\ UNCHANGED <<running, inner, host, executions, audited, known>>

settings_audit(r) ==
    /\ At(r, "settings_audit")
    /\ \/ audited' = [audited EXCEPT !.settings = @ \cup {task[r].next}] /\ Set(r, Idle) /\ Regular
       \/ UNCHANGED audited /\ Goto(r, "settings_restore") /\ Fault("audit")
    /\ UNCHANGED <<running, inner, settings, host, executions, known>>

settings_restore(r) ==
    /\ At(r, "settings_restore")
    /\ settings' = task[r].settings
    /\ Set(r, Idle)
    /\ Regular
    /\ UNCHANGED <<running, inner, host, executions, audited, known>>

-----------------------------------------------------------------------------
(* The environment.                                                        *)

(* The client goes away: the future is dropped, RunningGuard with it.      *)
drop(r) ==
    /\ task[r].pc \notin {"idle", "release"}
    /\ running' = IF task[r].holds THEN FALSE ELSE running
    /\ Set(r, Idle)
    /\ Fault("drop")
    /\ UNCHANGED <<inner, settings, host, executions, audited, known>>

(* The in-memory state starts afresh; settings are derived anew.           *)
restart ==
    /\ Fault("restart")
    /\ running' = FALSE
    /\ latest' = NoRun
    /\ approvals' = {}
    /\ settings' = 0
    /\ task' = [r \in Requests |-> Idle]
    /\ UNCHANGED <<host, executions, audited, known>>

tick ==
    /\ now < MaxTime
    /\ now' = now + 1
    /\ UNCHANGED <<running, inner, settings, host, executions, audited, known, task, inputs, faults>>

step(r) ==
    \/ run_store(r) \/ release(r)
    \/ mint(r) \/ mint_audit(r) \/ mint_withdraw(r)
    \/ repair_plan(r) \/ consume(r)
    \/ snapshot(r) \/ baseline(r) \/ apply(r) \/ verify(r) \/ roll_back(r) \/ roll_back_verify(r)
    \/ repair_audit(r)
    \/ settings_audit(r) \/ settings_restore(r)

request(r) == run_begin(r) \/ approve_begin(r) \/ repair_begin(r) \/ update_settings(r)

Next ==
    \/ \E r \in Requests : step(r) \/ request(r) \/ drop(r)
    \/ restart
    \/ tick

Spec == Init /\ [][Next]_vars

-----------------------------------------------------------------------------
(* Properties.                                                             *)

Holders == {r \in Requests : task[r].holds}
Executing(r) == task[r].pc \in {"snapshot", "baseline", "apply", "verify", "rollback",
                                "rollback_verify", "repair_audit"}

(* The doctor's state holds values of its types; a token its owner holds   *)
(* is on the audit log.                                                    *)
TypeOK ==
    /\ running \in BOOLEAN
    /\ latest \in [run : Nat, findings : SUBSET Diagnoses]
    /\ approvals \subseteq Records
    /\ host \in [Keys -> Nat]
    /\ known \subseteq {entry.token : entry \in audited.approvals}
    /\ \A r \in Requests : At(r, "repair_audit") =>
            /\ task[r].outcome \in {"SnapshotFailed", "BaselineFailed", "ApplyFailed",
                                   "VerificationFailed", "Improved", "Unchanged", "Regressed"}
            /\ task[r].rollback \in {"NotNeeded", "NotReversible", "Succeeded", "Failed"}

(* The flag is up exactly while one request holds it: runs and repairs     *)
(* never overlap, and neither a dropped request nor a restart leaves the   *)
(* flag behind (doctor.rs:859-866, 891-898, 1035-1042).                    *)
SingleFlight == Cardinality(Holders) = IF running THEN 1 ELSE 0

(* Every outstanding approval is for an approval-required finding of the   *)
(* latest run, since minting and replacing the run each happen under the   *)
(* inner lock (doctor.rs:929-935, 967-991).                                *)
ApprovalsMatchLatest ==
    \A record \in approvals : record.run = latest.run /\ Approvable(record.diagnosis)

(* What is being executed is a plan of the latest run, and if it needs an  *)
(* approval, one that was given for this plan in this very run, although   *)
(* the plan is read and the approval spent under two separate locks        *)
(* (doctor.rs:1043-1078).                                                  *)
ConsentIsForThisRun ==
    \A r \in Requests : Executing(r) =>
        /\ task[r].run = latest.run
        /\ task[r].diagnosis \in latest.findings
        /\ NeedsApproval(PlanOf(r)) =>
                [token |-> task[r].token, diagnosis |-> task[r].diagnosis] \in audited.approvals

(* No approval is ever applied twice (doctor.rs:1068-1078).                *)
TokenSpentOnce ==
    \A i, j \in DOMAIN executions : executions[i] = executions[j] /\ i # j => executions[i] = NONE

(* A report tells what became of the host: rolled back means the snapshot  *)
(* is in place again, and whatever is not in place was either a repair     *)
(* that did not regress or is reported as not rolled back                  *)
(* (executor.rs:251-378, 418-456).                                         *)
ReportIsHonest ==
    \A r \in Requests : At(r, "repair_audit") =>
        LET kept == host[KeyOf(r)] # task[r].snapshot
        IN  /\ task[r].rollback = "Succeeded" => ~kept
            /\ (kept /\ task[r].outcome \notin {"SnapshotFailed", "BaselineFailed"}) =>
                    \/ task[r].outcome \in {"Improved", "Unchanged"}
                    \/ task[r].rollback \in {"Failed", "NotReversible"}

-----------------------------------------------------------------------------
(* What the code's own words claim and the code does not do.               *)

Quiet == \A r \in Requests : At(r, "idle")

(* "Every execution appends to the audit log (category `doctor_action`)."  *)
(* (docs/architecture/m6-doctor-contracts.md:28-29).                             *)
EveryExecutionAudited == Quiet => Len(executions) <= audited.executions

(* "An unaudited approval must not exist: withdraw it." (doctor.rs:1009)    *)
NoUnauditedApproval ==
    Quiet => \A record \in approvals :
                [token |-> record.token, diagnosis |-> record.diagnosis] \in audited.approvals

(* "An unaudited change must not stand: restore the previous targets."     *)
(* (doctor.rs:1181)                                                        *)
SettingsAudited == Quiet => settings \in audited.settings
=============================================================================
