-------------------------- MODULE DiagnosticEngine --------------------------
(***************************************************************************)
(* DiagnosticEngine::run (lattice-doctor engine.rs): the checks one after  *)
(* the other, children of a failed parent skipped, everything skipped once *)
(* the probe budget is exhausted.  Probes are external: they answer what   *)
(* they like, or fail.                                                     *)
(*                                                                         *)
(* A result keeps its status, the details kind_for looks at and, of the    *)
(* evidence, the metrics a repair can be judged by.                        *)
(***************************************************************************)
EXTENDS DoctorTables, FiniteSets, FiniteSetsExt, Functions

CONSTANTS
    PingCount,        \* DoctorConfig::ping_count
    MtuProbeSizes,    \* DoctorConfig::mtu_probe_sizes, a sequence
    Resolvers,        \* number of configured resolvers
    Budgets           \* values of DiagnosticBudget::max_probes explored

ASSUME ConfigAssumption ==
    /\ PingCount \in 1..16
    /\ Len(MtuProbeSizes) \in 1..8
    /\ Resolvers \in 1..8
    /\ Budgets \subseteq Nat \ {0}

VARIABLES
    checks,            \* the results so far, in execution order
    probes_used,
    budget_exhausted,
    max_probes         \* of this run's budget

vars == <<checks, probes_used, budget_exhausted, max_probes>>

NoEvidence == <<>>
Result(status, detail, evidence) ==
    [status |-> status, because |-> "-", detail |-> detail, evidence |-> evidence]
conclude(pass, detail, evidence) ==
    Result(IF pass THEN "Passed" ELSE "Failed", detail, evidence)
failed_probe == Result("Failed", {"ProbeFailure"}, NoEvidence)

(* Bug: a skipped check does not say why.                                  *)
skipped_Unlabelled(because) == Result("Skipped", {}, NoEvidence)

skipped(because) == [Result("Skipped", {}, NoEvidence) EXCEPT !.because = because]

(* One metric with its value.                                              *)
Measured(metric, value) == [m \in {metric} |-> value]
Flag(condition) == IF condition THEN 1 ELSE 0

Init ==
    /\ checks = <<>>
    /\ probes_used = 0
    /\ budget_exhausted = FALSE
    /\ max_probes \in Budgets

-----------------------------------------------------------------------------
(* What one check may conclude, and how many probes it sends.  An answer   *)
(* is [sent, result].                                                      *)

Answer(sent, result) == [sent |-> sent, result |-> result]
Of(results) == {Answer(1, result) : result \in results \cup {failed_probe}}

check_collector ==
    Of({conclude(parts = CollectorParts, parts,
                 [m \in {"CollectorPrivileged", "CaptureHealthy", "WorkerRunning"} |->
                    Flag(CASE m = "CollectorPrivileged" -> "privileged" \in parts
                           [] m = "CaptureHealthy" -> "capture_ok" \in parts
                           [] m = "WorkerRunning" -> "worker_running" \in parts)]) :
        parts \in SUBSET CollectorParts})

check_adapter_link ==
    Of({conclude(up, {"link"}, Measured("LinkUp", Flag(up))) : up \in BOOLEAN})

check_address ==
    Of({conclude(has_address /\ lease \in {"Valid", "Static"},
                 {lease} \cup IF has_address THEN {"address"} ELSE {},
                 [m \in {"AddressPresent", "LeaseValid"} |->
                    Flag(IF m = "AddressPresent" THEN has_address ELSE lease \in {"Valid", "Static"})]) :
        has_address \in BOOLEAN, lease \in LeaseStates})

(* The result of an earlier check, if it is there.                         *)
find(check) == {checks[i] : i \in {j \in DOMAIN checks : EXECUTION_ORDER[j] = check}}

check_duplicate_ip ==
    IF \E address \in find("AddressDhcp") : "address" \in address.detail
    THEN Of({conclude(count <= 1, {"macs"}, Measured("ConflictingMacCount", count)) : count \in 0..2})
    ELSE {Answer(0, failed_probe)}

(* A signal is 1 when it is at or above weak_rssi_dbm, 0 below.            *)
check_wifi ==
    Of({conclude(TRUE, {"wired"}, NoEvidence)}
       \cup {conclude(strong, {"rssi"}, Measured("RssiDbm", Flag(strong))) : strong \in BOOLEAN})

loss_percent(received) == (100 * (PingCount - received)) \div PingCount

check_gateway ==
    {Answer(PingCount, conclude(received >= 1, {"ping"},
                                Measured("LossPercent", loss_percent(received)))) :
        received \in 0..PingCount}

check_router ==
    Of({conclude(responsive, {"router"}, Measured("RouterResponsive", Flag(responsive))) :
        responsive \in BOOLEAN})

(* At most 2 % loss and a median round trip that is not slow.              *)
check_loss_latency ==
    {Answer(PingCount, conclude(loss_percent(received) <= 2 /\ ~slow /\ received >= 1, {"loss"},
                                Measured("LossPercent", loss_percent(received)))) :
        received \in 0..PingCount, slow \in BOOLEAN}

(* Sizes go from large to small; the first failed probe ends the check.    *)
check_mtu ==
    LET sizes == Range(MtuProbeSizes)
        failed == {Answer(Cardinality({s \in sizes : s >= size}), failed_probe) : size \in sizes}
        concluded(passing, silent) ==
            conclude(silent = {}, IF passing = {} THEN {"mtu"} ELSE {"mtu", "passing"},
                     IF passing = {} THEN NoEvidence ELSE Measured("PassingMtuBytes", Max(passing)))
    IN  failed \cup {Answer(Cardinality(sizes), concluded(passing, silent)) :
                        <<passing, silent>> \in
                            {pair \in (SUBSET sizes) \X (SUBSET sizes) : pair[1] \cap pair[2] = {}}}

check_dns ==
    {Answer(Resolvers + 1, conclude(failures < Resolvers, {"resolvers"},
                                    Measured("ResolverFailureCount", failures))) :
        failures \in 0..Resolvers}

check_route_vpn ==
    Of({conclude(count = 1, {"routes"}, Measured("DefaultRouteCount", count)) : count \in 0..2})

check_internet ==
    LET lan_ok == \E gateway \in find("Gateway") : gateway.status = "Passed"
    IN  Of({conclude(reachable, {"internet"} \cup IF lan_ok THEN {"lan_ok"} ELSE {},
                     Measured("ReachabilitySuccess", Flag(reachable))) : reachable \in BOOLEAN})

run_check(check) ==
    CASE check = "CollectorHealth" -> check_collector
      [] check = "AdapterLink" -> check_adapter_link
      [] check = "AddressDhcp" -> check_address
      [] check = "DuplicateIp" -> check_duplicate_ip
      [] check = "WifiQuality" -> check_wifi
      [] check = "Gateway" -> check_gateway
      [] check = "RouterHealth" -> check_router
      [] check = "LossLatency" -> check_loss_latency
      [] check = "Mtu" -> check_mtu
      [] check = "Dns" -> check_dns
      [] check = "RouteVpn" -> check_route_vpn
      [] check = "InternetReachability" -> check_internet

-----------------------------------------------------------------------------
(* run: one check of EXECUTION_ORDER per step.                             *)

(* Bug: the control resolver is not counted.                               *)
probe_cost_ForgetsControl(check) ==
    CASE check \in {"Gateway", "LossLatency"} -> PingCount
      [] check = "Mtu" -> Len(MtuProbeSizes)
      [] check = "Dns" -> Resolvers
      [] OTHER -> 1

(* Worst case number of probes of a check.                                 *)
probe_cost(check) ==
    CASE check \in {"Gateway", "LossLatency"} -> PingCount
      [] check = "Mtu" -> Len(MtuProbeSizes)
      [] check = "Dns" -> Resolvers + 1
      [] OTHER -> 1

Check == EXECUTION_ORDER[Len(checks) + 1]
StatusOf(check) == (CHOOSE result \in find(check) : TRUE).status

(* Bug: only a parent that failed itself stops its children.               *)
dependency_skip_OnlyFailed(check) ==
    IF \E d \in dependencies(check) : StatusOf(d) = "Failed" THEN "DependencyFailed" ELSE "-"

(* dependency_skip; every check has at most one direct parent.             *)
dependency_skip(check) ==
    IF \E d \in dependencies(check) : StatusOf(d) = "Failed" THEN "DependencyFailed"
    ELSE IF \E d \in dependencies(check) : StatusOf(d) = "Skipped" THEN "DependencySkipped"
    ELSE "-"

Pending == Len(checks) < Len(EXECUTION_ORDER)

(* Bug: a cheap check is run after a dear one was dropped.                 *)
Affordable_Resumes(check) == probes_used + probe_cost(check) <= max_probes

Affordable(check) == ~budget_exhausted /\ probes_used + probe_cost(check) <= max_probes

skip_dependent ==
    /\ Pending
    /\ dependency_skip(Check) # "-"
    /\ checks' = Append(checks, skipped(dependency_skip(Check)))
    /\ UNCHANGED <<probes_used, budget_exhausted, max_probes>>

skip_exhausted ==
    /\ Pending
    /\ dependency_skip(Check) = "-"
    /\ ~Affordable(Check)
    /\ budget_exhausted' = TRUE
    /\ checks' = Append(checks, skipped("BudgetExhausted"))
    /\ UNCHANGED <<probes_used, max_probes>>

conclude_check ==
    /\ Pending
    /\ dependency_skip(Check) = "-"
    /\ Affordable(Check)
    /\ \E answer \in run_check(Check) :
        /\ checks' = Append(checks, answer.result)
        /\ probes_used' = probes_used + answer.sent
    /\ UNCHANGED <<budget_exhausted, max_probes>>

Next == skip_dependent \/ skip_exhausted \/ conclude_check

Spec == Init /\ [][Next]_vars

-----------------------------------------------------------------------------
(* Properties.                                                             *)

Position(check) == CHOOSE i \in DOMAIN EXECUTION_ORDER : EXECUTION_ORDER[i] = check
Done(check) == Position(check) \in DOMAIN checks
At(check) == checks[Position(check)]
Ran(check) == Done(check) /\ At(check).status # "Skipped"

(* Results have a status and a reason that fit.                            *)
TypeOK ==
    /\ Len(checks) <= Len(EXECUTION_ORDER)
    /\ \A i \in DOMAIN checks :
        /\ checks[i].status \in {"Passed", "Failed", "Skipped"}
        /\ checks[i].status = "Skipped" <=>
               checks[i].because \in {"DependencyFailed", "DependencySkipped", "BudgetExhausted"}
    /\ probes_used \in Nat
    /\ budget_exhausted \in BOOLEAN

(* The worst-case admission of engine.rs:156 keeps every run within its    *)
(* budget, whatever the probes answer.                                     *)
BudgetKept == probes_used <= max_probes

(* A check is concluded only when everything it stands on passed, over all *)
(* levels of the graph: the Doctor never diagnoses DNS while the adapter   *)
(* is down (check.rs:3-8, engine.rs:151-154, 741-758).                     *)
OnlyOnSoundGround ==
    \A check \in CheckKinds : Ran(check) =>
        \A a \in Ancestors[check] : Done(a) /\ At(a).status = "Passed"

(* Every skip has its ground: something the check stands on failed, or the *)
(* report is partial and from that check on nothing ran any more, however  *)
(* cheap: the run is "stopping cleanly when the probe budget is exhausted" *)
(* (engine.rs:142-144).  A check is never left out of a run that goes on.  *)
EverySkipIsExplained ==
    \A check \in CheckKinds : (Done(check) /\ At(check).status = "Skipped") =>
        \/ \E a \in Ancestors[check] : At(a).status = "Failed"
        \/ /\ budget_exhausted
           /\ \A i \in DOMAIN checks : i >= Position(check) => checks[i].status = "Skipped"

(* Whatever check fails, the repair it leads to can be judged: its symptom *)
(* is measured by that very check and is part of the evidence, so that no  *)
(* repair meets "plan table and symptom table diverged" (doctor.rs:1088).  *)
RepairIsMeasurable ==
    \A check \in CheckKinds : (Done(check) /\ At(check).status = "Failed") =>
        LET diagnosis == kind_for(check, At(check).detail)
            symptom == symptom_for(diagnosis)
        IN  Executable(plan_repair(diagnosis)) =>
                symptom.check = check /\ symptom.metric \in DOMAIN At(check).evidence

(* The symptom a repair is judged by shows the fault: a flag that is down, *)
(* or a count above its healthy value (doctor.rs symptom_for picks the     *)
(* metric from the diagnosis).                                             *)
SymptomShowsFault ==
    \A check \in CheckKinds : (Done(check) /\ At(check).status = "Failed") =>
        LET diagnosis == kind_for(check, At(check).detail)
            symptom == symptom_for(diagnosis)
            value == At(check).evidence[symptom.metric]
        IN  (Executable(plan_repair(diagnosis)) /\ symptom.metric # "PassingMtuBytes") =>
                IF symptom.direction = "HigherIsBetter" THEN value < 1 ELSE value >= 1
=============================================================================
