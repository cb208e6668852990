---------------------------- MODULE DoctorTables ----------------------------
(***************************************************************************)
(* The fixed tables of the Network Doctor: the check graph (lattice-doctor *)
(* check.rs), what a failed check is diagnosed as (diagnosis.rs), which    *)
(* repair that calls for (repair.rs) and by which measurement the repair   *)
(* is judged (lattice-service doctor.rs).                                  *)
(*                                                                         *)
(* A diagnosis is its kind and the details the tables look at, as a set:   *)
(* the healthy parts of a collector, the lease state, whether some packet  *)
(* size passed, whether the LAN works.                                     *)
(***************************************************************************)
EXTENDS Integers, Sequences

CONSTANTS
    SeversManagementPath,  \* RepairContext::lease_renewal_severs_only_management_path
    HasFallbackDns         \* ~RepairContext::fallback_dns_servers.is_empty()

ASSUME ContextAssumption == SeversManagementPath \in BOOLEAN /\ HasFallbackDns \in BOOLEAN

-----------------------------------------------------------------------------
(* Checks.                                                                 *)

EXECUTION_ORDER ==
    <<"CollectorHealth", "AdapterLink", "AddressDhcp", "DuplicateIp", "WifiQuality", "Gateway",
      "RouterHealth", "LossLatency", "Mtu", "Dns", "RouteVpn", "InternetReachability">>

CheckKinds == {EXECUTION_ORDER[i] : i \in DOMAIN EXECUTION_ORDER}

dependencies(check) ==
    CASE check = "CollectorHealth" -> {}
      [] check = "AdapterLink" -> {"CollectorHealth"}
      [] check \in {"AddressDhcp", "WifiQuality"} -> {"AdapterLink"}
      [] check \in {"DuplicateIp", "Gateway", "InternetReachability"} -> {"AddressDhcp"}
      [] check \in {"RouterHealth", "LossLatency", "Mtu", "Dns"} -> {"Gateway"}
      [] check = "RouteVpn" -> {"Dns"}

(* The checks a check stands on, directly or not.                          *)
Ancestors[check \in CheckKinds] ==
    dependencies(check) \cup UNION {Ancestors[d] : d \in dependencies(check)}

-----------------------------------------------------------------------------
(* Diagnoses.                                                              *)

Diagnosis(kind, detail) == [kind |-> kind, detail |-> detail]

CollectorParts == {"privileged", "capture_ok", "worker_running"}
LeaseStates == {"Valid", "Static", "Expired", "Missing"}

(* kind_for: a failed check with the details it found.                     *)
kind_for(check, detail) ==
    IF detail = {"ProbeFailure"} THEN Diagnosis("DiagnosticProbeFailure", {check})
    ELSE CASE check = "CollectorHealth" -> Diagnosis("CollectorFault", detail)
           [] check = "AdapterLink" -> Diagnosis("AdapterLinkDown", {})
           [] check = "AddressDhcp" -> Diagnosis("AddressMissing", detail \cap LeaseStates)
           [] check = "DuplicateIp" -> Diagnosis("DuplicateIp", {})
           [] check = "WifiQuality" /\ "rssi" \in detail -> Diagnosis("WeakWifiQuality", {})
           [] check = "Gateway" -> Diagnosis("GatewayUnreachable", {})
           [] check = "RouterHealth" -> Diagnosis("RouterFault", {})
           [] check = "LossLatency" -> Diagnosis("LossLatencyDegraded", {})
           [] check = "Mtu" -> Diagnosis("MtuBlackhole", detail \cap {"passing"})
           [] check = "Dns" -> Diagnosis("DnsFailure", {})
           [] check = "RouteVpn" -> Diagnosis("RouteVpnConflict", {})
           [] check = "InternetReachability" ->
                    Diagnosis("InternetUnreachable", detail \cap {"lan_ok"})
           [] OTHER -> Diagnosis("DiagnosticProbeFailure", {check})

-----------------------------------------------------------------------------
(* Repairs.                                                                *)

Plan(class, action) == [class |-> class, action |-> action]
Observe == Plan("ObservationOnly", "-")
Approval(action) == Plan("ApprovalRequiredReversible", action)

(* Bug: a size is proposed although none was seen to pass.                 *)
MtuPlan_Unmeasured(detail) == Approval("SetInterfaceMtu")

MtuPlan(detail) == IF "passing" \in detail THEN Approval("SetInterfaceMtu") ELSE Observe

(* plan_repair.                                                            *)
plan_repair(diagnosis) ==
    LET kind == diagnosis.kind
    IN  CASE kind = "CollectorFault" -> Plan("SafeAutomatic", "RestartCollectorWorker")
          [] kind = "AdapterLinkDown" -> Approval("ResetAdapter")
          [] kind = "AddressMissing" ->
                IF SeversManagementPath THEN Approval("RenewDhcpLease")
                ELSE Plan("SafeAutomatic", "RenewCollectorLease")
          [] kind = "DuplicateIp" -> Approval("SetDhcpReservation")
          [] kind = "WeakWifiQuality" -> Plan("GuidedPhysical", "MoveHardware")
          [] kind = "GatewayUnreachable" -> Approval("RebootRouter")
          [] kind = "RouterFault" -> Plan("SafeAutomatic", "RetryRouterSession")
          [] kind = "LossLatencyDegraded" -> Observe
          [] kind = "MtuBlackhole" -> MtuPlan(diagnosis.detail)
          [] kind = "DnsFailure" -> IF HasFallbackDns THEN Approval("ChangeDnsServers") ELSE Observe
          [] kind = "RouteVpnConflict" -> Observe
          [] kind = "InternetUnreachable" ->
                IF "lan_ok" \in diagnosis.detail THEN Plan("GuidedPhysical", "ContactIsp")
                ELSE Approval("RebootRouter")
          [] kind = "DiagnosticProbeFailure" -> Observe

NeedsApproval(plan) == plan.class = "ApprovalRequiredReversible"
Executable(plan) == plan.class \in {"SafeAutomatic", "ApprovalRequiredReversible"}

(* ExecutableRepair::reversible.                                           *)
reversible(plan) ==
    NeedsApproval(plan) \/ plan.action \in {"RefreshAppCaches", "RepairTailscaleServe"}

(* ExecutableRepair::state_keys, for the actions plan_repair proposes.     *)
state_key(plan) ==
    CASE plan.action = "RestartCollectorWorker" -> "WorkerState"
      [] plan.action \in {"RenewCollectorLease", "RenewDhcpLease"} -> "DhcpLease"
      [] plan.action \in {"RetryRouterSession", "RebootRouter"} -> "RouterSession"
      [] plan.action \in {"ResetAdapter", "SetInterfaceMtu"} -> "AdapterConfig"
      [] plan.action = "ChangeDnsServers" -> "DnsServers"
      [] plan.action = "SetDhcpReservation" -> "DhcpReservations"

-----------------------------------------------------------------------------
(* Symptoms.                                                               *)

Symptom(check, metric, direction) == [check |-> check, metric |-> metric, direction |-> direction]
NoSymptom == Symptom("-", "-", "-")

(* Bug: a collector is always judged by its worker.                        *)
CollectorMetric_Worker(parts) == "WorkerRunning"

(* The part of a collector that failed; parts are the healthy ones.        *)
CollectorMetric(parts) ==
    IF "worker_running" \notin parts THEN "WorkerRunning"
    ELSE IF "capture_ok" \notin parts THEN "CaptureHealthy"
    ELSE IF "privileged" \notin parts THEN "CollectorPrivileged"
    ELSE "WorkerRunning"

(* symptom_for.                                                            *)
symptom_for(diagnosis) ==
    LET kind == diagnosis.kind
        detail == diagnosis.detail
    IN  CASE kind = "CollectorFault" ->
                Symptom("CollectorHealth", CollectorMetric(detail), "HigherIsBetter")
          [] kind = "AdapterLinkDown" -> Symptom("AdapterLink", "LinkUp", "HigherIsBetter")
          [] kind = "AddressMissing" ->
                Symptom("AddressDhcp",
                        IF detail \subseteq {"Expired", "Missing"} THEN "LeaseValid"
                        ELSE "AddressPresent", "HigherIsBetter")
          [] kind = "DuplicateIp" -> Symptom("DuplicateIp", "ConflictingMacCount", "LowerIsBetter")
          [] kind = "WeakWifiQuality" -> Symptom("WifiQuality", "RssiDbm", "HigherIsBetter")
          [] kind = "GatewayUnreachable" -> Symptom("Gateway", "LossPercent", "LowerIsBetter")
          [] kind = "RouterFault" -> Symptom("RouterHealth", "RouterResponsive", "HigherIsBetter")
          [] kind = "LossLatencyDegraded" -> Symptom("LossLatency", "LossPercent", "LowerIsBetter")
          [] kind = "MtuBlackhole" -> Symptom("Mtu", "PassingMtuBytes", "HigherIsBetter")
          [] kind = "DnsFailure" -> Symptom("Dns", "ResolverFailureCount", "LowerIsBetter")
          [] kind = "RouteVpnConflict" -> Symptom("RouteVpn", "DefaultRouteCount", "LowerIsBetter")
          [] kind = "InternetUnreachable" ->
                Symptom("InternetReachability", "ReachabilitySuccess", "HigherIsBetter")
          [] kind = "DiagnosticProbeFailure" -> NoSymptom
=============================================================================
