----------------------------- MODULE W6Actuator -----------------------------
(***************************************************************************)
(* W6PolicyActuator (lattice-service/src/policy.rs) over the W6 connector  *)
(* (lattice-w6) and its durable previous-state row (lattice-store/src/     *)
(* w6.rs), and ManualRequiredActuator, which never touches a router.       *)
(*                                                                         *)
(* The router is external: DenyInternet sets a flag, PersistentFilter adds *)
(* a filter entry, restore writes a whole state back.  A call that fails   *)
(* in transport may or may not have taken effect.                          *)
(***************************************************************************)
EXTENDS PolicyState

UsesW6(c) == c \in W6Coordinators

(* Everything the actuator leaves alone.                                   *)
coordinatorVars == <<rowVars, publicationVars, journal, retryVars, blocked, shown>>

(* Transport::apply for the capability of a policy action (external).      *)
Applied(state, action) ==
    IF action = "Quarantine"
    THEN [state EXCEPT !.deny_internet = TRUE]
    ELSE [state EXCEPT !.filter_entries = @ + 1]

HasRoom(action) == action = "PermanentBan" => appliance.filter_entries < FilterCapacity

(* undo_available: a previous-state row exists.                            *)
UndoAvailable(c, action) == UsesW6(c) /\ action \in BlockActions /\ w6_row # NoW6Row

(* reconcile: what read-back and the durable marker prove about an action. *)
(* It only reads, and only the W6 coordinator writes what it reads.        *)
Reconciled(action) ==
    CASE w6_row = NoW6Row -> "ProvenNotApplied"
      [] w6_row # NoW6Row /\ w6_row.action # action -> "Indeterminate"
      [] w6_row # NoW6Row /\ w6_row.action = action ->
            IF appliance = w6_row.before /\ w6_row.after = NoMarker THEN "ProvenNotApplied"
            ELSE IF appliance = w6_row.after THEN "VerifiedApplied"
            ELSE "Indeterminate"

reconcile(c, action, outcome) ==
    \/ outcome = (IF UsesW6(c) THEN Reconciled(action) ELSE "Indeterminate") /\ Regular
    \/ UsesW6(c) /\ outcome \in {"Indeterminate", "Failed"} /\ Fault

Reconciliations == {"VerifiedApplied", "ProvenNotApplied", "Indeterminate", "Failed"}

-----------------------------------------------------------------------------
(* enforce.                                                                *)

Enforced(c, result) == Set(c, [Idle EXCEPT !.pc = "retry", !.eval = task[c].eval,
                                           !.result = result])

enforce_manual(c) ==
    /\ At(c, "enforce")
    /\ ~UsesW6(c)
    /\ Enforced(c, "ManualRequired")
    /\ Regular
    /\ UNCHANGED <<coordinatorVars, routerVars>>

(* Bug: a second attempt overwrites the oldest state.                      *)
enforce_begin_Overwrites(c) ==
    /\ At(c, "enforce")
    /\ UsesW6(c)
    /\ HasRoom(task[c].eval.action)
    /\ w6_row' = [restore |-> appliance, action |-> task[c].eval.action,
                  before |-> appliance, after |-> NoMarker]
    /\ Goto(c, "w6_apply")
    /\ Regular
    /\ UNCHANGED <<coordinatorVars, appliance>>

(* prepare_quarantine reads the state; begin_attempt records it before any *)
(* mutation, keeping the oldest state as the one to restore.               *)
enforce_begin(c) ==
    /\ At(c, "enforce")
    /\ UsesW6(c)
    /\ HasRoom(task[c].eval.action)
    /\ w6_row' = [restore |-> IF w6_row = NoW6Row THEN appliance ELSE w6_row.restore,
                  action |-> task[c].eval.action, before |-> appliance, after |-> NoMarker]
    /\ Goto(c, "w6_apply")
    /\ Regular
    /\ UNCHANGED <<coordinatorVars, appliance>>

(* CapacityExhausted, or a failed read or write before the mutation.       *)
enforce_refused(c) ==
    /\ At(c, "enforce")
    /\ UsesW6(c)
    /\ \/ ~HasRoom(task[c].eval.action) /\ Enforced(c, "ManualRequired") /\ Regular
       \/ Enforced(c, "Failed") /\ Fault
    /\ UNCHANGED <<coordinatorVars, routerVars>>

(* apply_prepared: the mutation, verified by read-back.                    *)
enforce_apply(c) ==
    /\ At(c, "w6_apply")
    /\ appliance = w6_row.before
    /\ appliance' = Applied(appliance, task[c].eval.action)
    /\ \/ Goto(c, "w6_mark") /\ Regular
       \/ Enforced(c, "Failed") /\ Fault
    /\ UNCHANGED <<coordinatorVars, w6_row>>

enforce_apply_failed(c) ==
    /\ At(c, "w6_apply")
    /\ Enforced(c, "Failed")
    /\ Fault
    /\ UNCHANGED <<coordinatorVars, routerVars>>

(* read_state, then mark_verified: the causal marker of a verified action. *)
enforce_mark(c) ==
    /\ At(c, "w6_mark")
    /\ \/ /\ w6_row' = [w6_row EXCEPT !.after = appliance]
          /\ Enforced(c, "Verified")
          /\ Regular
       \/ /\ Enforced(c, "Failed")
          /\ Fault
          /\ UNCHANGED w6_row
    /\ UNCHANGED <<coordinatorVars, appliance>>

-----------------------------------------------------------------------------
(* undo.                                                                   *)

Undone(c, result) == Set(c, [task[c] EXCEPT !.pc = task[c].ret, !.result = result])

undo_manual(c) ==
    /\ At(c, "undo")
    /\ ~UsesW6(c) \/ w6_row = NoW6Row
    /\ Undone(c, "ManualRequired")
    /\ Regular
    /\ UNCHANGED <<coordinatorVars, routerVars>>

(* Connector::restore, verified by read-back.                              *)
undo_restore(c) ==
    /\ At(c, "undo")
    /\ UsesW6(c)
    /\ w6_row # NoW6Row
    /\ appliance' = w6_row.restore
    /\ \/ Goto(c, "w6_remove") /\ Regular
       \/ Undone(c, "ManualRequired") /\ Fault
    /\ UNCHANGED <<coordinatorVars, w6_row>>

undo_restore_failed(c) ==
    /\ At(c, "undo")
    /\ UsesW6(c)
    /\ w6_row # NoW6Row
    /\ Undone(c, "ManualRequired") \/ Undone(c, "Failed")
    /\ Fault
    /\ UNCHANGED <<coordinatorVars, routerVars>>

undo_remove(c) ==
    /\ At(c, "w6_remove")
    /\ \/ w6_row' = NoW6Row /\ Undone(c, "Verified") /\ Regular
       \/ UNCHANGED w6_row /\ Undone(c, "Failed") /\ Fault
    /\ UNCHANGED <<coordinatorVars, appliance>>

actuator_step(c) ==
    \/ enforce_manual(c)
    \/ enforce_begin(c)
    \/ enforce_refused(c)
    \/ enforce_apply(c)
    \/ enforce_apply_failed(c)
    \/ enforce_mark(c)
    \/ undo_manual(c)
    \/ undo_restore(c)
    \/ undo_restore_failed(c)
    \/ undo_remove(c)
=============================================================================
