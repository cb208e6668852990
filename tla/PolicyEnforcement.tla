-------------------------- MODULE PolicyEnforcement --------------------------
(***************************************************************************)
(* PolicyCoordinator: evaluate, publish_exact, approve, reject, quarantine *)
(* and extend_once, one step per awaited call.                             *)
(***************************************************************************)
EXTENDS W6Actuator

-----------------------------------------------------------------------------
(* Between awaits: what evaluate does with the task's own values t.        *)

FinishEval(c, result, undo) == Finish(c, task[c].eval, result, undo)

(* Whether the acknowledged decision already covers this evaluation.       *)
PriorMatches(t, result) == t.prior.eval = t.eval /\ t.prior.result = result

NothingToEnforce(t) == t.eval.action \in {"None", "OwnerAttention"} \/ t.p.protected

Continue(t, label, result) == [Idle EXCEPT !.pc = label, !.eval = t.eval, !.result = result]

(* Which enforcement this evaluation needs.                                *)
Selected(t) ==
    IF NothingToEnforce(t) THEN Continue(t, "retry", "NotRequested")
    ELSE IF PriorMatches(t, "Verified") THEN Continue(t, "retry", "Verified")
    ELSE IF PriorMatches(t, "ManualRequired") \/ PriorMatches(t, "Failed")
         THEN [Continue(t, "retry_due", t.prior.result) EXCEPT !.late = t.late]
    ELSE Continue(t, "reserve", "-")

-----------------------------------------------------------------------------
(* publish_exact: prepare the outbox row, put the event on the bus, then   *)
(* acknowledge it and retire the matching reservation in one transaction.  *)

Return(c) ==
    Set(c, CASE task[c].then = "done" -> Idle
             [] task[c].then = "select" -> Selected(task[c])
             [] task[c].then \in {"sup_downgrade", "ap_block"} ->
                    [task[c] EXCEPT !.pc = task[c].then])

(* prepare_exact_decision_publication.  A decision that is already the     *)
(* acknowledged one needs no publication.                                  *)
prepare(c) ==
    /\ At(c, "prepare")
    /\ \/ /\ published = task[c].event
          /\ Return(c)
          /\ UNCHANGED outbox
       \/ /\ published # task[c].event
          /\ outbox' = task[c].event
          /\ Goto(c, "publish")
    /\ UNCHANGED <<rowVars, published, journal, retryVars, blocked, routerVars, shown>>

bus_publish(c) ==
    /\ At(c, "publish")
    /\ shown' = task[c].event
    /\ Goto(c, IF task[c].attempt = NoAttempt /\ IsBlock(task[c].event) THEN "match" ELSE "mark")
    /\ UNCHANGED <<rowVars, publicationVars, journal, retryVars, blocked, routerVars>>

(* The reservation to retire: the one given, or the one whose decision is  *)
(* exactly the verified block just published.                              *)
match_attempt(c) ==
    /\ At(c, "match")
    /\ Set(c, [task[c] EXCEPT !.pc = "mark",
               !.attempt = IF journal.decision = task[c].event THEN journal ELSE NoAttempt])
    /\ UNCHANGED <<rowVars, publicationVars, journal, retryVars, blocked, routerVars, shown>>

(* mark_decision_published_and_clear_attempt, one transaction; it fails as *)
(* a whole when the reservation is no longer there.                        *)
mark_published(c) ==
    /\ At(c, "mark")
    /\ LET attempt == task[c].attempt
       IN  \/ /\ attempt # NoAttempt /\ journal.action # attempt.action
              /\ Stop(c)
              /\ UNCHANGED <<publicationVars, journal>>
           \/ /\ attempt = NoAttempt \/ journal.action = attempt.action
              /\ published' = task[c].event
              /\ outbox' = IF outbox = task[c].event THEN NoDecision ELSE outbox
              /\ journal' = IF attempt = NoAttempt THEN journal ELSE NoAttempt
              /\ Return(c)
    /\ UNCHANGED <<rowVars, retryVars, blocked, routerVars, shown>>

-----------------------------------------------------------------------------
(* Reads, and the storage calls several paths share.                       *)

onlyTask == <<rowVars, publicationVars, journal, retryVars, blocked, routerVars, shown>>
otherThanJournal == <<rowVars, publicationVars, retryVars, blocked, routerVars, shown>>
otherThanRelease ==
    <<rowVars, publicationVars, journal, enforcement_retry, blocked, routerVars, shown>>

(* clear_actuation_attempt: an error when the row is not the expected one. *)
clear_attempt(c, label, t) ==
    /\ At(c, label)
    /\ IF journal.action = task[c].attempt.action
       THEN journal' = NoAttempt /\ Set(c, t)
       ELSE Stop(c) /\ UNCHANGED journal
    /\ UNCHANGED otherThanJournal

(* schedule_release_retry, one minute ahead; then finish.                  *)
ScheduleRelease(action) == release_retry' = [action |-> action, due |-> FALSE]

load(c) ==
    /\ At(c, "load")
    /\ Set(c, [Fresh(task[c], "evaluate") EXCEPT !.p = PolicyRow,
                                                 !.eval = evaluate_policy(PolicyRow)])
    /\ UNCHANGED onlyTask

-----------------------------------------------------------------------------
(* evaluate.                                                               *)

read_published(c) ==
    /\ At(c, "evaluate")
    /\ Set(c, [task[c] EXCEPT !.pc = IF published.result = "Verified" THEN "retire" ELSE "release",
                              !.prior = published])
    /\ UNCHANGED onlyTask

(* An acknowledged verified decision retires its own stale reservation.    *)
retire_stale(c) ==
    /\ At(c, "retire")
    /\ IF journal # NoAttempt /\ journal.decision = task[c].prior
       THEN Set(c, [task[c] EXCEPT !.pc = "retire_clear", !.attempt = journal])
       ELSE Goto(c, "release")
    /\ UNCHANGED onlyTask

retire_clear(c) ==
    clear_attempt(c, "retire_clear", [task[c] EXCEPT !.pc = "release", !.attempt = NoAttempt])

read_release(c) ==
    /\ At(c, "release")
    /\ IF release_retry = NoRelease
       THEN Goto(c, "superseded")
       ELSE Set(c, [task[c] EXCEPT !.pc = "release_due", !.action = release_retry.action])
    /\ UNCHANGED onlyTask


read_release_due(c) ==
    /\ At(c, "release_due")
    /\ LET due == release_retry.due /\ "release" \notin task[c].late
       IN  \/ due /\ Goto(c, "release_fence")
           \/ ~due /\ task[c].prior # NoDecision
                /\ FinishEval(c, task[c].prior.result, task[c].prior.undo)
           \/ ~due /\ task[c].prior = NoDecision /\ Goto(c, "superseded")
    /\ UNCHANGED onlyTask

(* The durable unblock is the fence against a second restore.              *)
release_fence(c) ==
    /\ At(c, "release_fence")
    /\ IF blocked
       THEN Set(c, [task[c] EXCEPT !.pc = "undo", !.ret = "release_undone"])
       ELSE Goto(c, "release_fenced")
    /\ UNCHANGED onlyTask

release_fenced(c) ==
    /\ At(c, "release_fenced")
    /\ release_retry' = NoRelease
    /\ FinishEval(c, "Verified", FALSE)
    /\ UNCHANGED otherThanRelease

release_unblock(c) ==
    /\ At(c, "release_undone")
    /\ task[c].result = "Verified"
    /\ blocked' = FALSE
    /\ Goto(c, "release_clear")
    /\ UNCHANGED <<rowVars, publicationVars, journal, retryVars, routerVars, shown>>

release_clear(c) ==
    /\ At(c, "release_clear")
    /\ release_retry' = NoRelease
    /\ FinishEval(c, "Verified", UndoAvailable(c, task[c].action))
    /\ UNCHANGED otherThanRelease

release_again(c) ==
    /\ At(c, "release_undone")
    /\ task[c].result # "Verified"
    /\ ScheduleRelease(task[c].action)
    /\ FinishEval(c, task[c].result, UndoAvailable(c, task[c].action))
    /\ UNCHANGED otherThanRelease

(* A reservation for another action is reconciled first.                   *)
read_superseded(c) ==
    /\ At(c, "superseded")
    /\ IF journal # NoAttempt /\ journal.action # task[c].eval.action
       THEN Set(c, [task[c] EXCEPT !.pc = "sup_reconcile", !.attempt = journal])
       ELSE Set(c, Selected(task[c]))
    /\ UNCHANGED onlyTask

(* Bug: what cannot be reconciled ends the evaluation with an error.       *)
sup_reconcile_Fails(c) ==
    /\ At(c, "sup_reconcile")
    /\ Stop(c)
    /\ Regular
    /\ UNCHANGED onlyTask

sup_reconcile(c) ==
    /\ At(c, "sup_reconcile")
    /\ LET old == task[c].attempt
           downgrade == old.action = "PermanentBan" /\ task[c].eval.action = "Quarantine"
       IN  \E outcome \in Reconciliations :
            /\ reconcile(c, old.action, outcome)
            /\ CASE outcome = "ProvenNotApplied" -> Goto(c, "sup_clear")
                 [] outcome = "VerifiedApplied" ->
                        Set(c, [task[c] EXCEPT !.pc = "prepare",
                                !.event = [old.decision EXCEPT !.undo = UndoAvailable(c, old.action)],
                                !.then = IF downgrade THEN "sup_downgrade" ELSE "select"])
                 [] outcome \in {"Indeterminate", "Failed"} -> FinishEval(c, "ManualRequired", FALSE)
    /\ UNCHANGED onlyTask

sup_clear(c) == clear_attempt(c, "sup_clear", Selected(task[c]))

(* A ban is never weakened in place: queue its restoration first.          *)
sup_downgrade(c) ==
    /\ At(c, "sup_downgrade")
    /\ ScheduleRelease(task[c].attempt.action)
    /\ FinishEval(c, "ManualRequired", FALSE)
    /\ UNCHANGED otherThanRelease

(* A manual or failed result is kept until its retry is due.               *)
read_retry_due(c) ==
    /\ At(c, "retry_due")
    /\ Set(c, IF enforcement_retry = "later" \/ "enforcement" \in task[c].late
              THEN Continue(task[c], "retry", task[c].result)
              ELSE Continue(task[c], "reserve", "-"))
    /\ UNCHANGED onlyTask

(* reserve_actuation_with_decision: the reservation carries the decision   *)
(* to publish once the action is verified.                                 *)
Reservation(c) == [action |-> task[c].eval.action,
                   decision |-> policy_event(task[c].eval, "Verified", FALSE)]

reserve(c) ==
    /\ At(c, "reserve")
    /\ \/ /\ journal = NoAttempt
          /\ journal' = Reservation(c)
          /\ Goto(c, "enforce")
       \/ /\ journal.action = task[c].eval.action
          /\ Set(c, [task[c] EXCEPT !.pc = "exist_reconcile", !.attempt = journal])
          /\ UNCHANGED journal
    /\ UNCHANGED otherThanJournal

(* "superseded actuation attempt requires explicit reconciliation"         *)
Refused(c) == At(c, "reserve") /\ journal.action \notin {"-", task[c].eval.action}

reserve_refused(c) ==
    /\ Refused(c)
    /\ Stop(c)
    /\ UNCHANGED onlyTask

exist_reconcile(c) ==
    /\ At(c, "exist_reconcile")
    /\ \E outcome \in Reconciliations :
        /\ reconcile(c, task[c].eval.action, outcome)
        /\ CASE outcome = "VerifiedApplied" -> Enforced(c, "Verified")
             [] outcome = "ProvenNotApplied" -> Goto(c, "exist_clear")
             [] outcome = "Indeterminate" -> Enforced(c, "ManualRequired")
             [] outcome = "Failed" -> Enforced(c, "Failed")
    /\ UNCHANGED onlyTask

exist_clear(c) ==
    clear_attempt(c, "exist_clear", Continue(task[c], "exist_reserve", "-"))

(* Bug: the retry runs without a reservation of its own.                   *)
exist_reserve_Skips(c) ==
    /\ At(c, "exist_reserve")
    /\ Goto(c, "enforce")
    /\ UNCHANGED onlyTask

(* The second reservation's answer is not inspected: only an error stops.  *)
exist_reserve(c) ==
    /\ At(c, "exist_reserve")
    /\ IF journal.action \in {"-", task[c].eval.action}
       THEN /\ journal' = IF journal = NoAttempt THEN Reservation(c) ELSE journal
            /\ Goto(c, "enforce")
       ELSE Stop(c) /\ UNCHANGED journal
    /\ UNCHANGED otherThanJournal

(* schedule_enforcement_retry or clear_enforcement_retry.                  *)
set_retry(c) ==
    /\ At(c, "retry")
    /\ enforcement_retry' =
            IF task[c].result \in {"ManualRequired", "Failed"} THEN "later" ELSE "none"
    /\ IF task[c].result = "Verified"
       THEN Goto(c, "block")
       ELSE FinishEval(c, task[c].result, FALSE)
    /\ UNCHANGED <<rowVars, publicationVars, journal, release_retry, blocked, routerVars, shown>>

(* record_verified_block, then the event of this evaluation.               *)
record_block(c) ==
    /\ At(c, "block")
    /\ blocked' = TRUE
    /\ FinishEval(c, "Verified", UndoAvailable(c, task[c].eval.action))
    /\ UNCHANGED <<rowVars, publicationVars, journal, retryVars, routerVars, shown>>

evaluate_step(c) ==
    \/ load(c) \/ read_published(c) \/ retire_stale(c) \/ retire_clear(c)
    \/ read_release(c) \/ read_release_due(c) \/ release_fence(c) \/ release_fenced(c)
    \/ release_unblock(c) \/ release_clear(c) \/ release_again(c)
    \/ read_superseded(c) \/ sup_clear(c) \/ sup_downgrade(c)
    \/ read_retry_due(c) \/ reserve(c) \/ reserve_refused(c)
    \/ exist_clear(c) \/ exist_reserve(c)
    \/ set_retry(c) \/ record_block(c)

publish_step(c) == prepare(c) \/ bus_publish(c) \/ match_attempt(c) \/ mark_published(c)

-----------------------------------------------------------------------------
(* approve.                                                                *)

approve(c) ==
    /\ At(c, "idle")
    /\ c \in Servers
    /\ Set(c, [Idle EXCEPT !.pc = "ap_attempt", !.prior = published])
    /\ UNCHANGED onlyTask

(* A reservation the acknowledged decision does not account for.           *)
Unaccounted(prior) ==
    /\ journal # NoAttempt
    /\ ~(prior.result = "Verified" /\ prior.eval.action = journal.action)

(* The prior decision decides: undo a verified block, or just approve.     *)
ApprovalOf(t) ==
    IF IsBlock(t.prior)
    THEN [Idle EXCEPT !.pc = "ap_release", !.action = t.prior.eval.action]
    ELSE [Fresh(t, "set_owner") EXCEPT !.p.owner = "Approved"]

ap_read_attempt(c) ==
    /\ At(c, "ap_attempt")
    /\ Set(c, IF Unaccounted(task[c].prior)
              THEN [task[c] EXCEPT !.pc = "ap_reconcile", !.attempt = journal]
              ELSE ApprovalOf(task[c]))
    /\ UNCHANGED onlyTask

ap_reconcile(c) ==
    /\ At(c, "ap_reconcile")
    /\ LET attempt == task[c].attempt
           pending(result) == Set(c, [Idle EXCEPT !.pc = "ap_pending", !.action = attempt.action,
                                                  !.result = result])
       IN  \E outcome \in Reconciliations :
            /\ reconcile(c, attempt.action, outcome)
            /\ CASE outcome = "VerifiedApplied" ->
                        Set(c, [task[c] EXCEPT !.pc = "prepare", !.event = attempt.decision,
                                               !.then = "ap_block"])
                 [] outcome = "ProvenNotApplied" -> Goto(c, "ap_clear")
                 [] outcome = "Indeterminate" -> pending("ManualRequired")
                 [] outcome = "Failed" -> pending("Failed")
    /\ UNCHANGED onlyTask

ap_clear(c) == clear_attempt(c, "ap_clear", ApprovalOf(task[c]))

ap_record_block(c) ==
    /\ At(c, "ap_block")
    /\ blocked' = TRUE
    /\ Set(c, [Idle EXCEPT !.pc = "ap_release", !.action = task[c].attempt.action])
    /\ UNCHANGED <<rowVars, publicationVars, journal, retryVars, routerVars, shown>>

(* Bug: the release is queued for an action nobody took.                   *)
ap_release_WrongAction(c) ==
    /\ task[c].pc \in {"ap_release", "ap_pending"}
    /\ owner' = "Approved"
    /\ ScheduleRelease("None")
    /\ Goto(c, IF At(c, "ap_release") THEN "ap_load" ELSE "ap_pending_load")
    /\ UNCHANGED <<identified, exempt, deadline, extension_used, protected, danger, publicationVars,
                   journal, enforcement_retry, blocked, routerVars, shown>>

(* set_owner_decision_and_schedule_release_retry, one transaction.         *)
ap_release(c) ==
    /\ task[c].pc \in {"ap_release", "ap_pending"}
    /\ owner' = "Approved"
    /\ ScheduleRelease(task[c].action)
    /\ Goto(c, IF At(c, "ap_release") THEN "ap_load" ELSE "ap_pending_load")
    /\ UNCHANGED <<identified, exempt, deadline, extension_used, protected, danger, publicationVars,
                   journal, enforcement_retry, blocked, routerVars, shown>>

(* approve_pending_release: report why the release is still pending.       *)
ap_pending_finish(c) ==
    /\ At(c, "ap_pending_load")
    /\ Finish(c, evaluate_policy(PolicyRow), task[c].result, UndoAvailable(c, task[c].action))
    /\ UNCHANGED onlyTask

(* approve_verified_action.                                                *)
ap_load(c) ==
    /\ At(c, "ap_load")
    /\ LET t == [task[c] EXCEPT !.p = PolicyRow, !.eval = evaluate_policy(PolicyRow),
                                !.ret = "ap_undone"]
       IN  IF UndoAvailable(c, task[c].action)
           THEN Set(c, [t EXCEPT !.pc = "undo", !.undo = TRUE])
           ELSE Set(c, [t EXCEPT !.pc = "ap_undone", !.undo = FALSE, !.result = "ManualRequired"])
    /\ UNCHANGED onlyTask

(* Bug: the block is lifted whatever became of the undo.                   *)
ap_unblock_Unchecked(c) ==
    /\ At(c, "ap_undone")
    /\ blocked' = FALSE
    /\ Goto(c, "ap_clear_release")
    /\ UNCHANGED <<rowVars, publicationVars, journal, retryVars, routerVars, shown>>

ap_unblock(c) ==
    /\ At(c, "ap_undone")
    /\ task[c].result = "Verified"
    /\ blocked' = FALSE
    /\ Goto(c, "ap_clear_release")
    /\ UNCHANGED <<rowVars, publicationVars, journal, retryVars, routerVars, shown>>

ap_clear_release(c) ==
    /\ At(c, "ap_clear_release")
    /\ release_retry' = NoRelease
    /\ FinishEval(c, "Verified", FALSE)
    /\ UNCHANGED otherThanRelease

ap_release_again(c) ==
    /\ At(c, "ap_undone")
    /\ task[c].result # "Verified"
    /\ ScheduleRelease(task[c].action)
    /\ FinishEval(c, task[c].result, task[c].undo)
    /\ UNCHANGED otherThanRelease

approve_step(c) ==
    \/ ap_read_attempt(c) \/ ap_clear(c) \/ ap_record_block(c)
    \/ ap_release(c) \/ ap_pending_finish(c) \/ ap_load(c)
    \/ ap_unblock(c) \/ ap_clear_release(c) \/ ap_release_again(c)

-----------------------------------------------------------------------------
(* reject and quarantine: set_owner_decision_after_release_guard.          *)

block_request(c, decision) ==
    /\ At(c, "idle")
    /\ c \in Servers
    /\ LET intended == [PolicyRow EXCEPT !.owner = decision]
       IN  Set(c, [Idle EXCEPT !.pc = "guard", !.p = intended, !.eval = evaluate_policy(intended)])
    /\ UNCHANGED onlyTask

guard_release(c) ==
    /\ At(c, "guard")
    /\ \/ release_retry = NoRelease /\ Goto(c, "set_owner")
       \/ release_retry.action = task[c].eval.action /\ Goto(c, "guard_reconcile")
       \/ release_retry.action \notin {"-", task[c].eval.action} /\ Goto(c, "guard_clear")
    /\ UNCHANGED onlyTask

(* The last case is PolicyActionError::PendingRelease.                     *)
guard_reconcile(c) ==
    /\ At(c, "guard_reconcile")
    /\ \E outcome \in Reconciliations :
        /\ reconcile(c, task[c].eval.action, outcome)
        /\ CASE outcome = "VerifiedApplied" -> Goto(c, "guard_keep")
             [] outcome = "ProvenNotApplied" -> Goto(c, "guard_clear")
             [] outcome \in {"Indeterminate", "Failed"} -> Stop(c)
    /\ UNCHANGED onlyTask

guard_clear(c) ==
    /\ task[c].pc \in {"guard_clear", "guard_keep"}
    /\ release_retry' = NoRelease
    /\ Goto(c, IF At(c, "guard_clear") THEN "set_owner" ELSE "guard_keep_set")
    /\ UNCHANGED otherThanRelease

(* The block is still in place: record the intent, republish it as         *)
(* verified without touching the router.                                   *)
guard_keep(c) ==
    /\ At(c, "guard_keep_set")
    /\ owner' = task[c].p.owner
    /\ FinishEval(c, "Verified", UndoAvailable(c, task[c].eval.action))
    /\ UNCHANGED <<identified, exempt, deadline, extension_used, protected, danger, publicationVars,
                   journal, retryVars, blocked, routerVars, shown>>

set_owner_decision(c) ==
    /\ At(c, "set_owner")
    /\ owner' = task[c].p.owner
    /\ Set(c, Fresh(task[c], "load"))
    /\ UNCHANGED <<identified, exempt, deadline, extension_used, protected, danger, publicationVars,
                   journal, retryVars, blocked, routerVars, shown>>

guard_step(c) ==
    \/ guard_release(c) \/ guard_clear(c) \/ guard_keep(c)
    \/ set_owner_decision(c)

-----------------------------------------------------------------------------
(* extend_once, the sweep and the discovery cycle's identification.        *)

MoveDeadline(c, position) ==
    /\ deadline' = position
    /\ Set(c, [Idle EXCEPT !.pc = "load"])
    /\ UNCHANGED <<owner, exempt, protected, danger, publicationVars, journal, retryVars, blocked,
                   routerVars, shown>>

(* At most one extension; a date already past leaves the deadline expired. *)
extend_once(c) ==
    /\ At(c, "idle")
    /\ c \in Servers
    /\ extension_used' = TRUE
    /\ \E position \in Deadlines :
        /\ IF extension_used THEN position = deadline
           ELSE position = "extended" \/ (position = "expired" /\ deadline = "expired")
        /\ MoveDeadline(c, position)
    /\ UNCHANGED identified

(* enroll_identification_and_evaluate: a gained or lost identification     *)
(* switches between the 48 hour and the 7 day deadline.  Gaining one never *)
(* brings the deadline closer, losing one never moves it away.             *)
identify(c) ==
    /\ At(c, "idle")
    /\ c \in Sweepers
    /\ identified' = ~identified
    /\ \E position \in Deadlines :
        /\ position = "extended" => extension_used
        /\ identified => (deadline # "open" => position = deadline)
        /\ ~identified => (position = "expired" => deadline = "expired")
        /\ MoveDeadline(c, position)
    /\ UNCHANGED extension_used

sweep(c) ==
    /\ At(c, "idle")
    /\ c \in Sweepers
    /\ Set(c, [Idle EXCEPT !.pc = "evaluate", !.p = PolicyRow, !.eval = evaluate_policy(PolicyRow)])
    /\ UNCHANGED onlyTask

-----------------------------------------------------------------------------
(* The environment.                                                        *)

deadline_passes ==
    /\ deadline # "expired"
    /\ deadline' = "expired"
    /\ UNCHANGED <<owner, identified, exempt, extension_used, protected, danger, publicationVars,
                   journal, retryVars, blocked, routerVars, shown, task>>

(* Operations that may still ask whether a retry is due.                   *)
Waits(t) ==
    \/ t.pc \in {"ap_attempt", "ap_clear", "guard", "guard_clear", "guard_reconcile", "set_owner",
                "load", "evaluate", "retire", "retire_clear", "release", "release_due",
                "superseded", "sup_reconcile", "sup_clear", "retry_due"}
    \/ t.then = "select"

(* A scheduled retry falls due; operations under way took their now before *)
(* and do not see it.                                                      *)
FallsDue(retry) ==
    task' = [c \in Coordinators |-> IF Waits(task[c])
                                    THEN [task[c] EXCEPT !.late = @ \cup {retry}] ELSE task[c]]

retry_due ==
    /\ \/ /\ enforcement_retry = "later"
          /\ enforcement_retry' = "due"
          /\ FallsDue("enforcement")
          /\ UNCHANGED release_retry
       \/ /\ release_retry # NoRelease
          /\ ~release_retry.due
          /\ release_retry' = [release_retry EXCEPT !.due = TRUE]
          /\ FallsDue("release")
          /\ UNCHANGED enforcement_retry
    /\ UNCHANGED <<rowVars, publicationVars, journal, blocked, routerVars, shown>>

(* A storage error or a dropped request future ends one operation.         *)
abort(c) ==
    /\ ~At(c, "idle")
    /\ Stop(c)
    /\ Fault
    /\ UNCHANGED onlyTask

(* state(): a snapshot prefers the pending decision over the acknowledged. *)
SnapshotDecision == IF outbox # NoDecision THEN outbox ELSE published

(* A crash ends every operation; clients reconnect and take a snapshot.    *)
crash ==
    /\ Fault
    /\ task' = [c \in Coordinators |-> Idle]
    /\ shown' = SnapshotDecision
    /\ UNCHANGED <<rowVars, publicationVars, journal, retryVars, blocked, routerVars>>

store_step(c) == publish_step(c) \/ evaluate_step(c) \/ approve_step(c) \/ guard_step(c)

reconcile_step(c) ==
    sup_reconcile(c) \/ exist_reconcile(c) \/ ap_reconcile(c) \/ guard_reconcile(c)

step(c) == (store_step(c) /\ Regular) \/ reconcile_step(c) \/ actuator_step(c)

request(c) ==
    \/ approve(c)
    \/ block_request(c, "Rejected")
    \/ block_request(c, "Quarantined")
    \/ extend_once(c)

Next ==
    \/ \E c \in Coordinators : step(c)
    \/ \E c \in Coordinators : (request(c) \/ identify(c)) /\ Input
    \/ \E c \in Coordinators : sweep(c) /\ Regular
    \/ \E c \in Coordinators : abort(c)
    \/ (deadline_passes \/ retry_due) /\ Regular
    \/ crash

Spec == Init /\ [][Next]_vars

(* Every operation runs on to its end, the worker keeps sweeping, and the  *)
(* clock moves on.                                                         *)
FairSpec ==
    /\ Spec
    /\ \A c \in Coordinators : WF_vars(step(c)) /\ WF_vars(sweep(c) /\ Regular)
    /\ WF_vars(retry_due /\ Regular)

-----------------------------------------------------------------------------
(* What holds.                                                             *)

Quiet == \A c \in Coordinators : At(c, "idle")

(* The rows, the router and the tasks hold values of their types.          *)
TypeOK ==
    /\ PolicyRow \in PolicyRows
    /\ extension_used \in BOOLEAN
    /\ published \in Decisions \cup {NoDecision}
    /\ outbox \in Decisions \cup {NoDecision}
    /\ journal \in Attempts \cup {NoAttempt}
    /\ enforcement_retry \in EnforcementRetries
    /\ release_retry \in Releases
    /\ blocked \in BOOLEAN
    /\ w6_row \in W6Rows \cup {NoW6Row}
    /\ appliance \in ApplianceStates
    /\ shown \in Decisions \cup {NoDecision}

(* The way back is never lost: while the router differs from the state it  *)
(* had before any enforcement, the previous-state row exists and leads to  *)
(* that state, however many actions were stacked and wherever a crash hit  *)
(* (begin_attempt keeps the oldest state; undo removes the row last).      *)
RestorePointKept == appliance # Unblocked => w6_row # NoW6Row /\ w6_row.restore = Unblocked

(* The durable block of a device is lifted only once the router has been   *)
(* restored (record_verified_unblock follows a verified undo).             *)
UnblockOnlyAfterRestore == [][blocked /\ ~blocked' => appliance = Unblocked]_vars

(* The router is changed only under a durable reservation of exactly that  *)
(* action, with the state before it on record (evaluate reserves, then     *)
(* enforce begins the attempt, then applies).                              *)
ApplyIsReserved ==
    [][(appliance' # appliance /\ appliance' # w6_row.restore) =>
            /\ journal # NoAttempt
            /\ appliance' = Applied(appliance, journal.action)
            /\ w6_row.action = journal.action
            /\ w6_row.before = appliance]_vars

(* Once the owner and the clock leave the row alone, its evaluation is     *)
(* what gets acknowledged in the end, whatever the races before (sweep     *)
(* evaluates every row again and again).                                   *)
DecisionConverges == <>[](published.eval = evaluate_policy(PolicyRow))


-----------------------------------------------------------------------------
(* What the code's own words claim and the code does not do.               *)

(* Acknowledging a verified decision retires its reservation, so that no   *)
(* later owner action is refused at the journal (the comment on            *)
(* mark_decision_published_and_clear_attempt).                             *)
NoRefusedAction == \A c \in Coordinators : ~Refused(c)

(* A block is reported as verified only while the router blocks (the       *)
(* owner guide: "only after read-back verification at the router").        *)
VerifiedMeansBlocked ==
    Quiet /\ IsBlock(published) /\ release_retry = NoRelease => appliance # Unblocked

(* An approval never ends in "not requested" with the router still         *)
(* blocking (the comment in approve).                                      *)
ApprovalIsHonest ==
    (Quiet /\ owner = "Approved" /\ published.eval.reason = "OwnerApproved"
           /\ published.result = "NotRequested") => appliance = Unblocked

(* A completed evaluation is what the next snapshot shows (the evidence    *)
(* document: a snapshot prefers the newest decision).                      *)
SnapshotIsNewest ==
    [][\A c \in Coordinators :
        ((prepare(c) \/ mark_published(c)) /\ task[c].then = "done" /\ published' = task[c].event)
            => SnapshotDecision' = task[c].event]_vars

(* The fence against a second restore is met only after the first (the     *)
(* comment on the durable unblock in evaluate).                            *)
FencedMeansRestored == \A c \in Coordinators : At(c, "release_fenced") => appliance = Unblocked

(* A queued release leaves the queue in the end, a failed control write    *)
(* being retried by the next sweep (the comment after                      *)
(* record_verified_unblock in evaluate).                                   *)
ReleaseCompletes == release_retry # NoRelease ~> release_retry = NoRelease

(* A queued release serves the owner's present intent: an approval, or the *)
(* first half of weakening a ban to a quarantine (the comment on           *)
(* set_owner_decision_after_release_guard: "so it cannot later undo the    *)
(* newer block").                                                          *)
ReleaseMatchesIntent ==
    release_retry # NoRelease =>
        \/ owner = "Approved"
        \/ owner = "Quarantined" /\ release_retry.action = "PermanentBan"

(* Without a router integration nothing is reported or recorded as blocked *)
(* (guard-and-policy.md:94).                                               *)
NoUnverifiedClaim == ~IsBlock(published) /\ ~IsBlock(outbox) /\ ~blocked

(* A client comes to show the acknowledged decision (publish_exact         *)
(* publishes before it acknowledges).                                      *)
ClientConverges == <>[](shown = published)
=============================================================================
