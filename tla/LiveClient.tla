----------------------------- MODULE LiveClient -----------------------------
(***************************************************************************)
(* The live view of a desktop client: the durable projections of the       *)
(* service, the events published about them, the paged snapshot, and the   *)
(* client's connection (apps/desktop connection.ts, client.ts, live.ts).   *)
(*                                                                         *)
(* The event socket is used as EventBus proves it: it hands its client the *)
(* events after the cursor in order and without a hole, or asks it to      *)
(* resynchronise.  What is in flight on a socket is not distinguished from *)
(* what the service has not sent yet, so the position of a session is the  *)
(* sequence number its client has reached.  Messages of a socket the       *)
(* client has closed are not dispatched.                                   *)
(*                                                                         *)
(* Generations and socket epochs are kept as the one thing the code asks   *)
(* of them: whether the hydration in flight still belongs to the current   *)
(* ones.  Timers of a socket are armed exactly while it is there.          *)
(***************************************************************************)
EXTENDS Integers, Sequences, FiniteSets

CONSTANTS
    NumDevices,      \* devices, numbered in the order the snapshot lists them
    ReplayCapacity,  \* events a session may be behind before it is resynchronised
    MaxRestarts,     \* snapshotAll's maxRestarts
    MaxInputs,       \* bound: commits of discovery and of control
    MaxFaults        \* bound: lost connections and requests, restarts, stops

ASSUME LiveClientAssumption ==
    /\ NumDevices \in Nat \ {0} /\ ReplayCapacity \in Nat \ {0}
    /\ MaxRestarts \in Nat /\ MaxInputs \in Nat /\ MaxFaults \in Nat

Devices == 1..NumDevices
PageLimit == 1

VARIABLES
    discovered,  \* latest discovery state of a device; "none": no row yet
    control,     \* latest verified control fact: "none", "blocked", "released"
    published,   \* published_decision_json: "none", "block", "release"
    outbox,      \* the decision in the policy outbox, likewise
    announced,   \* devices whose outbox decision is on the bus, unacknowledged
    worker,      \* the discovery cycle between its commit and its publication
    events,      \* the event bus: what this run of the service published
    client,      \* createLiveConnection's variables and the live state
    inputs, faults

storeVars == <<discovered, control, published, outbox>>
vars == <<storeVars, announced, worker, events, client, inputs, faults>>

Presences == {"none", "unknown", "online", "blocked"}
Event(kind, d, to) == [kind |-> kind, device |-> d, to |-> to]
Idle == [stage |-> "idle", device |-> 0, to |-> "none"]

-----------------------------------------------------------------------------
(* The service writes its store before it publishes.                       *)

Publish(e) == events' = Append(events, e)

(* A discovery commit that changes a device's presence.  The first sight of *)
(* a device makes its row and no event.                                     *)
CommitDiscovery(d, to) ==
    /\ worker.stage = "idle" /\ inputs < MaxInputs
    /\ to \in {"unknown", "online"} \ {discovered[d]}
    /\ discovered[d] = "none" => to = "unknown"
    /\ discovered' = [discovered EXCEPT ![d] = to]
    /\ worker' = IF discovered[d] = "none" THEN Idle
                 ELSE [stage |-> "check", device |-> d, to |-> to]
    /\ inputs' = inputs + 1
    /\ UNCHANGED <<control, published, outbox, announced, events, client, faults>>

CheckControl ==
    /\ worker.stage = "check"
    /\ worker' = IF control[worker.device] = "blocked" THEN Idle
                 ELSE [worker EXCEPT !.stage = "publish"]
    /\ UNCHANGED <<storeVars, announced, events, client, inputs, faults>>

PublishPresence ==
    /\ worker.stage = "publish"
    /\ Publish(Event("presence_changed", worker.device, worker.to))
    /\ worker' = Idle
    /\ UNCHANGED <<storeVars, announced, client, inputs, faults>>

(* The decision that goes with a control fact.                              *)
Decision(fact) == CASE fact = "blocked" -> "block"
                    [] fact = "released" -> "release"
                    [] fact = "none" -> "none"

PolicySettled(d) == published[d] = Decision(control[d]) /\ outbox[d] = "none"

(* record_verified_block, record_verified_unblock.                          *)
RecordControl(d) ==
    /\ discovered[d] # "none" /\ PolicySettled(d) /\ inputs < MaxInputs
    /\ control' = [control EXCEPT ![d] = IF @ = "blocked" THEN "released" ELSE "blocked"]
    /\ inputs' = inputs + 1
    /\ UNCHANGED <<discovered, published, outbox, announced, worker, events, client, faults>>

(* The decision enters the outbox, is put on the bus, and becomes the       *)
(* published one when its row is acknowledged.                              *)
PrepareDecision(d) ==
    /\ outbox[d] = "none" /\ published[d] # Decision(control[d])
    /\ outbox' = [outbox EXCEPT ![d] = Decision(control[d])]
    /\ UNCHANGED <<discovered, control, published, announced, worker, events, client, inputs, faults>>

PublishDecision(d) ==
    /\ outbox[d] # "none" /\ d \notin announced
    /\ Publish(Event("policy_changed", d, outbox[d]))
    /\ announced' = announced \cup {d}
    /\ UNCHANGED <<storeVars, worker, client, inputs, faults>>

AcknowledgeDecision(d) ==
    /\ d \in announced
    /\ published' = [published EXCEPT ![d] = outbox[d]]
    /\ outbox' = [outbox EXCEPT ![d] = "none"]
    /\ announced' = announced \ {d}
    /\ UNCHANGED <<discovered, control, worker, events, client, inputs, faults>>

-----------------------------------------------------------------------------
(* The client.  Its handlers are functions of its variables.                *)

NoView == [d \in Devices |-> "none"]
NoPage == [sequence |-> 0, device |-> 0, presence |-> "none",
           pending |-> "unread", published |-> "unread"]
NoHydration ==
    [stage |-> "none", current |-> FALSE, fresh |-> FALSE, restart |-> 0, sequence |-> -1,
     after |-> 0, rows |-> NoView, page |-> NoPage]

(* A hydration: where its request stands, whether isCurrent(token) and its  *)
(* epoch still hold, and snapshotAll's variables.  fresh is history: the    *)
(* service has not restarted since the first page's watermark.              *)
Walk(restart) ==
    [NoHydration EXCEPT !.stage = "watermark", !.current = TRUE, !.restart = restart]

hydrating(k) == k.hydration.stage # "none"

hydrateAndOpen(k) ==
    IF hydrating(k) THEN [k EXCEPT !.pendingHydration = TRUE]
    ELSE [k EXCEPT !.hydration = Walk(0)]

(* Bug: a hydration asked for while one was in flight is forgotten.         *)
Finally_Forgotten(k) == [k EXCEPT !.hydration = NoHydration, !.pendingHydration = FALSE]

(* The finally block of hydrateAndOpen.                                     *)
Finally(k) ==
    LET done == [k EXCEPT !.hydration = NoHydration, !.pendingHydration = FALSE]
    IN  IF k.pendingHydration /\ ~k.stopped THEN hydrateAndOpen(done) ELSE done

(* Bug: closing what is not open is counted.                                *)
closeSocket_Always(k) == [k EXCEPT !.socket = "none", !.unclosed = @ - 1]

closeSocket(k) ==
    [k EXCEPT !.socket = "none", !.unclosed = IF k.socket = "none" THEN @ ELSE @ - 1]

(* Bug: a resync opens the stream again and takes no new snapshot.          *)
resync_SkipsSnapshot(k) ==
    IF k.stopped \/ hydrating(k) THEN k
    ELSE [closeSocket(k) EXCEPT !.retryTimer = FALSE, !.connected = FALSE,
                                !.hydration = [Walk(0) EXCEPT !.stage = "ticket"]]

resync(k) ==
    IF k.stopped THEN k
    ELSE hydrateAndOpen([closeSocket(k) EXCEPT !.hydration.current = FALSE,
                                               !.retryTimer = FALSE, !.connected = FALSE])

scheduleReconnect(k) == [k EXCEPT !.retryTimer = TRUE]

(* Bug: the socket that failed is dropped and not closed.                   *)
SocketEnded_LeftOpen(k) == scheduleReconnect([k EXCEPT !.socket = "none", !.connected = FALSE])

(* handleSocketState with "closed" or "error", for the current socket.      *)
SocketEnded(k) == scheduleReconnect([closeSocket(k) EXCEPT !.connected = FALSE])

(* The catch block and then the finally block.                              *)
HydrationFailed(k) ==
    Finally(IF k.hydration.current /\ k.hydration.stage # "aborted" THEN scheduleReconnect(k) ELSE k)

applySnapshot(k, h) ==
    [k EXCEPT !.sequence = h.sequence, !.view = h.rows, !.connected = FALSE,
              !.needsResync = FALSE, !.fresh = h.fresh, !.hydration.stage = "ticket"]

(* What an event does to the devices shown.                                 *)
Shown(view, e) ==
    [view EXCEPT ![e.device] =
        CASE e.kind = "presence_changed" -> IF @ = "blocked" THEN @ ELSE e.to
          [] e.to = "block" -> "blocked"
          [] e.to = "release" -> "unknown"]

reduceLiveMessage(k, n, e) ==
    CASE n <= k.sequence -> k
      [] n > k.sequence + 1 -> [k EXCEPT !.connected = FALSE, !.needsResync = TRUE]
      [] OTHER -> [k EXCEPT !.sequence = n, !.connected = TRUE, !.view = Shown(k.view, e)]

handleMessage(next) == IF next.needsResync THEN resync(next) ELSE next

-----------------------------------------------------------------------------
(* The client's own steps.                                                  *)

ClientStep == UNCHANGED <<storeVars, announced, worker, events, inputs>>
Fault == faults < MaxFaults /\ faults' = faults + 1
NoFault == UNCHANGED faults

start ==
    /\ client.stopped
    /\ client' = hydrateAndOpen([client EXCEPT !.stopped = FALSE])
    /\ ClientStep /\ NoFault

(* A page request is aborted; a ticket request is not, and settles later.   *)
Aborted(h) ==
    [h EXCEPT !.current = FALSE,
              !.stage = IF @ \in {"none", "ticket"} THEN @ ELSE "aborted"]

stop ==
    /\ ~client.stopped /\ Fault
    /\ client' = [closeSocket(client) EXCEPT
                    !.stopped = TRUE, !.pendingHydration = FALSE, !.retryTimer = FALSE,
                    !.connected = FALSE, !.hydration = Aborted(@)]
    /\ ClientStep

RetryFires ==
    /\ client.retryTimer
    /\ client' = hydrateAndOpen([client EXCEPT !.retryTimer = FALSE])
    /\ ClientStep /\ NoFault

(* GET /api/v1/state: the watermark, then the devices, then their decisions.*)
At(stage) == client.hydration.stage = stage

ReadWatermark ==
    /\ At("watermark")
    /\ client' = [client EXCEPT !.hydration.stage = "devices",
                                !.hydration.page.sequence = Len(events),
                                !.hydration.fresh = IF client.hydration.sequence = -1 THEN TRUE ELSE @]
    /\ ClientStep /\ NoFault

(* list_device_snapshots: control facts come before discovery facts.        *)
StoredPresence(d) ==
    CASE control[d] = "blocked" -> "blocked"
      [] control[d] = "released" -> "unknown"
      [] control[d] = "none" -> discovered[d]

(* The first device after the cursor; 0 when there is none.                 *)
PageDevice(after) ==
    LET rest == {d \in Devices : d > after /\ discovered[d] # "none"}
    IN  IF rest = {} THEN 0 ELSE CHOOSE d \in rest : \A e \in rest : d <= e

ReadDevices ==
    /\ At("devices")
    /\ LET d == PageDevice(client.hydration.after)
       IN  client' = [client EXCEPT
                        !.hydration.stage = "policies", !.hydration.page.device = d,
                        !.hydration.page.presence = IF d = 0 THEN "none" ELSE StoredPresence(d)]
    /\ ClientStep /\ NoFault

(* Bug: the watermark is read after the projections.                        *)
Projected_WatermarkLast(h) ==
    LET decision == IF h.page.pending # "none" THEN h.page.pending ELSE h.page.published
    IN  IF "unread" \in {h.page.pending, h.page.published} THEN h
        ELSE [h EXCEPT !.stage = "response", !.page.sequence = Len(events),
                       !.page.presence = IF decision = "block" THEN "blocked" ELSE @]

(* Once both queries have answered, a pending decision goes before the      *)
(* published one, and the client shows a verified block over the presence   *)
(* (live.ts, hasVerifiedBlock).                                             *)
Projected(h) ==
    LET decision == IF h.page.pending # "none" THEN h.page.pending ELSE h.page.published
    IN  IF "unread" \in {h.page.pending, h.page.published} THEN h
        ELSE [h EXCEPT !.stage = "response",
                       !.page.presence = IF decision = "block" THEN "blocked" ELSE @]

(* The decisions of the page: two queries that run at once, on connections  *)
(* of their own and in no transaction.  The third, load_many, reads the row *)
(* that every decision has from before it was prepared: a page that misses  *)
(* it is refused, which RequestFails covers.                                *)
ReadPending ==
    /\ At("policies") /\ client.hydration.page.pending = "unread"
    /\ LET d == client.hydration.page.device
           row == IF d = 0 THEN "none" ELSE outbox[d]
       IN  client' = [client EXCEPT !.hydration = Projected([@ EXCEPT !.page.pending = row])]
    /\ ClientStep /\ NoFault

ReadPublished ==
    /\ At("policies") /\ client.hydration.page.published = "unread"
    /\ LET d == client.hydration.page.device
           row == IF d = 0 THEN "none" ELSE published[d]
       IN  client' = [client EXCEPT !.hydration = Projected([@ EXCEPT !.page.published = row])]
    /\ ClientStep /\ NoFault

(* One page arrives in snapshotAll.  A full page asks for the next.         *)
PageArrives ==
    /\ At("response")
    /\ LET h == client.hydration
           page == h.page
           first == h.sequence = -1
           moved == ~first /\ page.sequence # h.sequence
           taken == [h EXCEPT !.sequence = page.sequence, !.after = page.device,
                              !.stage = "watermark", !.page = NoPage,
                              !.rows = IF page.device = 0 THEN @
                                       ELSE [@ EXCEPT ![page.device] = page.presence]]
       IN  client' = CASE moved /\ (page.sequence < h.sequence \/ h.restart >= MaxRestarts) ->
                            HydrationFailed(client)
                       [] moved /\ page.sequence > h.sequence /\ h.restart < MaxRestarts ->
                            [client EXCEPT !.hydration = Walk(h.restart + 1)]
                       [] ~moved /\ page.device # 0 -> [client EXCEPT !.hydration = taken]
                       [] ~moved /\ page.device = 0 -> applySnapshot(client, taken)
    /\ ClientStep /\ NoFault

Requesting == client.hydration.stage \in {"watermark", "devices", "policies", "response", "ticket"}

(* A request fails, or times out.                                           *)
RequestFails ==
    /\ Requesting /\ Fault
    /\ client' = HydrationFailed(client)
    /\ ClientStep

(* The rejection of an aborted request, or of one the service took down.    *)
RequestSettles ==
    /\ client.hydration.stage \in {"aborted", "lost"}
    /\ client' = HydrationFailed(client)
    /\ ClientStep /\ NoFault

(* The ticket arrives and the WebSocket is made.                            *)
TicketArrives ==
    /\ At("ticket")
    /\ client' = Finally(IF client.hydration.current
                         THEN [client EXCEPT !.socket = "connecting", !.unclosed = @ + 1,
                                             !.retryTimer = FALSE]
                         ELSE client)
    /\ ClientStep /\ NoFault

-----------------------------------------------------------------------------
(* The socket: "connecting", "open", "mute" (it will never open) and "half" *)
(* (dead since it opened), of which nobody tells the client, and "lost"     *)
(* (dead, and the close event is on its way).                               *)

SocketOpens ==
    /\ client.socket = "connecting"
    /\ client' = [client EXCEPT !.socket = "open", !.connected = TRUE]
    /\ ClientStep /\ NoFault

EventArrives ==
    /\ client.socket = "open" /\ client.sequence < Len(events)
    /\ LET n == client.sequence + 1
       IN  client' = handleMessage(reduceLiveMessage(client, n, events[n]))
    /\ ClientStep /\ NoFault

(* A cursor outside the replay window, or a session too far behind.         *)
ResyncArrives ==
    /\ client.socket = "open"
    /\ client.sequence > Len(events) \/ Len(events) - client.sequence > ReplayCapacity
    /\ client' = handleMessage([client EXCEPT !.connected = FALSE, !.needsResync = TRUE])
    /\ ClientStep /\ NoFault

SocketDies ==
    /\ client.socket \in {"connecting", "open"} /\ Fault
    /\ \E how \in {"half", "lost"} :
          client' = [client EXCEPT !.socket = IF how = "half" /\ @ = "connecting" THEN "mute" ELSE how]
    /\ ClientStep

SocketCloses ==
    /\ client.socket = "lost"
    /\ client' = SocketEnded(client)
    /\ ClientStep /\ NoFault

(* The open watchdog: no open event within openTimeoutMs.                   *)
OpenTimesOut ==
    /\ (client.socket = "mute" /\ NoFault) \/ (client.socket = "connecting" /\ Fault)
    /\ client' = SocketEnded(client)
    /\ ClientStep

(* Bug: the stale watchdog is armed by a message and not by the open event. *)
StaleTimesOut_Unarmed ==
    /\ client.socket = "open"
    /\ client' = resync(client)
    /\ ClientStep /\ NoFault

(* The stale watchdog: no message within staleAfterMs of the open event or  *)
(* of the last message, because the socket is dead or the home is quiet.    *)
StaleTimesOut ==
    /\ client.socket \in {"half", "open"}
    /\ client' = resync(client)
    /\ ClientStep /\ NoFault

(* The service restarts: the store stays, the bus and what was running do   *)
(* not.  Decisions not acknowledged are published again.                    *)
Restart ==
    /\ Fault
    /\ events' = <<>> /\ worker' = Idle
    /\ announced' = {}
    /\ client' = [client EXCEPT
                    !.fresh = FALSE, !.hydration.fresh = FALSE,
                    !.hydration.stage = IF @ \in {"devices", "policies"} THEN "lost" ELSE @,
                    !.socket = IF @ \in {"connecting", "open"} THEN "lost" ELSE @]
    /\ UNCHANGED <<storeVars, inputs>>

-----------------------------------------------------------------------------
Init ==
    /\ discovered = [d \in Devices |-> "none"]
    /\ control = [d \in Devices |-> "none"]
    /\ published = [d \in Devices |-> "none"]
    /\ outbox = [d \in Devices |-> "none"] /\ announced = {}
    /\ worker = Idle /\ events = <<>>
    /\ client = [stopped |-> TRUE, hydration |-> NoHydration, pendingHydration |-> FALSE,
                 retryTimer |-> FALSE, socket |-> "none", unclosed |-> 0, sequence |-> 0,
                 view |-> NoView, connected |-> FALSE, needsResync |-> FALSE, fresh |-> FALSE]
    /\ inputs = 0 /\ faults = 0

Service ==
    \/ CheckControl \/ PublishPresence
    \/ \E d \in Devices : PrepareDecision(d) \/ PublishDecision(d) \/ AcknowledgeDecision(d)

Answers ==
    \/ ReadWatermark \/ ReadDevices \/ ReadPending \/ ReadPublished
    \/ PageArrives \/ RequestSettles \/ TicketArrives
Stream == SocketOpens \/ EventArrives \/ ResyncArrives \/ SocketCloses
Timers ==
    \/ RetryFires
    \/ client.socket = "mute" /\ OpenTimesOut
    \/ StaleTimesOut

Next ==
    \/ \E d \in Devices, to \in Presences : CommitDiscovery(d, to)
    \/ \E d \in Devices : RecordControl(d)
    \/ Service \/ Answers \/ Stream
    \/ RetryFires \/ OpenTimesOut \/ StaleTimesOut
    \/ start \/ stop \/ RequestFails \/ SocketDies \/ Restart

(* Requests carry a timeout, timers fire, and the service's tasks go on.    *)
Fairness == WF_vars(Service) /\ WF_vars(Answers) /\ WF_vars(Stream) /\ WF_vars(Timers)

Spec == Init /\ [][Next]_vars /\ Fairness

-----------------------------------------------------------------------------
Stages == {"none", "watermark", "devices", "policies", "response", "ticket", "aborted", "lost"}
Sockets == {"none", "connecting", "open", "mute", "half", "lost"}
EventSet ==
    [kind : {"presence_changed"}, device : Devices, to : {"unknown", "online"}]
        \cup [kind : {"policy_changed"}, device : Devices, to : {"block", "release"}]

(* The variables have the shapes the code declares for them.                *)
TypeOK ==
    /\ discovered \in [Devices -> {"none", "unknown", "online"}]
    /\ control \in [Devices -> {"none", "blocked", "released"}]
    /\ published \in [Devices -> {"none", "block", "release"}]
    /\ outbox \in [Devices -> {"none", "block", "release"}]
    /\ announced \subseteq {d \in Devices : outbox[d] # "none"}
    /\ worker.stage \in {"idle", "check", "publish"} /\ worker.device \in Devices \cup {0}
    /\ worker.to \in {"none", "unknown", "online"}
    /\ events \in Seq(EventSet)
    /\ client.hydration.stage \in Stages /\ client.socket \in Sockets
    /\ client.view \in [Devices -> Presences] /\ client.sequence \in Nat
    /\ client.unclosed \in Nat
    /\ inputs \in 0..MaxInputs /\ faults \in 0..MaxFaults

(* A connection that was started is always about to do something: it has a  *)
(* hydration of the current generation in flight (or one waiting for the    *)
(* outdated one to settle), a socket, or a retry timer; a stopped one has   *)
(* none of these.                                                           *)
NeverStranded ==
    LET alive == \/ client.hydration.current
                 \/ hydrating(client) /\ client.pendingHydration
                 \/ client.socket # "none" \/ client.retryTimer
    IN  client.stopped = ~alive

(* The client never has two event sockets, nor one it has lost track of,    *)
(* nor a hydration that would open a second one, however stop, start and    *)
(* late answers interleave.                                                 *)
OneStream ==
    /\ client.unclosed = (IF client.socket = "none" THEN 0 ELSE 1)
    /\ client.socket # "none" => ~hydrating(client) /\ ~client.retryTimer
    /\ client.connected => client.socket \in {"open", "half", "lost"}

Published == worker.stage = "idle" /\ \A d \in Devices : PolicySettled(d)
CaughtUp == client.socket = "open" /\ client.sequence = Len(events)

(* A watermark read before the store hides no block: once the service has   *)
(* published what it decided, a client that has followed the stream from    *)
(* its snapshot shows every device under a verified block as blocked, and   *)
(* the discovery state of the devices control never touched, whatever       *)
(* committed while the pages were read.  A device without a presence        *)
(* transition yet may be missing.  fresh leaves out a restart between the   *)
(* snapshot and the socket: EventuallyCurrent covers it.                    *)
BlockIsNeverHidden ==
    Published /\ CaughtUp /\ client.fresh =>
        \A d \in Devices :
            /\ control[d] = "blocked" => client.view[d] = "blocked"
            /\ control[d] = "none" =>
                   \/ client.view[d] = discovered[d]
                   \/ client.view[d] = "none" /\ discovered[d] = "unknown"

ShowsStore ==
    \A d \in Devices :
        /\ (client.view[d] = "blocked") = (control[d] = "blocked")
        /\ control[d] = "none" => client.view[d] = discovered[d]

(* Once commits and faults are over, a started client comes to show what is *)
(* stored and goes on showing it: what the two decision queries tore apart, *)
(* what a restart renumbered or lost from the bus, is repaired by the next  *)
(* snapshot, which the stale watchdog asks for in a home gone quiet.        *)
EventuallyCurrent == <>[](client.stopped \/ ShowsStore)

(* Once the faults are over a started client is connected and up to date    *)
(* again and again; between two such times the watchdog of a quiet home     *)
(* takes it through another snapshot.                                       *)
EventuallyCaughtUp == []<>(client.stopped \/ CaughtUp)

-----------------------------------------------------------------------------
(* What snapshot_watermark's comment claims and the code does not do: "a    *)
(* duplicate but never hiding a durable update" (api.rs:628-630).  It is    *)
(* false of a release: its event is on the bus before the watermark, the    *)
(* published query reads the old block, the acknowledgement commits, the    *)
(* pending query reads nothing.  The device is shown blocked and the event  *)
(* is not replayed.  See the README.                                        *)
ReleaseIsNeverHidden ==
    Published /\ CaughtUp /\ client.fresh =>
        \A d \in Devices : control[d] # "blocked" => client.view[d] # "blocked"
====
