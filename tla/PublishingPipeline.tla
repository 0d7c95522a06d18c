------------------------- MODULE PublishingPipeline -------------------------
(***************************************************************************)
(* The way of a snapshot from the world to the published object: the       *)
(* SnapshotPublisher of the server posts it to the RelayBridge, which      *)
(* writes it to the object store.                                          *)
(*                                                                         *)
(* A post may be lost, answered with an error, or be given up after its    *)
(* request timeout while the relay still works on it; a write may fail;    *)
(* the relay may be evicted at any moment and the server killed.  Their    *)
(* number is bounded by MaxFaults.                                         *)
(***************************************************************************)
EXTENDS SnapshotPublisher, RelayBridge, FiniteSets

CONSTANTS
  MaxWorld,        \* bound: changes of the world
  MaxFaults,       \* bound: faults
  Faults           \* the kinds of fault an instance allows

VARIABLES
  transit,         \* posts on their way to the relay
  faults,          \* faults so far
  overtaken,       \* a snapshot came in while an older one was being written,
  forgotten        \* an eviction ended a write nobody waited for any more: its
                   \* post was answered with 204 already (auxiliary)

relayVars == <<relay, object>>
auxVars == <<overtaken, forgotten>>
vars == <<publisherVars, relayVars, transit, faults, auxVars, now>>

Post(by, body) == [by |-> by, body |-> body]

Init ==
  /\ InitPublisher
  /\ relay = createBridgeState
  /\ object = None
  /\ transit = {}
  /\ faults = 0
  /\ overtaken = FALSE /\ forgotten = FALSE

(***************************************************************************)
(* The server.  A new post sets out in the step that makes it.             *)
(***************************************************************************)
SendPost(waiting) ==
  transit' = IF Posting(publisher') THEN waiting \cup {Post("server", post')} ELSE waiting

PostSetsOut ==
  /\ IF Posting(publisher) THEN UNCHANGED transit ELSE SendPost(transit)
  /\ UNCHANGED <<relayVars, auxVars>>

\* Faults, and the stop of the server, are bounded together.
Fault(kind) ==
  /\ kind \in Faults
  /\ faults < MaxFaults
  /\ faults' = faults + 1

ServerChanges == world < MaxWorld /\ WorldChanges /\ PostSetsOut /\ UNCHANGED faults
ServerTimerFires == PublisherTimerFires /\ PostSetsOut /\ UNCHANGED faults
ServerIsStopped == Fault("dispose") /\ ServerIsDisposed /\ PostSetsOut

\* The relay, or its caller, goes on without the server waiting for it.
Abandon(waiting) == {Post("nobody", m.body) : m \in waiting}

AbandonPut(r) ==
  IF r.put # None /\ r.put.by = "server" THEN [r EXCEPT !.put.by = "nobody"] ELSE r

\* The fetch is aborted after requestTimeoutMs.
PostTimesOut ==
  /\ Fault("timeout")
  /\ PostFails
  /\ transit' = Abandon(transit)
  /\ relay' = AbandonPut(relay)
  /\ UNCHANGED <<object, auxVars, now>>

\* A post is lost on its way, or refused before it changed anything.
PostIsLost ==
  /\ Fault("loss")
  /\ \E m \in transit :
       /\ transit' = transit \ {m}
       /\ IF m.by = "server" THEN PostFails ELSE UNCHANGED publisherVars
  /\ UNCHANGED <<relayVars, auxVars, now>>

ServerIsKilled ==
  /\ Fault("kill")
  /\ world < MaxWorld
  /\ ServerRestarts
  /\ transit' = Abandon(transit)
  /\ relay' = AbandonPut(relay)
  /\ UNCHANGED <<object, auxVars>>

(***************************************************************************)
(* The relay.  The server hears of its post when the call returns.         *)
(***************************************************************************)
Answer(by, ok, waiting) ==
  IF by = "server"
  THEN /\ IF ok THEN PostSucceeds ELSE PostFails
       /\ SendPost(waiting)
  ELSE transit' = waiting /\ UNCHANGED publisherVars

RelayReceives ==
  \E m \in transit :
    LET applied == applySnapshot(relay, m.body)
    IN  /\ relay' = receiveSnapshot(relay, m.body, m.by)
        /\ overtaken' = (overtaken \/ (relay.put # None /\ applied # relay))
        /\ IF relay.put # None THEN Answer(m.by, TRUE, transit \ {m})
           ELSE IF isPublishBackoffActive(applied) THEN Answer(m.by, FALSE, transit \ {m})
           ELSE transit' = transit \ {m} /\ UNCHANGED publisherVars
        /\ UNCHANGED <<object, faults, forgotten, now>>

\* The relay goes on as r; the caller is answered unless it publishes again.
PutEnds(r, ok) ==
  /\ relay' = r
  /\ IF r.put # None THEN UNCHANGED <<publisherVars, transit>>
     ELSE Answer(relay.put.by, AnsweredWell(relay, ok), transit)
  /\ UNCHANGED <<auxVars, now>>

PutSucceeds ==
  /\ relay.put # None
  /\ object' = relay.put.snapshot
  /\ PutEnds(putSucceeded(relay), TRUE)
  /\ UNCHANGED faults

PutFails ==
  /\ Fault("put")
  /\ relay.put # None
  /\ PutEnds(putFailed(relay), FALSE)
  /\ UNCHANGED object

RelayAlarmRings ==
  /\ relay.alarm # None /\ relay.alarm <= now
  /\ relay' = alarm(relay)
  /\ UNCHANGED <<publisherVars, transit, object, faults, auxVars, now>>

\* A write that was in flight may or may not have reached the object store.
RelayIsEvicted ==
  /\ Fault("evict")
  /\ relay' = boot(relay)
  /\ object' \in {object} \cup IF relay.put = None THEN {} ELSE {relay.put.snapshot}
  /\ transit' = transit
  /\ IF relay.put # None /\ relay.put.by = "server" THEN PostFails
     ELSE UNCHANGED publisherVars
  /\ forgotten' =
       \/ forgotten \/ relay.publish_queued
       \/ /\ relay.put # None
          /\ relay.put.by = "nobody" \/ (relay.put.by = "alarm" /\ overtaken)
  /\ UNCHANGED <<overtaken, now>>

(***************************************************************************)
(* Time passes when something waits for it: the answer to a post, which    *)
(* takes at least a millisecond, or an alarm.                              *)
(***************************************************************************)
ClockTicks ==
  /\ \/ Posting(publisher) /\ post.generated_at = now
     \/ relay.alarm # None /\ relay.alarm > now
  /\ Tick
  /\ UNCHANGED <<publisherVars, relayVars, transit, faults, auxVars>>

\* What goes on by itself, without faults and without the world's doing.
Work == ServerTimerFires \/ RelayReceives \/ PutSucceeds \/ RelayAlarmRings \/ ClockTicks

Next ==
  \/ Work
  \/ ServerChanges \/ ServerIsStopped \/ PostTimesOut \/ PostIsLost \/ ServerIsKilled
  \/ PutFails \/ RelayIsEvicted

Spec == Init /\ [][Next]_vars

(***************************************************************************)
(* Fairness.  Node and the platform run due timers and alarms, and a call  *)
(* ends with an answer or an error: the system does not stand still while  *)
(* one of these can happen.  Nothing is assumed of changes and faults.     *)
(***************************************************************************)
FairSpec == Spec /\ WF_vars(Work)

(***************************************************************************)
(* Safety.                                                                 *)
(***************************************************************************)
\* A failed publication is not forgotten: while the object is older than the
\* relay's newest snapshot, a write is in flight, the alarm is set for one, or
\* the server was told (or not told yet) and asks again until it gives up --
\* but for a write nobody waited for when the relay was evicted.
UnpublishedIsRetried ==
  relay.latest_snapshot # None
    /\ (object = None \/ object.generated_at < relay.latest_snapshot.generated_at)
  => \/ relay.put # None
     \/ relay.publish_alarm_at # None /\ relay.alarm = relay.publish_alarm_at
     \/ publisher.dirty \/ Posting(publisher) \/ publisher.gaveUp \/ publisher.disposed \/ forgotten

\* What is durable follows what is kept in memory whenever no write is in
\* flight: a relay evicted then boots with the snapshot and the retry it had.
EvictionForgetsNothing ==
  relay.put = None /\ relay.latest_snapshot # None =>
    /\ relay.disk = Persisted(relay)
    /\ boot(relay) = relay

(***************************************************************************)
(* Steps.                                                                  *)
(***************************************************************************)
\* The store and the relay implement what spectators rely on: the object never
\* becomes older, through retries, evictions in the middle of a write,
\* abandoned posts and posts that arrive late.
Promised == INSTANCE PublishedObject
ImplementsPublishedObject == Promised!ObjectSpec

\* docs/design/detailed/13-ui-relay-backend.md: a snapshot older than the one
\* the relay has is discarded.
RelayKeepsTheNewest ==
  [][relay.latest_snapshot # None =>
       ~Promised!OlderVersion(relay.latest_snapshot', relay.latest_snapshot)]_vars

(***************************************************************************)
(* Liveness.                                                               *)
(***************************************************************************)
\* A change of the world reaches the published object, unless the server gave
\* up or stopped, one snapshot overtook another, or an eviction ended a write.
ChangesArePublished ==
  []<>(\/ object # None /\ object.world >= world
       \/ publisher.gaveUp \/ publisher.disposed \/ overtaken \/ forgotten)
============================================================================
