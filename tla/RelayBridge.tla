---------------------------- MODULE RelayBridge ----------------------------
(***************************************************************************)
(* worker/relay/bridge: the one Durable Object that publishes what the     *)
(* server posts.  It keeps the newest snapshot, writes it to an object of  *)
(* the object store (R2) that spectators read, and retries a failed write  *)
(* at an alarm.  What it keeps survives in its storage when it is evicted. *)
(*                                                                         *)
(* The platform closes the input gate while the storage of the Durable     *)
(* Object is read or written, so that nothing else runs meanwhile: a step  *)
(* goes from one await of the object store, or of a request, to the next.  *)
(***************************************************************************)
EXTENDS Clock, FiniteSetsExt

CONSTANTS
  RetryBase,       \* PUBLISH_RETRY_BASE_MS, in ticks of the clock
  BackoffMax       \* PUBLISH_BACKOFF_MAX_MS, in ticks of the clock

ASSUME BackoffAssumption == RetryBase \in Nat \ {0} /\ BackoffMax \in Nat \ {0}

VARIABLES
  relay,           \* BridgeState and what the Durable Object's storage holds
  object           \* the snapshot in the object store, or None

SpectatorSnapshot ==
  [world : Nat, generated_at : Nat, published_at : Nat, last_publish_error_at : Nat]

\* A publication in flight, and for whom: the server, a caller it no longer
\* waits for, the alarm.
Callers == {"server", "nobody", "alarm"}
Publication == [snapshot : SpectatorSnapshot, by : Callers]

ASSUME SnapshotAssumption ==
  None \notin SpectatorSnapshot /\ None \notin Publication

\* PersistedRuntimeState
Persisted(r) ==
  [latest_snapshot |-> r.latest_snapshot, last_publish_at |-> r.last_publish_at,
   publish_alarm_at |-> r.publish_alarm_at,
   last_publish_error_at |-> r.last_publish_error_at,
   publish_failure_streak |-> r.publish_failure_streak]

BridgeState(persisted, alarm) ==
  [latest_snapshot |-> persisted.latest_snapshot,
   last_publish_at |-> persisted.last_publish_at,
   publish_alarm_at |-> persisted.publish_alarm_at,
   last_publish_error_at |-> persisted.last_publish_error_at,
   publish_failure_streak |-> persisted.publish_failure_streak,
   put |-> None,             \* the publication in flight, and for whom
   publish_queued |-> FALSE,
   disk |-> persisted,       \* storage: relay:runtime-state
   alarm |-> alarm]          \* storage: the alarm that is set

createBridgeState ==
  BridgeState([latest_snapshot |-> None, last_publish_at |-> 0,
               publish_alarm_at |-> None, last_publish_error_at |-> 0,
               publish_failure_streak |-> 0], None)

calculateBackoff(streak) ==
  Min({RetryBase * 2 ^ (IF streak > 1 THEN streak - 1 ELSE 0), BackoffMax})

persistRuntimeState(r) ==
  IF r.latest_snapshot = None THEN r ELSE [r EXCEPT !.disk = Persisted(r)]

rescheduleAlarm(r) ==
  IF r.publish_alarm_at = None THEN r ELSE [r EXCEPT !.alarm = r.publish_alarm_at]

isPublishBackoffActive(r) ==
  r.publish_alarm_at # None /\ r.publish_alarm_at > now

\* A snapshot as spectators get it; 0 for a time that is not set.
buildSpectatorSnapshot(r, body) ==
  [world |-> body.world, generated_at |-> body.generated_at,
   published_at |-> r.last_publish_at,
   last_publish_error_at |-> r.last_publish_error_at]

\* Slip: whatever comes last is the newest.
applyAnySnapshot(r, body) ==
  persistRuntimeState([r EXCEPT !.latest_snapshot = buildSpectatorSnapshot(r, body)])

applySnapshot(r, body) ==
  IF r.latest_snapshot # None /\ body.generated_at < r.latest_snapshot.generated_at
  THEN r
  ELSE persistRuntimeState(
         [r EXCEPT !.latest_snapshot = buildSpectatorSnapshot(r, body)])

\* publishLatestSnapshot up to its first wait for the object store.  "by" is
\* the caller: the server, an earlier call it no longer waits for, the alarm.
publishLatestSnapshot(r, by) ==
  IF r.put # None THEN [r EXCEPT !.publish_queued = TRUE]
  ELSE IF r.latest_snapshot = None THEN [r EXCEPT !.publish_alarm_at = None]
  ELSE IF isPublishBackoffActive(r) THEN rescheduleAlarm(persistRuntimeState(r))
  ELSE [r EXCEPT !.put =
         [snapshot |-> [r.latest_snapshot EXCEPT !.published_at = now], by |-> by]]

\* What is left of it when the object store answered: publish again if that
\* was asked for meanwhile, else save and set the alarm.
afterPut(r) ==
  LET done == [r EXCEPT !.put = None, !.publish_queued = FALSE]
  IN  IF r.publish_queued THEN publishLatestSnapshot(done, r.put.by)
      ELSE rescheduleAlarm(persistRuntimeState(done))

putSucceeded(r) ==
  afterPut([r EXCEPT !.latest_snapshot = r.put.snapshot,
                     !.last_publish_at = r.put.snapshot.published_at,
                     !.last_publish_error_at = 0, !.publish_alarm_at = None,
                     !.publish_failure_streak = 0])

\* Slip: a failed publication is not tried again.
putFailedForGood(r) ==
  afterPut([r EXCEPT !.publish_failure_streak = @ + 1,
                     !.last_publish_error_at = r.put.snapshot.published_at])

putFailed(r) ==
  LET streak == r.publish_failure_streak + 1
  IN  afterPut([r EXCEPT
        !.publish_failure_streak = streak,
        !.last_publish_error_at = r.put.snapshot.published_at,
        !.publish_alarm_at = r.put.snapshot.published_at + calculateBackoff(streak)])

\* POST /api/publish-snapshot, once its body is read and valid.
receiveSnapshot(r, body, by) == publishLatestSnapshot(applySnapshot(r, body), by)

\* The call a publication was made for is answered when none is in flight any
\* more: 204 unless it failed, or the one queued behind it is held back.
AnsweredWell(r, ok) == ok /\ ~r.publish_queued

alarm(r) ==
  LET rung == [r EXCEPT !.alarm = None]
  IN  rescheduleAlarm(
        IF r.publish_alarm_at # None /\ r.publish_alarm_at <= now
        THEN publishLatestSnapshot([rung EXCEPT !.publish_alarm_at = None], "alarm")
        ELSE rung)

\* Slip: the alarm is taken to survive by itself.
bootWithoutAlarm(r) == BridgeState(r.disk, None)

\* The Durable Object is evicted or crashes, and boots at its next call.
boot(r) == rescheduleAlarm(BridgeState(r.disk, r.alarm))
============================================================================
