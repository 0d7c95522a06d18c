------------------------- MODULE SnapshotPublisher -------------------------
(***************************************************************************)
(* engine/snapshot-publisher: every visible change of the world asks for a *)
(* publication.  Requests are gathered for a moment (a debounce timer),    *)
(* then the newest snapshot is posted to the relay.  A failed post is      *)
(* retried with back-off until retryMaxAttempts posts in a row failed;     *)
(* then the publisher gives up until it is asked again.                    *)
(*                                                                         *)
(* Operators take the publisher's fields to its fields after one run of    *)
(* the event loop.  The post itself is the variable post: the snapshot an  *)
(* awaited fetch carries, or None.                                         *)
(***************************************************************************)
EXTENDS Clock

CONSTANT
  RetryMaxAttempts  \* failed posts in a row after which the publisher gives up

ASSUME RetryMaxAttemptsAssumption == RetryMaxAttempts \in Nat \ {0}

VARIABLES
  publisher,        \* the fields of SnapshotPublisher
  world,            \* how many changes the visible world has seen
  shutdownSnapshot, \* the world dispose() froze, or None
  post,             \* the snapshot under way to the relay, or None
  served            \* the world of the last post that succeeded (auxiliary)

publisherVars == <<publisher, world, shutdownSnapshot, post, served>>

WorldSnapshot == [world : Nat, generated_at : Nat]

\* inFlight tells whose promise inFlightPromise holds: that of publishLoop,
\* of the last post of dispose, or one that is over and was never cleared.
PublisherFields ==
  [timer : {"none", "debounce", "retry"},
   inFlight : {"none", "loop", "final", "settled"},
   dirty : BOOLEAN, disposed : BOOLEAN, gaveUp : BOOLEAN,
   consecutiveFailures : 0 .. RetryMaxAttempts]

newPublisher ==
  [timer |-> "none", inFlight |-> "none", dirty |-> FALSE, disposed |-> FALSE,
   gaveUp |-> FALSE, consecutiveFailures |-> 0]

schedule(p, kind) ==
  IF p.disposed \/ p.gaveUp THEN p ELSE [p EXCEPT !.timer = kind]

\* Slip: a request during a post is left to the post.
requestPublishUnlessPosting(p) ==
  IF p.disposed \/ p.inFlight # "none" THEN p
  ELSE schedule([p EXCEPT !.dirty = TRUE, !.gaveUp = FALSE], "debounce")

requestPublish(p) ==
  LET asked == [p EXCEPT
        !.dirty = TRUE, !.gaveUp = FALSE,
        !.consecutiveFailures = IF p.gaveUp THEN 0 ELSE @]
  IN  IF p.disposed THEN p
      ELSE IF p.inFlight # "none" \/ p.timer = "retry" THEN asked
      ELSE schedule(asked, "debounce")

loopGoesOn(p) == ~p.disposed /\ p.dirty /\ ~p.gaveUp

\* Slip: the timer set for a retry is replaced by one for the requests
\* that came in meanwhile, which are then taken for served.
endLoopForgetful(p) == [p EXCEPT !.inFlight = "none", !.dirty = FALSE]

\* The finally block of publishLoop.
endLoop(p) ==
  LET ended == [p EXCEPT !.inFlight = "none"]
  IN  IF loopGoesOn(ended) /\ ended.timer = "none"
      THEN schedule(ended, "debounce") ELSE ended

\* The while loop takes the requests there are, and posts.
continueLoop(p) ==
  IF loopGoesOn(p) THEN [p EXCEPT !.dirty = FALSE] ELSE endLoop(p)

\* The callback of the timer.  A loop with nothing to do would end, and clear
\* inFlightPromise, before its promise is assigned to it.
fireTimer(p) ==
  LET fired == [p EXCEPT !.timer = "none"]
  IN  IF p.inFlight # "none" THEN fired
      ELSE IF loopGoesOn(fired)
      THEN continueLoop([fired EXCEPT !.inFlight = "loop"])
      ELSE [fired EXCEPT !.inFlight = "settled"]

publishSucceeded(p) ==
  IF p.inFlight = "final"
  THEN [p EXCEPT !.inFlight = "none", !.consecutiveFailures = 0]
  ELSE continueLoop([p EXCEPT !.consecutiveFailures = 0])

publishFailed(p) ==
  LET attempt == p.consecutiveFailures + 1
      failed == [p EXCEPT !.consecutiveFailures = attempt]
  IN  IF p.inFlight = "final" THEN [p EXCEPT !.inFlight = "none"]
      ELSE IF attempt >= RetryMaxAttempts
      THEN endLoop([failed EXCEPT !.gaveUp = TRUE])
      ELSE endLoop(schedule([failed EXCEPT !.dirty = TRUE], "retry"))

\* Waiting for the promise, for a limited time, changes nothing.
dispose(p) ==
  LET disposed == [p EXCEPT !.disposed = TRUE, !.timer = "none"]
  IN  IF p.dirty /\ ~p.gaveUp /\ p.inFlight = "none"
      THEN [disposed EXCEPT !.inFlight = "final", !.dirty = FALSE]
      ELSE disposed

Posting(p) == p.inFlight \in {"loop", "final"}

\* getSnapshot: the world as it is, or as it was when dispose() was called.
buildSnapshot(w, frozen) ==
  [world |-> IF frozen = None THEN w ELSE frozen, generated_at |-> now]

(***************************************************************************)
(* The steps of the server, but for what becomes of the post.              *)
(***************************************************************************)
InitPublisher ==
  /\ publisher = requestPublish(newPublisher)
  /\ world = 0
  /\ shutdownSnapshot = None
  /\ post = None
  /\ served = None
  /\ now = 1

\* The publisher steps to p; the snapshot of a new post is taken in the step.
PublisherBecomes(p, w, frozen, posts) ==
  /\ publisher' = p
  /\ world' = w
  /\ shutdownSnapshot' = frozen
  /\ post' = IF posts THEN buildSnapshot(w, frozen)
             ELSE IF Posting(p) THEN post ELSE None

\* A trigger event is emitted, or the weather changes.  Events go on until
\* the process ends, also once it is being disposed.
WorldChanges ==
  /\ PublisherBecomes(requestPublish(publisher), world + 1, shutdownSnapshot, FALSE)
  /\ UNCHANGED <<served, now>>

PublisherTimerFires ==
  /\ publisher.timer # "none"
  /\ PublisherBecomes(fireTimer(publisher), world, shutdownSnapshot,
                      Posting(fireTimer(publisher)) /\ ~Posting(publisher))
  /\ UNCHANGED <<served, now>>

\* The fetch of a post is answered with success, or fails, a while later.
PostSucceeds ==
  /\ Posting(publisher) /\ post.generated_at < now
  /\ PublisherBecomes(publishSucceeded(publisher), world, shutdownSnapshot,
                      Posting(publishSucceeded(publisher)))
  /\ served' = post.world

PostFails ==
  /\ Posting(publisher) /\ post.generated_at < now
  /\ PublisherBecomes(publishFailed(publisher), world, shutdownSnapshot, FALSE)
  /\ UNCHANGED served

ServerIsDisposed ==
  /\ ~publisher.disposed
  /\ PublisherBecomes(dispose(publisher), world, world,
                      Posting(dispose(publisher)) /\ ~Posting(publisher))
  /\ UNCHANGED <<served, now>>

\* The process is killed and started again: a new publisher asks at once.
ServerRestarts ==
  /\ PublisherBecomes(requestPublish(newPublisher), world + 1, None, FALSE)
  /\ Tick
  /\ UNCHANGED served

PublisherNext ==
  \/ WorldChanges \/ PublisherTimerFires \/ ServerIsDisposed \/ ServerRestarts
  \/ (PostSucceeds \/ PostFails) /\ UNCHANGED now
  \/ Tick /\ UNCHANGED publisherVars

PublisherSpec == InitPublisher /\ [][PublisherNext]_<<publisherVars, now>>

PublisherTypeOK ==
  /\ publisher \in PublisherFields
  /\ world \in Nat /\ now \in Nat
  /\ {shutdownSnapshot, served} \subseteq Nat \cup {None}
  /\ post \in WorldSnapshot \cup {None}

\* What is asked for is going to be published: while the publisher neither
\* gave up nor is disposed, a request that no post carries is waited for by a
\* timer, or taken up by the loop that awaits a post; and inFlightPromise never
\* keeps a promise that is over, behind which no request would be heard again.
RequestsAreTakenUp ==
  /\ publisher.inFlight # "settled"
  /\ publisher.dirty /\ ~publisher.gaveUp /\ ~publisher.disposed =>
       publisher.timer # "none" \/ publisher.inFlight = "loop"
  /\ publisher.timer # "none" =>
       publisher.dirty /\ ~publisher.gaveUp /\ publisher.inFlight = "none"

\* When the publisher has nothing left to do, the relay has answered for the
\* world as it is; and a loop that was not asked again posts that world.
QuietMeansServed ==
  ~publisher.dirty /\ ~publisher.gaveUp /\ ~publisher.disposed =>
    IF publisher.inFlight = "loop" THEN post.world = world ELSE served = world
============================================================================
