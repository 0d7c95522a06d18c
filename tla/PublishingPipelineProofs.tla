---------------------- MODULE PublishingPipelineProofs ----------------------
(***************************************************************************)
(* The way of a snapshot, for every bound and every run of faults: the     *)
(* publisher's requests are taken up and a quiet one has been answered for *)
(* the world as it is; the server of the pipeline is the publisher, and    *)
(* the published object never becomes older.                               *)
(***************************************************************************)
EXTENDS PublishingPipeline, TLAPS

(***************************************************************************)
(* The publisher of snapshots.                                             *)
(***************************************************************************)
\* What the two properties rest on: the failures in a row stay below the limit
\* until the publisher gives up, a loop runs only while it did not, a post is
\* there while one is awaited, no timer runs once it is disposed, and the world
\* is frozen by dispose() only.
PublisherIInv ==
  /\ PublisherTypeOK
  /\ RequestsAreTakenUp
  /\ QuietMeansServed
  /\ ~publisher.gaveUp => publisher.consecutiveFailures < RetryMaxAttempts
  /\ publisher.inFlight = "loop" => ~publisher.gaveUp
  /\ Posting(publisher) => post \in WorldSnapshot
  /\ publisher.disposed => publisher.timer = "none"
  /\ ~publisher.disposed => shutdownSnapshot = None /\ publisher.inFlight # "final"

\* q is the publisher with these fields.
FieldsAre(q, timer, inFlight, dirty, disposed, gaveUp, failures) ==
  /\ q \in PublisherFields
  /\ q.timer = timer /\ q.inFlight = inFlight /\ q.dirty = dirty
  /\ q.disposed = disposed /\ q.gaveUp = gaveUp
  /\ q.consecutiveFailures = failures

\* The fields of a publisher have the types they are declared with.
LEMMA PublisherHasFields ==
  ASSUME NEW p \in PublisherFields
  PROVE  /\ p.timer \in {"none", "debounce", "retry"}
         /\ p.inFlight \in {"none", "loop", "final", "settled"}
         /\ p.dirty \in BOOLEAN /\ p.disposed \in BOOLEAN /\ p.gaveUp \in BOOLEAN
         /\ p.consecutiveFailures \in Nat
         /\ p.consecutiveFailures <= RetryMaxAttempts
BY RetryMaxAttemptsAssumption DEF PublisherFields

\* A field is set, the others stay: the timer,
LEMMA TimerSet ==
  ASSUME NEW p \in PublisherFields, NEW t \in {"none", "debounce", "retry"}
  PROVE  FieldsAre([p EXCEPT !.timer = t],
                   t, p.inFlight, p.dirty,
                   p.disposed, p.gaveUp, p.consecutiveFailures)
BY DEF FieldsAre, PublisherFields

\* the promise,
LEMMA InFlightSet ==
  ASSUME NEW p \in PublisherFields, NEW i \in {"none", "loop", "final", "settled"}
  PROVE  FieldsAre([p EXCEPT !.inFlight = i],
                   p.timer, i, p.dirty,
                   p.disposed, p.gaveUp, p.consecutiveFailures)
BY DEF FieldsAre, PublisherFields

\* whether there are requests,
LEMMA DirtySet ==
  ASSUME NEW p \in PublisherFields, NEW b \in BOOLEAN
  PROVE  FieldsAre([p EXCEPT !.dirty = b],
                   p.timer, p.inFlight, b,
                   p.disposed, p.gaveUp, p.consecutiveFailures)
BY DEF FieldsAre, PublisherFields

\* whether it gave up,
LEMMA GaveUpSet ==
  ASSUME NEW p \in PublisherFields, NEW g \in BOOLEAN
  PROVE  FieldsAre([p EXCEPT !.gaveUp = g],
                   p.timer, p.inFlight, p.dirty,
                   p.disposed, g, p.consecutiveFailures)
BY DEF FieldsAre, PublisherFields

\* the failures in a row,
LEMMA FailuresSet ==
  ASSUME NEW p \in PublisherFields, NEW c \in 0 .. RetryMaxAttempts
  PROVE  FieldsAre([p EXCEPT !.consecutiveFailures = c],
                   p.timer, p.inFlight, p.dirty,
                   p.disposed, p.gaveUp, c)
BY DEF FieldsAre, PublisherFields

\* the promise with the failures,
LEMMA EndedSet ==
  ASSUME NEW p \in PublisherFields, NEW i \in {"none", "loop", "final", "settled"}, NEW c \in 0 .. RetryMaxAttempts
  PROVE  FieldsAre([p EXCEPT !.inFlight = i, !.consecutiveFailures = c],
                   p.timer, i, p.dirty,
                   p.disposed, p.gaveUp, c)
BY DEF FieldsAre, PublisherFields

\* the promise with the requests,
LEMMA FinalSet ==
  ASSUME NEW p \in PublisherFields, NEW i \in {"none", "loop", "final", "settled"}, NEW b \in BOOLEAN
  PROVE  FieldsAre([p EXCEPT !.inFlight = i, !.dirty = b],
                   p.timer, i, b,
                   p.disposed, p.gaveUp, p.consecutiveFailures)
BY DEF FieldsAre, PublisherFields

\* the stop with the timer,
LEMMA DisposedSet ==
  ASSUME NEW p \in PublisherFields, NEW b \in BOOLEAN, NEW t \in {"none", "debounce", "retry"}
  PROVE  FieldsAre([p EXCEPT !.disposed = b, !.timer = t],
                   t, p.inFlight, p.dirty,
                   b, p.gaveUp, p.consecutiveFailures)
BY DEF FieldsAre, PublisherFields

\* and what a request sets.
LEMMA AskedSet ==
  ASSUME NEW p \in PublisherFields, NEW b \in BOOLEAN, NEW g \in BOOLEAN, NEW c \in 0 .. RetryMaxAttempts
  PROVE  FieldsAre([p EXCEPT !.dirty = b, !.gaveUp = g, !.consecutiveFailures = c],
                   p.timer, p.inFlight, b,
                   p.disposed, g, c)
BY DEF FieldsAre, PublisherFields

\* A timer is set unless the publisher is disposed or gave up.
LEMMA ScheduleLemma ==
  ASSUME NEW p \in PublisherFields, NEW t \in {"debounce", "retry"}
  PROVE  FieldsAre(schedule(p, t),
                   IF p.disposed \/ p.gaveUp THEN p.timer ELSE t,
                   p.inFlight, p.dirty,
                   p.disposed, p.gaveUp, p.consecutiveFailures)
<1>1. CASE p.disposed \/ p.gaveUp
  BY <1>1 DEF schedule, FieldsAre
<1>2. CASE ~(p.disposed \/ p.gaveUp)
  BY <1>2, TimerSet DEF schedule
<1> QED
  BY <1>1, <1>2

\* A request is noted; one that comes after the publisher gave up begins anew.
LEMMA RequestLemma ==
  ASSUME NEW p \in PublisherFields, ~p.disposed,
         NEW q, q = requestPublish(p)
  PROVE  /\ FieldsAre(q, q.timer, p.inFlight, TRUE, p.disposed, FALSE,
                      q.consecutiveFailures)
         /\ q.consecutiveFailures =
              IF p.gaveUp THEN 0 ELSE p.consecutiveFailures
         /\ q.timer = IF p.inFlight # "none" \/ p.timer = "retry"
                      THEN p.timer ELSE "debounce"
<1> DEFINE c == IF p.gaveUp THEN 0 ELSE p.consecutiveFailures
           asked == [p EXCEPT !.dirty = TRUE, !.gaveUp = FALSE,
                              !.consecutiveFailures = c]
<1>1. c \in 0 .. RetryMaxAttempts
  BY RetryMaxAttemptsAssumption DEF PublisherFields
<1>2. FieldsAre(asked, p.timer, p.inFlight, TRUE, p.disposed, FALSE, c)
  <2> HIDE DEF c
  <2> QED  BY <1>1, AskedSet
<1>3. asked \in PublisherFields /\ ~asked.disposed /\ ~asked.gaveUp
  BY <1>2 DEF FieldsAre
<1>4. q = IF p.inFlight # "none" \/ p.timer = "retry" THEN asked
          ELSE schedule(asked, "debounce")
  BY DEF requestPublish
<1> HIDE DEF asked, c
<1>5. FieldsAre(schedule(asked, "debounce"), "debounce", p.inFlight, TRUE,
                p.disposed, FALSE, c)
  BY <1>2, <1>3, ScheduleLemma DEF FieldsAre
<1>6. CASE p.inFlight # "none" \/ p.timer = "retry"
  BY <1>2, <1>4, <1>6 DEF FieldsAre, c
<1>7. CASE ~(p.inFlight # "none" \/ p.timer = "retry")
  BY <1>4, <1>5, <1>7 DEF FieldsAre, c
<1> QED
  BY <1>6, <1>7

\* The loop ends with a timer when there are requests, and without one it
\* leaves the timer there is.
LEMMA EndLoopLemma ==
  ASSUME NEW p \in PublisherFields
  PROVE  FieldsAre(endLoop(p),
                   IF loopGoesOn(p) /\ p.timer = "none" THEN "debounce" ELSE p.timer,
                   "none", p.dirty,
                   p.disposed, p.gaveUp, p.consecutiveFailures)
<1> DEFINE ended == [p EXCEPT !.inFlight = "none"]
<1>1. FieldsAre(ended, p.timer, "none", p.dirty,
                p.disposed, p.gaveUp, p.consecutiveFailures)
  BY InFlightSet
<1>2. endLoop(p) = IF loopGoesOn(ended) /\ ended.timer = "none"
                   THEN schedule(ended, "debounce") ELSE ended
  BY DEF endLoop
<1> HIDE DEF ended
<1>3. ended \in PublisherFields /\ (loopGoesOn(ended) <=> loopGoesOn(p))
  BY <1>1 DEF FieldsAre, loopGoesOn
<1>4. CASE loopGoesOn(p) /\ p.timer = "none"
  <2>1. FieldsAre(schedule(ended, "debounce"), "debounce", "none", p.dirty,
                  p.disposed, p.gaveUp, p.consecutiveFailures)
    BY <1>1, <1>3, <1>4, ScheduleLemma DEF FieldsAre, loopGoesOn
  <2> QED
    BY <1>1, <1>2, <1>3, <1>4, <2>1 DEF FieldsAre
<1>5. CASE ~(loopGoesOn(p) /\ p.timer = "none")
  BY <1>1, <1>2, <1>3, <1>5 DEF FieldsAre
<1> QED
  BY <1>4, <1>5

\* The loop takes the requests there are, or ends.
LEMMA ContinueLoopLemma ==
  ASSUME NEW p \in PublisherFields
  PROVE  IF loopGoesOn(p)
         THEN FieldsAre(continueLoop(p), p.timer, p.inFlight, FALSE,
                        p.disposed, p.gaveUp, p.consecutiveFailures)
         ELSE FieldsAre(continueLoop(p), p.timer, "none", p.dirty,
                        p.disposed, p.gaveUp, p.consecutiveFailures)
<1>1. CASE loopGoesOn(p)
  BY <1>1, DirtySet DEF continueLoop
<1>2. CASE ~loopGoesOn(p)
  BY <1>2, EndLoopLemma DEF continueLoop
<1> QED
  BY <1>1, <1>2

\* The timer of a publisher with requests begins a loop that takes them up.
LEMMA FireLemma ==
  ASSUME NEW p \in PublisherFields, p.dirty, ~p.gaveUp, ~p.disposed,
         p.inFlight = "none"
  PROVE  FieldsAre(fireTimer(p), "none", "loop", FALSE,
                   FALSE, FALSE, p.consecutiveFailures)
<1> DEFINE fired == [p EXCEPT !.timer = "none"]
           looping == [fired EXCEPT !.inFlight = "loop"]
<1>1. FieldsAre(fired, "none", p.inFlight, p.dirty,
                p.disposed, p.gaveUp, p.consecutiveFailures)
  BY TimerSet
<1>2. fired \in PublisherFields /\ fired.inFlight = "none" /\ loopGoesOn(fired)
  BY <1>1 DEF FieldsAre, loopGoesOn
<1>3. fireTimer(p) = continueLoop(looping)
  BY <1>2 DEF fireTimer
<1> HIDE DEF fired
<1>4. FieldsAre(looping, fired.timer, "loop", fired.dirty,
                fired.disposed, fired.gaveUp, fired.consecutiveFailures)
  BY <1>2, InFlightSet
<1> HIDE DEF looping
<1>5. looping \in PublisherFields /\ loopGoesOn(looping)
  BY <1>2, <1>4 DEF FieldsAre, loopGoesOn
<1>6. FieldsAre(continueLoop(looping), looping.timer, looping.inFlight, FALSE,
                looping.disposed, looping.gaveUp, looping.consecutiveFailures)
  BY <1>5, ContinueLoopLemma
<1> QED
  BY <1>1, <1>3, <1>4, <1>6, PublisherHasFields DEF FieldsAre

\* After a post of the loop succeeded the loop posts again, for the requests
\* there are, or ends.
LEMMA SucceededLemma ==
  ASSUME NEW p \in PublisherFields, p.inFlight = "loop"
  PROVE  IF loopGoesOn(p)
         THEN FieldsAre(publishSucceeded(p), p.timer, "loop", FALSE,
                        p.disposed, p.gaveUp, 0)
         ELSE FieldsAre(publishSucceeded(p), p.timer, "none", p.dirty,
                        p.disposed, p.gaveUp, 0)
<1> DEFINE q == [p EXCEPT !.consecutiveFailures = 0]
<1>1. 0 \in 0 .. RetryMaxAttempts
  BY RetryMaxAttemptsAssumption
<1>2. FieldsAre(q, p.timer, p.inFlight, p.dirty, p.disposed, p.gaveUp, 0)
  BY <1>1, FailuresSet
<1>3. publishSucceeded(p) = continueLoop(q)
  BY DEF publishSucceeded
<1> HIDE DEF q
<1>4. q \in PublisherFields /\ (loopGoesOn(q) <=> loopGoesOn(p))
  BY <1>2 DEF FieldsAre, loopGoesOn
<1>5. CASE loopGoesOn(p)
  <2>1. FieldsAre(continueLoop(q), q.timer, q.inFlight, FALSE,
                  q.disposed, q.gaveUp, q.consecutiveFailures)
    BY <1>4, <1>5, ContinueLoopLemma
  <2> QED
    BY <1>2, <1>3, <1>5, <2>1 DEF FieldsAre
<1>6. CASE ~loopGoesOn(p)
  <2>1. FieldsAre(continueLoop(q), q.timer, "none", q.dirty,
                  q.disposed, q.gaveUp, q.consecutiveFailures)
    BY <1>4, <1>6, ContinueLoopLemma
  <2> QED
    BY <1>2, <1>3, <1>6, <2>1 DEF FieldsAre
<1> QED
  BY <1>5, <1>6

\* After a post of the loop failed the loop ends: the publisher gives up, or
\* what the post carried is asked for again and the timer for a retry is set.
LEMMA FailedLemma ==
  ASSUME NEW p \in PublisherFields, p.inFlight = "loop", p.timer = "none",
         p.consecutiveFailures < RetryMaxAttempts, ~p.gaveUp,
         NEW n, n = p.consecutiveFailures + 1
  PROVE  IF n >= RetryMaxAttempts
         THEN FieldsAre(publishFailed(p), "none", "none", p.dirty,
                        p.disposed, TRUE, n)
         ELSE FieldsAre(publishFailed(p), IF p.disposed THEN "none" ELSE "retry",
                        "none", TRUE, p.disposed, FALSE, n)
<1> DEFINE failed == [p EXCEPT !.consecutiveFailures = n]
           over == [failed EXCEPT !.gaveUp = TRUE]
           again == [failed EXCEPT !.dirty = TRUE]
<1>1. n \in 0 .. RetryMaxAttempts /\ n \in Nat
  BY PublisherHasFields, RetryMaxAttemptsAssumption
<1>2. FieldsAre(failed, p.timer, p.inFlight, p.dirty, p.disposed, p.gaveUp, n)
  BY <1>1, FailuresSet
<1>3. publishFailed(p) = IF n >= RetryMaxAttempts THEN endLoop(over)
                         ELSE endLoop(schedule(again, "retry"))
  BY DEF publishFailed
<1> HIDE DEF failed
<1>4. failed \in PublisherFields
  BY <1>2 DEF FieldsAre
<1>5. FieldsAre(over, failed.timer, failed.inFlight, failed.dirty,
                failed.disposed, TRUE, failed.consecutiveFailures)
  BY <1>4, GaveUpSet
<1>6. FieldsAre(again, failed.timer, failed.inFlight, TRUE,
                failed.disposed, failed.gaveUp, failed.consecutiveFailures)
  BY <1>4, DirtySet
<1> HIDE DEF over, again
<1>7. CASE n >= RetryMaxAttempts
  <2>1. over \in PublisherFields /\ ~loopGoesOn(over)
    BY <1>5 DEF FieldsAre, loopGoesOn
  <2> QED
    BY <1>2, <1>3, <1>5, <1>7, <2>1, EndLoopLemma DEF FieldsAre
<1>8. CASE ~(n >= RetryMaxAttempts)
  <2> DEFINE scheduled == schedule(again, "retry")
  <2>1. again \in PublisherFields /\ ~again.gaveUp
        /\ again.timer = "none" /\ again.disposed = p.disposed
    BY <1>2, <1>6 DEF FieldsAre, PublisherFields
  <2>2. FieldsAre(scheduled, IF p.disposed THEN "none" ELSE "retry",
                  again.inFlight, again.dirty,
                  again.disposed, again.gaveUp, again.consecutiveFailures)
    BY <2>1, ScheduleLemma DEF FieldsAre
  <2> HIDE DEF scheduled
  <2>3. scheduled \in PublisherFields
        /\ ~(loopGoesOn(scheduled) /\ scheduled.timer = "none")
    BY <2>1, <2>2 DEF FieldsAre, loopGoesOn
  <2>4. FieldsAre(endLoop(scheduled), scheduled.timer, "none", scheduled.dirty,
                  scheduled.disposed, scheduled.gaveUp,
                  scheduled.consecutiveFailures)
    BY <2>3, EndLoopLemma DEF FieldsAre
  <2>5. publishFailed(p) = endLoop(scheduled)
    BY <1>3, <1>8 DEF scheduled
  <2> QED
    BY <1>2, <1>6, <1>8, <2>2, <2>4, <2>5 DEF FieldsAre
<1> QED
  BY <1>7, <1>8

\* dispose() stops the timer; a last post is made for requests nobody took up.
LEMMA DisposeLemma ==
  ASSUME NEW p \in PublisherFields
  PROVE  IF p.dirty /\ ~p.gaveUp /\ p.inFlight = "none"
         THEN FieldsAre(dispose(p), "none", "final", FALSE,
                        TRUE, p.gaveUp, p.consecutiveFailures)
         ELSE FieldsAre(dispose(p), "none", p.inFlight, p.dirty,
                        TRUE, p.gaveUp, p.consecutiveFailures)
<1> DEFINE q == [p EXCEPT !.disposed = TRUE, !.timer = "none"]
<1>1. FieldsAre(q, "none", p.inFlight, p.dirty,
                TRUE, p.gaveUp, p.consecutiveFailures)
  BY DisposedSet
<1>2. dispose(p) = IF p.dirty /\ ~p.gaveUp /\ p.inFlight = "none"
                   THEN [q EXCEPT !.inFlight = "final", !.dirty = FALSE] ELSE q
  BY DEF dispose
<1> HIDE DEF q
<1>3. FieldsAre([q EXCEPT !.inFlight = "final", !.dirty = FALSE], q.timer,
                "final", FALSE, q.disposed, q.gaveUp, q.consecutiveFailures)
  BY <1>1, FinalSet DEF FieldsAre
<1>4. CASE p.dirty /\ ~p.gaveUp /\ p.inFlight = "none"
  BY <1>1, <1>2, <1>3, <1>4 DEF FieldsAre
<1>5. CASE ~(p.dirty /\ ~p.gaveUp /\ p.inFlight = "none")
  BY <1>1, <1>2, <1>5 DEF FieldsAre
<1> QED
  BY <1>4, <1>5

\* The publisher of a server that starts waits with its first request.
LEMMA FirstRequest ==
  FieldsAre(requestPublish(newPublisher), "debounce", "none", TRUE,
            FALSE, FALSE, 0)
<1>1. FieldsAre(newPublisher, "none", "none", FALSE, FALSE, FALSE, 0)
  BY RetryMaxAttemptsAssumption DEF newPublisher, PublisherFields, FieldsAre
<1> DEFINE q == requestPublish(newPublisher)
<1>2. /\ FieldsAre(q, q.timer, newPublisher.inFlight, TRUE,
                   newPublisher.disposed, FALSE, q.consecutiveFailures)
      /\ q.consecutiveFailures = IF newPublisher.gaveUp THEN 0
                                 ELSE newPublisher.consecutiveFailures
      /\ q.timer = IF newPublisher.inFlight # "none" \/ newPublisher.timer = "retry"
                   THEN newPublisher.timer ELSE "debounce"
  <2> HIDE DEF q
  <2>1. newPublisher \in PublisherFields /\ ~newPublisher.disposed
    BY <1>1 DEF FieldsAre
  <2> QED
    BY <2>1, RequestLemma DEF q
<1> QED
  BY <1>1, <1>2 DEF FieldsAre

\* The publisher starts with its first request waiting for the debounce timer.
THEOREM PublisherInit == InitPublisher => PublisherIInv
<1> SUFFICES ASSUME InitPublisher PROVE PublisherIInv
  OBVIOUS
<1>1. FieldsAre(publisher, "debounce", "none", TRUE, FALSE, FALSE, 0)
  BY FirstRequest DEF InitPublisher
<1> QED
  BY <1>1, RetryMaxAttemptsAssumption
  DEF InitPublisher, PublisherIInv, PublisherTypeOK, RequestsAreTakenUp,
      QuietMeansServed, Posting, FieldsAre

\* Every step of the server keeps the invariant.
THEOREM PublisherStep ==
  ASSUME PublisherIInv, PublisherNext
  PROVE  PublisherIInv'
<1> DEFINE p == publisher
<1>0. p \in PublisherFields /\ 0 \in 0 .. RetryMaxAttempts
      /\ RetryMaxAttempts \in Nat /\ RetryMaxAttempts > 0
  BY RetryMaxAttemptsAssumption DEF PublisherIInv, PublisherTypeOK
<1>1. CASE WorldChanges
  <2>1. publisher' = requestPublish(p) /\ world' = world + 1
        /\ shutdownSnapshot' = shutdownSnapshot /\ served' = served /\ now' = now
        /\ post' = IF Posting(publisher') THEN post ELSE None
    BY <1>1 DEF WorldChanges, PublisherBecomes
  <2>2. CASE p.disposed
    <3>1. publisher' = p
      BY <2>1, <2>2 DEF requestPublish
    <3> QED
      BY <2>1, <2>2, <3>1
      DEF PublisherIInv, PublisherTypeOK, RequestsAreTakenUp, QuietMeansServed,
          Posting
  <2>3. CASE ~p.disposed
    <3>1. /\ FieldsAre(publisher', publisher'.timer, p.inFlight, TRUE, p.disposed,
                       FALSE, publisher'.consecutiveFailures)
          /\ publisher'.consecutiveFailures =
               IF p.gaveUp THEN 0 ELSE p.consecutiveFailures
          /\ publisher'.timer = IF p.inFlight # "none" \/ p.timer = "retry"
                                THEN p.timer ELSE "debounce"
      BY <1>0, <2>1, <2>3, RequestLemma
    <3> QED
      BY <1>0, <2>1, <2>3, <3>1, PublisherHasFields
      DEF PublisherIInv, PublisherTypeOK, RequestsAreTakenUp, QuietMeansServed,
          Posting, FieldsAre
  <2> QED
    BY <2>2, <2>3
<1>2. CASE PublisherTimerFires
  <2>1. p.dirty /\ ~p.gaveUp /\ ~p.disposed /\ p.inFlight = "none"
    BY <1>2 DEF PublisherTimerFires, PublisherIInv, RequestsAreTakenUp
  <2>2. FieldsAre(publisher', "none", "loop", FALSE, FALSE, FALSE,
                  p.consecutiveFailures)
    BY <1>0, <1>2, <2>1, FireLemma DEF PublisherTimerFires, PublisherBecomes
  <2>3. /\ world' = world /\ shutdownSnapshot' = shutdownSnapshot
        /\ served' = served /\ now' = now
        /\ post' = buildSnapshot(world, shutdownSnapshot)
    BY <1>2, <2>1, <2>2
    DEF PublisherTimerFires, PublisherBecomes, Posting, FieldsAre
  <2>4. post' \in WorldSnapshot /\ post'.world = world
    BY <2>1, <2>3
    DEF PublisherIInv, PublisherTypeOK, buildSnapshot, WorldSnapshot
  <2> QED
    BY <2>1, <2>2, <2>3, <2>4
    DEF PublisherIInv, PublisherTypeOK, RequestsAreTakenUp, QuietMeansServed,
        Posting, FieldsAre
<1>3. CASE PostSucceeds /\ UNCHANGED now
  <2>1. /\ publisher' = publishSucceeded(p) /\ world' = world
        /\ shutdownSnapshot' = shutdownSnapshot /\ served' = post.world
        /\ now' = now /\ Posting(p)
        /\ post' = IF Posting(publisher')
                   THEN buildSnapshot(world, shutdownSnapshot) ELSE None
    BY <1>3 DEF PostSucceeds, PublisherBecomes
  <2>2. post \in WorldSnapshot /\ post.world \in Nat
    BY <2>1 DEF PublisherIInv, WorldSnapshot
  <2>3. buildSnapshot(world, shutdownSnapshot) \in WorldSnapshot
    BY DEF PublisherIInv, PublisherTypeOK, buildSnapshot, WorldSnapshot
  <2>4. shutdownSnapshot = None =>
          buildSnapshot(world, shutdownSnapshot).world = world
    BY DEF buildSnapshot
  <2>5. CASE p.inFlight = "final"
    <3>1. FieldsAre(publisher', p.timer, "none", p.dirty, p.disposed, p.gaveUp, 0)
      BY <1>0, <2>1, <2>5, EndedSet DEF publishSucceeded
    <3> QED
      BY <1>0, <2>1, <2>2, <2>5, <3>1
      DEF PublisherIInv, PublisherTypeOK, RequestsAreTakenUp, QuietMeansServed,
          Posting, FieldsAre
  <2>6. CASE p.inFlight = "loop"
    <3>1. IF loopGoesOn(p)
          THEN FieldsAre(publisher', p.timer, "loop", FALSE,
                         p.disposed, p.gaveUp, 0)
          ELSE FieldsAre(publisher', p.timer, "none", p.dirty,
                         p.disposed, p.gaveUp, 0)
      BY <1>0, <2>1, <2>6, SucceededLemma
    <3> QED
      BY <1>0, <2>1, <2>2, <2>3, <2>4, <2>6, <3>1
      DEF PublisherIInv, PublisherTypeOK, RequestsAreTakenUp, QuietMeansServed,
          Posting, FieldsAre, loopGoesOn
  <2> QED
    BY <2>1, <2>5, <2>6 DEF Posting
<1>4. CASE PostFails /\ UNCHANGED now
  <2>1. /\ publisher' = publishFailed(p) /\ world' = world
        /\ shutdownSnapshot' = shutdownSnapshot /\ served' = served
        /\ now' = now /\ Posting(p)
        /\ post' = IF Posting(publisher') THEN post ELSE None
    BY <1>4 DEF PostFails, PublisherBecomes
  <2>2. CASE p.inFlight = "final"
    <3>1. FieldsAre(publisher', p.timer, "none", p.dirty, p.disposed, p.gaveUp,
                    p.consecutiveFailures)
      BY <1>0, <2>1, <2>2, InFlightSet DEF publishFailed
    <3> QED
      BY <2>1, <2>2, <3>1
      DEF PublisherIInv, PublisherTypeOK, RequestsAreTakenUp, QuietMeansServed,
          Posting, FieldsAre
  <2>3. CASE p.inFlight = "loop"
    <3> DEFINE n == p.consecutiveFailures + 1
    <3>1. p.timer = "none" /\ ~p.gaveUp /\ p.consecutiveFailures < RetryMaxAttempts
      BY <1>0, <2>3 DEF PublisherIInv, RequestsAreTakenUp, PublisherFields
    <3>2. IF n >= RetryMaxAttempts
          THEN FieldsAre(publisher', "none", "none", p.dirty,
                         p.disposed, TRUE, n)
          ELSE FieldsAre(publisher', IF p.disposed THEN "none" ELSE "retry",
                         "none", TRUE, p.disposed, FALSE, n)
      BY <1>0, <2>1, <2>3, <3>1, FailedLemma
    <3> QED
      BY <1>0, <2>1, <2>3, <3>1, <3>2, PublisherHasFields
      DEF PublisherIInv, PublisherTypeOK, RequestsAreTakenUp, QuietMeansServed,
          Posting, FieldsAre
  <2> QED
    BY <2>1, <2>2, <2>3 DEF Posting
<1>5. CASE ServerIsDisposed
  <2>1. /\ publisher' = dispose(p) /\ world' = world
        /\ shutdownSnapshot' = world /\ served' = served /\ now' = now
        /\ post' = IF Posting(publisher') /\ ~Posting(p)
                   THEN buildSnapshot(world, world)
                   ELSE IF Posting(publisher') THEN post ELSE None
    BY <1>5 DEF ServerIsDisposed, PublisherBecomes
  <2>2. buildSnapshot(world, world) \in WorldSnapshot
    BY DEF PublisherIInv, PublisherTypeOK, buildSnapshot, WorldSnapshot
  <2>3. IF p.dirty /\ ~p.gaveUp /\ p.inFlight = "none"
        THEN FieldsAre(publisher', "none", "final", FALSE,
                       TRUE, p.gaveUp, p.consecutiveFailures)
        ELSE FieldsAre(publisher', "none", p.inFlight, p.dirty,
                       TRUE, p.gaveUp, p.consecutiveFailures)
    BY <1>0, <2>1, DisposeLemma
  <2> QED
    BY <2>1, <2>2, <2>3
    DEF PublisherIInv, PublisherTypeOK, RequestsAreTakenUp, QuietMeansServed,
        Posting, FieldsAre
<1>6. CASE ServerRestarts
  <2>1. FieldsAre(publisher', "debounce", "none", TRUE, FALSE, FALSE, 0)
    BY <1>6, FirstRequest DEF ServerRestarts, PublisherBecomes
  <2>2. /\ world' = world + 1 /\ shutdownSnapshot' = None /\ served' = served
        /\ now' = now + 1 /\ post' = None
    BY <1>6, <2>1
    DEF ServerRestarts, PublisherBecomes, Tick, Posting, FieldsAre
  <2> QED
    BY <1>0, <2>1, <2>2
    DEF PublisherIInv, PublisherTypeOK, RequestsAreTakenUp, QuietMeansServed,
        Posting, FieldsAre
<1>7. CASE Tick /\ UNCHANGED publisherVars
  BY <1>7
  DEF PublisherIInv, PublisherTypeOK, RequestsAreTakenUp, QuietMeansServed,
      publisherVars, Posting, Tick
<1> QED
  BY <1>1, <1>2, <1>3, <1>4, <1>5, <1>6, <1>7 DEF PublisherNext

\* The invariant holds throughout every behaviour of the publisher.
THEOREM PublisherInvariant == PublisherSpec => []PublisherIInv
<1>1. PublisherIInv /\ UNCHANGED <<publisherVars, now>> => PublisherIInv'
  BY DEF PublisherIInv, PublisherTypeOK, RequestsAreTakenUp, QuietMeansServed,
         publisherVars, Posting
<1> QED
  BY <1>1, PublisherInit, PublisherStep, PTL DEF PublisherSpec

\* The fields keep their types, and failures in a row do not pass the limit.
THEOREM PublisherTypeCorrect == PublisherSpec => []PublisherTypeOK
<1>1. PublisherIInv => PublisherTypeOK
  BY DEF PublisherIInv
<1> QED
  BY <1>1, PublisherInvariant, PTL

\* A request is waited for by a timer, or taken up by the loop under way,
\* however requests, timers, posts and a stop come between one another.
THEOREM RequestsAlwaysTakenUp == PublisherSpec => []RequestsAreTakenUp
<1>1. PublisherIInv => RequestsAreTakenUp
  BY DEF PublisherIInv
<1> QED
  BY <1>1, PublisherInvariant, PTL

\* A publisher with nothing left to do was answered for the world as it is.
THEOREM QuietAlwaysMeansServed == PublisherSpec => []QuietMeansServed
<1>1. PublisherIInv => QuietMeansServed
  BY DEF PublisherIInv
<1> QED
  BY <1>1, PublisherInvariant, PTL

(***************************************************************************)
(* The pipeline.                                                           *)
(***************************************************************************)
\* A relay with these fields.
Bridge(latest, published, due, error, streak, put, queued, disk, alarmAt) ==
  [latest_snapshot |-> latest, last_publish_at |-> published,
   publish_alarm_at |-> due, last_publish_error_at |-> error,
   publish_failure_streak |-> streak, put |-> put, publish_queued |-> queued,
   disk |-> disk, alarm |-> alarmAt]

\* The fields of the relay; times of alarms and the streak may be anything.
IsBridge(r) ==
  /\ r = Bridge(r.latest_snapshot, r.last_publish_at, r.publish_alarm_at,
                r.last_publish_error_at, r.publish_failure_streak,
                r.put, r.publish_queued, r.disk, r.alarm)
  /\ r.latest_snapshot \in SpectatorSnapshot \cup {None}
  /\ r.last_publish_at \in Nat
  /\ r.last_publish_error_at \in Nat
  /\ r.disk.latest_snapshot \in SpectatorSnapshot \cup {None}
  /\ r.disk.last_publish_at \in Nat
  /\ r.disk.last_publish_error_at \in Nat
  /\ r.put # None => /\ r.put = [snapshot |-> r.put.snapshot, by |-> r.put.by]
                     /\ r.put.snapshot \in SpectatorSnapshot

\* What is durable is no older than the newest snapshot, which is no older than
\* the one being written, which is no older than the object o; and neither of
\* these two was published after the time t.
InOrder(r, o, t) ==
  /\ r.latest_snapshot # None =>
       /\ r.disk.latest_snapshot # None
       /\ r.latest_snapshot.generated_at <= r.disk.latest_snapshot.generated_at
  /\ r.put # None =>
       /\ r.latest_snapshot # None
       /\ r.put.snapshot.generated_at <= r.latest_snapshot.generated_at
       /\ r.put.snapshot.published_at <= t
  /\ o # None =>
       /\ o \in SpectatorSnapshot
       /\ r.latest_snapshot # None
       /\ o.generated_at <= r.latest_snapshot.generated_at
       /\ o.published_at <= t
  /\ o # None /\ r.put # None =>
       /\ o.generated_at <= r.put.snapshot.generated_at
       /\ o.published_at <= r.put.snapshot.published_at

Good(r, o, t) == IsBridge(r) /\ InOrder(r, o, t)

\* The fields of a snapshot have the types they are declared with.
LEMMA SnapshotHasFields ==
  ASSUME NEW s \in SpectatorSnapshot
  PROVE  /\ s # None
         /\ s.generated_at \in Nat /\ s.published_at \in Nat
         /\ s.world \in Nat /\ s.last_publish_error_at \in Nat
BY SnapshotAssumption DEF SpectatorSnapshot

\* Saving makes what is durable the newest snapshot.
LEMMA PersistKeepsOrder ==
  ASSUME NEW r, NEW o, NEW t, Good(r, o, t)
  PROVE  Good(persistRuntimeState(r), o, t)
<1>1. CASE r.latest_snapshot = None
  BY <1>1 DEF persistRuntimeState
<1>2. CASE r.latest_snapshot # None
  BY <1>2, SnapshotHasFields
  DEF persistRuntimeState, Persisted, Good, IsBridge, Bridge, InOrder
<1> QED
  BY <1>1, <1>2

\* The relays with these fields: one.
Only(l, p, d, e, s, u, q, k, a) ==
  [latest_snapshot : {l}, last_publish_at : {p}, publish_alarm_at : {d},
   last_publish_error_at : {e}, publish_failure_streak : {s}, put : {u},
   publish_queued : {q}, disk : {k}, alarm : {a}]

\* There is no other.
LEMMA OnlyOneBridge ==
  ASSUME NEW x, NEW l, NEW p, NEW d, NEW e, NEW s, NEW u, NEW q, NEW k, NEW a,
         x \in Only(l, p, d, e, s, u, q, k, a)
  PROVE  x = Bridge(l, p, d, e, s, u, q, k, a)
BY DEF Bridge, Only

\* What setting several of them does: when a publication is over,
LEMMA PutSet ==
  ASSUME NEW r, IsBridge(r), NEW u2, NEW q2
  PROVE  [r EXCEPT !.put = u2, !.publish_queued = q2]
           = Bridge(r.latest_snapshot, r.last_publish_at, r.publish_alarm_at,
                    r.last_publish_error_at, r.publish_failure_streak, u2,
                    q2, r.disk, r.alarm)
<1>1. r \in Only(r.latest_snapshot, r.last_publish_at, r.publish_alarm_at,
               r.last_publish_error_at, r.publish_failure_streak, r.put,
               r.publish_queued, r.disk, r.alarm)
  BY DEF IsBridge, Bridge, Only
<1>2. [r EXCEPT !.put = u2, !.publish_queued = q2]
        \in Only(r.latest_snapshot, r.last_publish_at, r.publish_alarm_at,
                 r.last_publish_error_at, r.publish_failure_streak, u2,
                 q2, r.disk, r.alarm)
  BY <1>1 DEF Only
<1> QED
  BY <1>2, OnlyOneBridge

\* and when it failed.
LEMMA FailureSet ==
  ASSUME NEW r, IsBridge(r), NEW d2, NEW e2, NEW s2
  PROVE  [r EXCEPT !.publish_failure_streak = s2,
                    !.last_publish_error_at = e2, !.publish_alarm_at = d2]
           = Bridge(r.latest_snapshot, r.last_publish_at, d2,
                    e2, s2, r.put,
                    r.publish_queued, r.disk, r.alarm)
<1>1. r \in Only(r.latest_snapshot, r.last_publish_at, r.publish_alarm_at,
               r.last_publish_error_at, r.publish_failure_streak, r.put,
               r.publish_queued, r.disk, r.alarm)
  BY DEF IsBridge, Bridge, Only
<1>2. [r EXCEPT !.publish_failure_streak = s2,
                    !.last_publish_error_at = e2, !.publish_alarm_at = d2]
        \in Only(r.latest_snapshot, r.last_publish_at, d2,
                 e2, s2, r.put,
                 r.publish_queued, r.disk, r.alarm)
  BY <1>1 DEF Only
<1> QED
  BY <1>2, OnlyOneBridge

\* Setting the alarm, or the time it is due, disturbs nothing.
LEMMA RescheduleKeepsOrder ==
  ASSUME NEW r, NEW o, NEW t, Good(r, o, t)
  PROVE  Good(rescheduleAlarm(r), o, t)
BY DEF rescheduleAlarm, Good, IsBridge, Bridge, InOrder

\* A publication begins with the newest snapshot, published now.
LEMMA PublishKeepsOrder ==
  ASSUME NEW r, NEW o, NEW by, now \in Nat, Good(r, o, now)
  PROVE  Good(publishLatestSnapshot(r, by), o, now)
<1>1. CASE r.put # None
  BY <1>1 DEF publishLatestSnapshot, Good, IsBridge, Bridge, InOrder
<1>2. CASE r.put = None /\ r.latest_snapshot = None
  BY <1>2 DEF publishLatestSnapshot, Good, IsBridge, Bridge, InOrder
<1>3. CASE r.put = None /\ r.latest_snapshot # None /\ isPublishBackoffActive(r)
  BY <1>3, PersistKeepsOrder, RescheduleKeepsOrder DEF publishLatestSnapshot
<1>4. CASE r.put = None /\ r.latest_snapshot # None /\ ~isPublishBackoffActive(r)
  <2> DEFINE s == [r.latest_snapshot EXCEPT !.published_at = now]
             q == [r EXCEPT !.put = [snapshot |-> s, by |-> by]]
  <2>1. r.latest_snapshot \in SpectatorSnapshot
    BY <1>4 DEF Good, IsBridge
  <2>2. /\ s \in SpectatorSnapshot /\ s.published_at = now
        /\ s.generated_at = r.latest_snapshot.generated_at
    BY <2>1 DEF SpectatorSnapshot
  <2>3. publishLatestSnapshot(r, by) = q
    BY <1>4 DEF publishLatestSnapshot
  <2> HIDE DEF s
  <2>4. IsBridge(q) /\ q.put.snapshot = s /\ q.disk = r.disk
        /\ q.latest_snapshot = r.latest_snapshot
    BY <2>2 DEF Good, IsBridge, Bridge
  <2> HIDE DEF q
  <2>5. InOrder(q, o, now)
    BY <1>4, <2>1, <2>2, <2>4, SnapshotHasFields DEF Good, InOrder
  <2> QED
    BY <2>3, <2>4, <2>5 DEF Good
<1> QED
  BY <1>1, <1>2, <1>3, <1>4

\* A posted snapshot replaces the newest one unless it is older.
LEMMA ApplyKeepsOrder ==
  ASSUME NEW r, NEW o, NEW t, NEW body \in WorldSnapshot, Good(r, o, t)
  PROVE  Good(applySnapshot(r, body), o, t)
<1> DEFINE s == buildSpectatorSnapshot(r, body)
           q == [r EXCEPT !.latest_snapshot = s]
<1>1. CASE r.latest_snapshot # None
           /\ body.generated_at < r.latest_snapshot.generated_at
  BY <1>1 DEF applySnapshot
<1>2. CASE ~(r.latest_snapshot # None
             /\ body.generated_at < r.latest_snapshot.generated_at)
  <2>1. s \in SpectatorSnapshot /\ s.generated_at = body.generated_at
    BY DEF Good, IsBridge, WorldSnapshot, SpectatorSnapshot,
           buildSpectatorSnapshot
  <2>2. applySnapshot(r, body) = persistRuntimeState(q)
    BY <1>2 DEF applySnapshot
  <2> HIDE DEF s
  <2> DEFINE d == persistRuntimeState(q)
  <2>3. s # None /\ s.generated_at \in Nat
    BY <2>1, SnapshotHasFields
  <2>4. /\ IsBridge(q) /\ q.latest_snapshot = s /\ q.put = r.put
    BY <2>1 DEF Good, IsBridge, Bridge
  <2> HIDE DEF q
  <2>5. IsBridge(d) /\ d.latest_snapshot = s /\ d.disk.latest_snapshot = s
        /\ d.put = r.put
    BY <2>1, <2>3, <2>4 DEF persistRuntimeState, Persisted, IsBridge, Bridge
  <2> HIDE DEF d
  <2>6. r.latest_snapshot # None =>
          r.latest_snapshot.generated_at <= s.generated_at
    BY <1>2, <2>1, <2>3, SnapshotHasFields DEF Good, IsBridge
  <2>7. InOrder(d, o, t)
    BY <2>1, <2>3, <2>5, <2>6, SnapshotHasFields DEF Good, IsBridge, Bridge, InOrder
  <2> QED
    BY <2>2, <2>5, <2>7 DEF Good, d
<1> QED
  BY <1>1, <1>2

\* A call that is received applies its snapshot and publishes the newest.
LEMMA ReceiveKeepsOrder ==
  ASSUME NEW r, NEW o, NEW body \in WorldSnapshot, NEW by, now \in Nat,
         Good(r, o, now)
  PROVE  Good(receiveSnapshot(r, body, by), o, now)
BY ApplyKeepsOrder, PublishKeepsOrder DEF receiveSnapshot

\* The order is one of the snapshots alone, and of those still being written.
LEMMA SameSnapshots ==
  ASSUME NEW r, NEW q, NEW o, NEW t, Good(r, o, t), IsBridge(q),
         q.latest_snapshot = r.latest_snapshot, q.disk = r.disk,
         q.put = r.put \/ q.put = None
  PROVE  Good(q, o, t)
BY DEF Good, InOrder

\* What is left of a publication keeps the order, also when it begins another.
LEMMA AfterPutKeepsOrder ==
  ASSUME NEW r, NEW o, now \in Nat, Good(r, o, now)
  PROVE  Good(afterPut(r), o, now)
<1> DEFINE done == [r EXCEPT !.put = None, !.publish_queued = FALSE]
<1>1. Good(done, o, now)
  <2>0. IsBridge(r)
    BY DEF Good
  <2>1. done = Bridge(r.latest_snapshot, r.last_publish_at, r.publish_alarm_at,
                      r.last_publish_error_at, r.publish_failure_streak,
                      None, FALSE, r.disk, r.alarm)
    BY <2>0, PutSet
  <2> HIDE DEF done
  <2>2. IsBridge(done)
    BY <2>1 DEF Good, IsBridge, Bridge
  <2> QED
    BY <2>1, <2>2, SameSnapshots DEF Bridge
<1>2. afterPut(r) = IF r.publish_queued THEN publishLatestSnapshot(done, r.put.by)
                    ELSE rescheduleAlarm(persistRuntimeState(done))
  BY DEF afterPut
<1> HIDE DEF done
<1> QED
  BY <1>1, <1>2, PublishKeepsOrder, PersistKeepsOrder, RescheduleKeepsOrder

\* The snapshot that was written becomes the object, and the newest snapshot.
LEMMA SuccessKeepsOrder ==
  ASSUME NEW r, NEW o, now \in Nat, Good(r, o, now), r.put # None
  PROVE  Good(putSucceeded(r), r.put.snapshot, now)
<1> DEFINE q == [r EXCEPT !.latest_snapshot = r.put.snapshot,
                          !.last_publish_at = r.put.snapshot.published_at,
                          !.last_publish_error_at = 0, !.publish_alarm_at = None,
                          !.publish_failure_streak = 0]
<1>1. /\ r.put.snapshot \in SpectatorSnapshot /\ r.put.snapshot # None
      /\ r.put.snapshot.generated_at \in Nat /\ r.put.snapshot.published_at \in Nat
  BY SnapshotHasFields DEF Good, IsBridge
<1>2. /\ IsBridge(q) /\ q.put = r.put /\ q.disk = r.disk
      /\ q.latest_snapshot = r.put.snapshot
  <2>1. r \in Only(r.latest_snapshot, r.last_publish_at, r.publish_alarm_at,
                   r.last_publish_error_at, r.publish_failure_streak, r.put,
                   r.publish_queued, r.disk, r.alarm)
    BY DEF Good, IsBridge, Bridge, Only
  <2>2. q \in Only(r.put.snapshot, r.put.snapshot.published_at, None, 0, 0, r.put,
                   r.publish_queued, r.disk, r.alarm)
    BY <2>1 DEF Only
  <2> HIDE DEF q
  <2>3. q = Bridge(r.put.snapshot, r.put.snapshot.published_at, None, 0, 0,
                   r.put, r.publish_queued, r.disk, r.alarm)
    BY <2>2, OnlyOneBridge
  <2> QED
    BY <1>1, <2>3 DEF Good, IsBridge, Bridge
<1>3. putSucceeded(r) = afterPut(q)
  BY DEF putSucceeded
<1> HIDE DEF q
<1>4. r.latest_snapshot # None /\ r.disk.latest_snapshot # None
      /\ r.latest_snapshot \in SpectatorSnapshot
      /\ r.disk.latest_snapshot \in SpectatorSnapshot
      /\ r.latest_snapshot.generated_at <= r.disk.latest_snapshot.generated_at
      /\ r.put.snapshot.generated_at <= r.latest_snapshot.generated_at
      /\ r.put.snapshot.published_at <= now
  BY DEF Good, IsBridge, Bridge, InOrder
<1>5. InOrder(q, r.put.snapshot, now)
  BY <1>1, <1>2, <1>4, SnapshotHasFields DEF InOrder
<1> QED
  BY <1>2, <1>3, <1>5, AfterPutKeepsOrder DEF Good

\* A failed write changes the times of the retry only.
LEMMA FailureKeepsOrder ==
  ASSUME NEW r, NEW o, now \in Nat, Good(r, o, now), r.put # None
  PROVE  Good(putFailed(r), o, now)
<1> DEFINE streak == r.publish_failure_streak + 1
           due == r.put.snapshot.published_at + calculateBackoff(streak)
           q == [r EXCEPT !.publish_failure_streak = streak,
                          !.last_publish_error_at = r.put.snapshot.published_at,
                          !.publish_alarm_at = due]
<1>1. putFailed(r) = afterPut(q)
  BY DEF putFailed
<1>2. r.put.snapshot.published_at \in Nat
  BY SnapshotHasFields DEF Good, IsBridge
<1> HIDE DEF streak, due
<1>3. Good(q, o, now)
  <2>0. IsBridge(r)
    BY DEF Good
  <2>1. q = Bridge(r.latest_snapshot, r.last_publish_at, due,
                   r.put.snapshot.published_at, streak,
                   r.put, r.publish_queued, r.disk, r.alarm)
    BY <2>0, FailureSet
  <2> HIDE DEF q
  <2>2. IsBridge(q)
    BY <1>2, <2>1 DEF Good, IsBridge, Bridge
  <2> QED
    BY <2>1, <2>2, SameSnapshots DEF Bridge
<1> QED
  BY <1>1, <1>3, AfterPutKeepsOrder

\* The alarm publishes the newest snapshot when its time has come.
LEMMA AlarmKeepsOrder ==
  ASSUME NEW r, NEW o, now \in Nat, Good(r, o, now)
  PROVE  Good(alarm(r), o, now)
<1> DEFINE rung == [r EXCEPT !.alarm = None]
           due == [rung EXCEPT !.publish_alarm_at = None]
<1>1. Good(rung, o, now)
  BY DEF Good, IsBridge, Bridge, InOrder
<1>2. alarm(r) = rescheduleAlarm(
        IF r.publish_alarm_at # None /\ r.publish_alarm_at <= now
        THEN publishLatestSnapshot(due, "alarm") ELSE rung)
  BY DEF alarm
<1> HIDE DEF rung
<1>3. Good(due, o, now)
  BY <1>1 DEF Good, IsBridge, Bridge, InOrder
<1> HIDE DEF due
<1> QED
  BY <1>1, <1>2, <1>3, PublishKeepsOrder, RescheduleKeepsOrder

\* A relay that boots knows what was durable; the object is the old one, or
\* the one whose write the eviction ended.
LEMMA BootKeepsOrder ==
  ASSUME NEW r, NEW o, NEW t, Good(r, o, t), NEW n,
         n = o \/ (r.put # None /\ n = r.put.snapshot)
  PROVE  Good(boot(r), n, t)
<1> DEFINE b == BridgeState(r.disk, r.alarm)
<1>1. /\ IsBridge(b) /\ b.put = None /\ b.disk = r.disk
      /\ b.latest_snapshot = r.disk.latest_snapshot
  BY DEF BridgeState, Good, IsBridge, Bridge
<1>2. boot(r) = rescheduleAlarm(b)
  BY DEF boot
<1> HIDE DEF b
<1>3. r.disk.latest_snapshot # None =>
        r.disk.latest_snapshot.generated_at \in Nat
  BY SnapshotHasFields DEF Good, IsBridge
<1>4. r.latest_snapshot # None => r.latest_snapshot.generated_at \in Nat
  BY SnapshotHasFields DEF Good, IsBridge
<1>5. CASE n = o
  <2>1. o # None => o.generated_at \in Nat
    BY SnapshotHasFields DEF Good, InOrder
  <2>2. InOrder(b, n, t)
    BY <1>1, <1>3, <1>4, <1>5, <2>1 DEF Good, InOrder
  <2> QED
    BY <1>1, <1>2, <2>2, RescheduleKeepsOrder DEF Good
<1>6. CASE r.put # None /\ n = r.put.snapshot
  <2>1. n \in SpectatorSnapshot /\ n.generated_at \in Nat
    BY <1>6, SnapshotHasFields DEF Good, IsBridge
  <2>2. InOrder(b, n, t)
    BY <1>1, <1>3, <1>4, <1>6, <2>1 DEF Good, InOrder
  <2> QED
    BY <1>1, <1>2, <2>2, RescheduleKeepsOrder DEF Good
<1> QED
  BY <1>5, <1>6

\* Whose write it is does not matter.
LEMMA AbandonKeepsOrder ==
  ASSUME NEW r, NEW o, NEW t, Good(r, o, t)
  PROVE  Good(AbandonPut(r), o, t)
<1>1. CASE r.put # None /\ r.put.by = "server"
  <2> DEFINE q == [r EXCEPT !.put.by = "nobody"]
  <2>1. r.put = [snapshot |-> r.put.snapshot, by |-> r.put.by]
    BY <1>1 DEF Good, IsBridge
  <2>2. [r.put EXCEPT !.by = "nobody"] = [snapshot |-> r.put.snapshot, by |-> "nobody"]
    BY <2>1
  <2>3. AbandonPut(r) = [r EXCEPT !.put = [snapshot |-> r.put.snapshot, by |-> "nobody"]]
    BY <1>1, <2>2 DEF AbandonPut
  <2> QED
    BY <1>1, <2>3 DEF Good, IsBridge, Bridge, InOrder
<1>2. CASE ~(r.put # None /\ r.put.by = "server")
  BY <1>2 DEF AbandonPut
<1> QED
  BY <1>1, <1>2

(***************************************************************************)
(* The server of the pipeline.                                             *)
(***************************************************************************)
\* Whatever happens to posts and to the relay, the server takes a step of the
\* publisher, or none.
LEMMA ServerStep == [Next]_vars => [PublisherNext]_<<publisherVars, now>>
<1> SUFFICES ASSUME [Next]_vars
             PROVE  [PublisherNext]_<<publisherVars, now>>
  OBVIOUS
<1> DEFINE Step == [PublisherNext]_<<publisherVars, now>>
<1>1. ASSUME NEW by, NEW ok, NEW waiting, Answer(by, ok, waiting), UNCHANGED now
      PROVE  Step
  BY <1>1 DEF Answer, PublisherNext
<1>2. CASE ServerTimerFires
  BY <1>2 DEF ServerTimerFires, PublisherNext
<1>3. CASE RelayReceives
  <2>1. PICK m \in transit :
          /\ IF relay.put # None THEN Answer(m.by, TRUE, transit \ {m})
             ELSE IF isPublishBackoffActive(applySnapshot(relay, m.body))
             THEN Answer(m.by, FALSE, transit \ {m})
             ELSE transit' = transit \ {m} /\ UNCHANGED publisherVars
          /\ UNCHANGED now
    BY <1>3 DEF RelayReceives
  <2> HIDE DEF Step
  <2>2. UNCHANGED publisherVars /\ UNCHANGED now => Step
    BY DEF Step
  <2>3. \/ Answer(m.by, TRUE, transit \ {m})
        \/ Answer(m.by, FALSE, transit \ {m})
        \/ UNCHANGED publisherVars
    BY <2>1
  <2>4. CASE Answer(m.by, TRUE, transit \ {m})
    BY <2>1, <2>4 DEF Answer, PublisherNext, Step
  <2>5. CASE Answer(m.by, FALSE, transit \ {m})
    BY <2>1, <2>5 DEF Answer, PublisherNext, Step
  <2> QED
    BY <2>1, <2>2, <2>3, <2>4, <2>5
<1>4. ASSUME NEW r, NEW ok, PutEnds(r, ok) PROVE Step
  <2>1. UNCHANGED now
    BY <1>4 DEF PutEnds
  <2>2. CASE UNCHANGED publisherVars
    BY <2>1, <2>2
  <2>3. CASE Answer(relay.put.by, AnsweredWell(relay, ok), transit)
    <3> HIDE DEF Step
    <3> QED
      BY <1>1, <2>1, <2>3
  <2> QED
    BY <1>4, <2>2, <2>3 DEF PutEnds
<1>5. CASE PutSucceeds
  BY <1>4, <1>5 DEF PutSucceeds
<1>6. CASE RelayAlarmRings
  BY <1>6 DEF RelayAlarmRings
<1>7. CASE ClockTicks
  BY <1>7 DEF ClockTicks, PublisherNext
<1>8. CASE ServerChanges
  BY <1>8 DEF ServerChanges, PublisherNext
<1>9. CASE ServerIsStopped
  BY <1>9 DEF ServerIsStopped, PublisherNext
<1>10. CASE PostTimesOut
  BY <1>10 DEF PostTimesOut, PublisherNext
<1>11. CASE PostIsLost
  BY <1>11 DEF PostIsLost, PublisherNext
<1>12. CASE ServerIsKilled
  BY <1>12 DEF ServerIsKilled, PublisherNext
<1>13. CASE PutFails
  BY <1>4, <1>13 DEF PutFails
<1>14. CASE RelayIsEvicted
  BY <1>14 DEF RelayIsEvicted, PublisherNext
<1>15. CASE UNCHANGED vars
  BY <1>15 DEF vars
<1> QED
  BY <1>2, <1>3, <1>5, <1>6, <1>7, <1>8, <1>9, <1>10, <1>11, <1>12, <1>13,
     <1>14, <1>15 DEF Next, Work

\* What is proved of the publisher by itself holds of the pipeline's server.
THEOREM PipelineImplementsPublisher == Spec => PublisherSpec
<1>1. Init => InitPublisher
  BY DEF Init
<1> QED
  BY <1>1, ServerStep, PTL DEF Spec, PublisherSpec

\* In the pipeline too, no request of the server is forgotten, and a quiet
\* server was answered for the world as it is.
THEOREM PipelineRequestsAreTakenUp ==
  Spec => [](RequestsAreTakenUp /\ QuietMeansServed)
BY PipelineImplementsPublisher, RequestsAlwaysTakenUp, QuietAlwaysMeansServed, PTL

(***************************************************************************)
(* The relay and the object.                                               *)
(***************************************************************************)
\* Snapshots on their way are snapshots, and the relay's are in order.
PipelineIInv ==
  /\ \A m \in transit : m.body \in WorldSnapshot
  /\ Good(relay, object, now)

\* A relay that never heard of a snapshot, and no object.
LEMMA PipelineInit == Init => PipelineIInv
BY DEF Init, InitPublisher, PipelineIInv, Good, IsBridge, Bridge, InOrder,
       createBridgeState, BridgeState

\* Time that passes makes no snapshot newer.
LEMMA LaterIsInOrder ==
  ASSUME NEW r, NEW o, NEW t \in Nat, NEW u \in Nat, t <= u, Good(r, o, t)
  PROVE  Good(r, o, u)
<1>1. r.put # None => r.put.snapshot.published_at \in Nat
  BY SnapshotHasFields DEF Good, IsBridge
<1>2. o # None => o.published_at \in Nat
  BY SnapshotHasFields DEF Good, InOrder
<1> QED
  BY <1>1, <1>2 DEF Good, InOrder

\* A post that sets out carries a snapshot of the world.
LEMMA SentPosts ==
  ASSUME PublisherIInv', NEW waiting, \A m \in waiting : m.body \in WorldSnapshot,
         transit' \subseteq waiting \/ SendPost(waiting)
  PROVE  \A m \in transit' : m.body \in WorldSnapshot
<1>1. CASE transit' \subseteq waiting
  BY <1>1
<1>2. CASE SendPost(waiting) /\ Posting(publisher')
  <2>1. post' \in WorldSnapshot
    BY <1>2 DEF PublisherIInv, Posting
  <2> QED
    BY <1>2, <2>1 DEF SendPost, Post
<1>3. CASE SendPost(waiting) /\ ~Posting(publisher')
  BY <1>3 DEF SendPost
<1> QED
  BY <1>1, <1>2, <1>3

\* Every step keeps the snapshots in order.
LEMMA PipelineStep ==
  ASSUME PublisherIInv, PublisherIInv', PipelineIInv, [Next]_vars
  PROVE  PipelineIInv'
<1> DEFINE OnTheWay(T) == \A m \in T : m.body \in WorldSnapshot
<1>0. /\ now \in Nat /\ now' \in Nat
      /\ OnTheWay(transit) /\ Good(relay, object, now)
  BY DEF PublisherIInv, PublisherTypeOK, PipelineIInv
<1> SUFFICES OnTheWay(transit') /\ Good(relay', object', now')
  BY DEF PipelineIInv
<1>1. ASSUME NEW by, NEW ok, NEW waiting \in SUBSET transit,
             Answer(by, ok, waiting)
      PROVE  OnTheWay(transit')
  <2>1. transit' \subseteq waiting \/ SendPost(waiting)
    BY <1>1 DEF Answer
  <2> QED
    BY <1>0, <2>1, SentPosts
<1>2. ASSUME PostSetsOut
      PROVE  OnTheWay(transit')
  <2>1. transit' \subseteq transit \/ SendPost(transit)
    BY <1>2 DEF PostSetsOut
  <2> QED
    BY <1>0, <2>1, SentPosts
<1>3. OnTheWay(Abandon(transit))
  BY <1>0 DEF Abandon, Post
<1> HIDE DEF OnTheWay
<1>4. CASE ServerTimerFires \/ ServerChanges \/ ServerIsStopped
  <2>1. PostSetsOut /\ UNCHANGED <<relay, object, now>>
    BY <1>4 DEF ServerTimerFires, ServerChanges, ServerIsStopped, PostSetsOut,
                PublisherTimerFires, WorldChanges, ServerIsDisposed, relayVars
  <2> QED
    BY <1>0, <1>2, <2>1
<1>5. CASE RelayReceives
  <2>1. PICK m \in transit :
          /\ relay' = receiveSnapshot(relay, m.body, m.by)
          /\ IF relay.put # None THEN Answer(m.by, TRUE, transit \ {m})
             ELSE IF isPublishBackoffActive(applySnapshot(relay, m.body))
             THEN Answer(m.by, FALSE, transit \ {m})
             ELSE transit' = transit \ {m} /\ UNCHANGED publisherVars
          /\ UNCHANGED <<object, now>>
    BY <1>5 DEF RelayReceives
  <2>2. m.body \in WorldSnapshot /\ OnTheWay(transit \ {m})
    BY <1>0 DEF OnTheWay
  <2>3. \/ Answer(m.by, TRUE, transit \ {m})
        \/ Answer(m.by, FALSE, transit \ {m})
        \/ transit' = transit \ {m}
    BY <2>1
  <2>4. OnTheWay(transit')
    <3>1. CASE Answer(m.by, TRUE, transit \ {m})
      BY <1>1, <3>1
    <3>2. CASE Answer(m.by, FALSE, transit \ {m})
      BY <1>1, <3>2
    <3> QED
      BY <2>2, <2>3, <3>1, <3>2
  <2>5. Good(relay', object', now')
    BY <1>0, <2>1, <2>2, ReceiveKeepsOrder
  <2> QED
    BY <2>4, <2>5
<1>6. ASSUME NEW r, NEW ok, PutEnds(r, ok)
      PROVE  OnTheWay(transit') /\ relay' = r /\ now' = now
  <2>1. UNCHANGED transit \/ Answer(relay.put.by, AnsweredWell(relay, ok), transit)
    BY <1>6 DEF PutEnds
  <2>2. OnTheWay(transit')
    BY <1>0, <1>1, <2>1
  <2> QED
    BY <1>6, <2>2 DEF PutEnds
<1>7. CASE PutSucceeds
  <2>1. relay.put # None /\ object' = relay.put.snapshot
        /\ PutEnds(putSucceeded(relay), TRUE)
    BY <1>7 DEF PutSucceeds
  <2>2. Good(putSucceeded(relay), relay.put.snapshot, now)
    BY <1>0, <2>1, SuccessKeepsOrder
  <2> QED
    BY <1>6, <2>1, <2>2
<1>8. CASE PutFails
  <2>1. relay.put # None /\ object' = object /\ PutEnds(putFailed(relay), FALSE)
    BY <1>8 DEF PutFails
  <2>2. Good(putFailed(relay), object, now)
    BY <1>0, <2>1, FailureKeepsOrder
  <2> QED
    BY <1>6, <2>1, <2>2
<1>9. CASE RelayAlarmRings
  BY <1>0, <1>9, AlarmKeepsOrder DEF RelayAlarmRings
<1>10. CASE RelayIsEvicted
  <2>1. /\ relay' = boot(relay) /\ transit' = transit /\ now' = now
        /\ object' \in {object} \cup IF relay.put = None THEN {}
                                     ELSE {relay.put.snapshot}
    BY <1>10 DEF RelayIsEvicted
  <2>2. object' = object \/ (relay.put # None /\ object' = relay.put.snapshot)
    BY <2>1
  <2>3. Good(boot(relay), object', now)
    BY <1>0, <2>2, BootKeepsOrder
  <2> QED
    BY <1>0, <2>1, <2>3
<1>11. CASE PostTimesOut
  BY <1>0, <1>3, <1>11, AbandonKeepsOrder DEF PostTimesOut
<1>12. CASE PostIsLost
  <2>1. OnTheWay(transit')
    BY <1>0, <1>12 DEF PostIsLost, OnTheWay
  <2> QED
    BY <1>0, <1>12, <2>1 DEF PostIsLost, relayVars
<1>13. CASE ServerIsKilled
  <2>1. /\ transit' = Abandon(transit) /\ relay' = AbandonPut(relay)
        /\ object' = object /\ now' = now + 1
    BY <1>13 DEF ServerIsKilled, ServerRestarts, Tick
  <2>2. Good(relay', object', now)
    BY <1>0, <2>1, AbandonKeepsOrder
  <2> QED
    BY <1>0, <1>3, <2>1, <2>2, LaterIsInOrder
<1>14. CASE ClockTicks
  <2>1. now' = now + 1 /\ UNCHANGED <<relay, object, transit>>
    BY <1>14 DEF ClockTicks, Tick, relayVars
  <2> QED
    BY <1>0, <2>1, LaterIsInOrder
<1>15. CASE UNCHANGED vars
  BY <1>0, <1>15 DEF vars, relayVars
<1> QED
  BY <1>4, <1>5, <1>7, <1>8, <1>9, <1>10, <1>11, <1>12, <1>13, <1>14, <1>15
  DEF Next, Work

\* The snapshots are in order throughout every behaviour.
THEOREM PipelineInvariant == Spec => []PipelineIInv
<1>1. PublisherIInv /\ PublisherIInv' /\ PipelineIInv /\ [Next]_vars
        => PipelineIInv'
  BY PipelineStep
<1> QED
  BY <1>1, PipelineInit, PipelineImplementsPublisher, PublisherInvariant, PTL
  DEF Spec

\* A step writes a version that is not older than the one there is, or leaves
\* the object alone.
LEMMA ObjectStep ==
  ASSUME PipelineIInv, [Next]_vars
  PROVE  [Promised!Published]_object
<1>1. CASE relay.put # None /\ object' = relay.put.snapshot
  <2>1. relay.put.snapshot \in SpectatorSnapshot
    BY <1>1 DEF PipelineIInv, Good, IsBridge
  <2>2. /\ relay.put.snapshot # None
        /\ relay.put.snapshot.generated_at \in Nat
        /\ relay.put.snapshot.published_at \in Nat
    BY <2>1, SnapshotHasFields
  <2>3. object # None =>
          /\ object.generated_at \in Nat /\ object.published_at \in Nat
          /\ object.generated_at <= relay.put.snapshot.generated_at
          /\ object.published_at <= relay.put.snapshot.published_at
    BY <1>1, SnapshotHasFields DEF PipelineIInv, Good, InOrder
  <2> QED
    BY <1>1, <2>2, <2>3 DEF Promised!Published, Promised!OlderVersion
<1>2. CASE object' = object
  BY <1>2
<1>3. object' = object \/ (relay.put # None /\ object' = relay.put.snapshot)
  BY DEF Next, Work, vars, relayVars, ServerTimerFires, ServerChanges,
         ServerIsStopped, PostSetsOut, RelayReceives, PutSucceeds, PutFails,
         RelayAlarmRings, RelayIsEvicted, PostTimesOut, PostIsLost,
         ServerIsKilled, ClockTicks
<1> QED
  BY <1>1, <1>2, <1>3

\* The pipeline keeps its promise to spectators: through every run of lost
\* posts, failed writes, kills and evictions the object never becomes older.
THEOREM PipelineImplementsObject == Spec => ImplementsPublishedObject
<1>1. Init => object = None
  BY DEF Init
<1> QED
  BY <1>1, PipelineInvariant, ObjectStep, PTL
  DEF Spec, ImplementsPublishedObject, Promised!ObjectSpec
(***************************************************************************)
(* What is retried, and what an eviction forgets.                          *)
(***************************************************************************)
\* What is durable are the fields that are saved; a relay that was never
\* sent a snapshot never saved one.
Shaped(r) ==
  /\ IsBridge(r)
  /\ r.disk = Persisted(r.disk)
  /\ r.publish_failure_streak \in Nat /\ r.disk.publish_failure_streak \in Nat
  /\ r.latest_snapshot = None => r.disk.latest_snapshot = None
  /\ r.put # None => r.latest_snapshot # None

\* The alarm is set for the time that a publication is due.
AlarmIsSet(r) == r.publish_alarm_at # None => r.alarm = r.publish_alarm_at

\* No publication is queued behind none, and between publications what is
\* durable is what is known, and the alarm is set.
SavedWhenIdle(r) ==
  r.put = None =>
    /\ r.publish_queued = FALSE
    /\ r.latest_snapshot # None => r.disk = Persisted(r) /\ AlarmIsSet(r)

\* While the alarm's publication is in flight the retry it took up is durable,
\* unless a newer snapshot was saved meanwhile.
RetryIsDurable(r, newer) ==
  r.put # None /\ r.put.by = "alarm" /\ ~newer => r.disk.publish_alarm_at # None

\* A publication is in flight, or the alarm is set for one.
Retried(r) ==
  r.put # None \/ (r.publish_alarm_at # None /\ r.alarm = r.publish_alarm_at)

\* Nothing is in flight, or queued, and there is something to publish.
IsIdle(r) ==
  r.put = None /\ r.publish_queued = FALSE /\ r.latest_snapshot # None

\* The server goes on with what it was asked to publish, or is excused.
Caring(p) == p.dirty \/ Posting(p) \/ p.gaveUp \/ p.disposed

\* UnpublishedIsRetried with all that it rests on.
RetryIInv ==
  /\ \A m \in transit : m.by \in {"server", "nobody"}
  /\ relay.put # None => relay.put.by \in Callers
  /\ overtaken \in BOOLEAN /\ forgotten \in BOOLEAN
  /\ Shaped(relay) /\ SavedWhenIdle(relay) /\ RetryIsDurable(relay, overtaken)
  /\ UnpublishedIsRetried

\* The time of a retry is a time.
LEMMA BackoffIsTime ==
  ASSUME NEW streak \in Nat
  PROVE  calculateBackoff(streak) \in Int
<1> DEFINE e == IF streak > 1 THEN streak - 1 ELSE 0
           b == RetryBase * 2 ^ e
<1>1. e \in Nat
  OBVIOUS
<1> HIDE DEF e
<1>2. 2 ^ e \in Int
  BY <1>1, SMT
<1>3. b \in Int /\ BackoffMax \in Int
  BY <1>2, BackoffAssumption
<1> HIDE DEF b
<1>4. Min({b, BackoffMax}) \in Int
  BY <1>3 DEF Min
<1> QED
  BY <1>4 DEF calculateBackoff, b, e

\* Setting the alarm for the time it is due.
LEMMA RescheduleSet ==
  ASSUME NEW r, Shaped(r), NEW q, q = rescheduleAlarm(r)
  PROVE  /\ Shaped(q) /\ AlarmIsSet(q)
         /\ q.latest_snapshot = r.latest_snapshot /\ q.put = r.put
         /\ q.publish_queued = r.publish_queued
         /\ q.publish_alarm_at = r.publish_alarm_at
         /\ q.disk = r.disk /\ Persisted(q) = Persisted(r)
         /\ AlarmIsSet(r) => q = r
<1>1. CASE r.publish_alarm_at = None
  BY <1>1 DEF rescheduleAlarm, AlarmIsSet
<1>2. CASE r.publish_alarm_at # None
  <2>1. q = [r EXCEPT !.alarm = r.publish_alarm_at]
    BY <1>2 DEF rescheduleAlarm
  <2>2. q = Bridge(r.latest_snapshot, r.last_publish_at, r.publish_alarm_at,
                   r.last_publish_error_at, r.publish_failure_streak,
                   r.put, r.publish_queued, r.disk, r.publish_alarm_at)
    BY <2>1 DEF Shaped, IsBridge, Bridge
  <2>3. /\ q.latest_snapshot = r.latest_snapshot /\ q.put = r.put
        /\ q.publish_queued = r.publish_queued
        /\ q.publish_alarm_at = r.publish_alarm_at
        /\ q.publish_failure_streak = r.publish_failure_streak
        /\ q.disk = r.disk /\ Persisted(q) = Persisted(r)
        /\ q.alarm = r.publish_alarm_at
    BY <2>2 DEF Bridge, Persisted
  <2>4. IsBridge(q)
    BY <2>2 DEF Shaped, IsBridge, Bridge
  <2>5. AlarmIsSet(r) => q = r
    BY <1>2, <2>2 DEF AlarmIsSet, Shaped, IsBridge
  <2> QED
    BY <2>3, <2>4, <2>5 DEF Shaped, AlarmIsSet
<1> QED
  BY <1>1, <1>2

\* Saving a relay that has a snapshot.
LEMMA PersistSet ==
  ASSUME NEW r, Shaped(r), r.latest_snapshot # None,
         NEW q, q = persistRuntimeState(r)
  PROVE  /\ Shaped(q)
         /\ q.latest_snapshot = r.latest_snapshot /\ q.put = r.put
         /\ q.publish_queued = r.publish_queued
         /\ q.publish_alarm_at = r.publish_alarm_at
         /\ q.disk = Persisted(r) /\ Persisted(q) = Persisted(r)
         /\ r.disk = Persisted(r) => q = r
<1>1. q = [r EXCEPT !.disk = Persisted(r)]
  BY DEF persistRuntimeState
<1>2. q = Bridge(r.latest_snapshot, r.last_publish_at, r.publish_alarm_at,
                 r.last_publish_error_at, r.publish_failure_streak,
                 r.put, r.publish_queued, Persisted(r), r.alarm)
  BY <1>1 DEF Shaped, IsBridge, Bridge
<1>3. /\ q.latest_snapshot = r.latest_snapshot /\ q.put = r.put
      /\ q.publish_queued = r.publish_queued
      /\ q.publish_alarm_at = r.publish_alarm_at
      /\ q.publish_failure_streak = r.publish_failure_streak
      /\ q.disk = Persisted(r) /\ Persisted(q) = Persisted(r)
  BY <1>2 DEF Bridge, Persisted
<1>4. Persisted(r) = Persisted(Persisted(r))
      /\ Persisted(r).publish_failure_streak = r.publish_failure_streak
  BY DEF Persisted
<1>5. IsBridge(q)
  BY <1>2 DEF Shaped, IsBridge, Bridge, Persisted
<1>6. r.disk = Persisted(r) => q = r
  BY <1>2 DEF Shaped, IsBridge
<1> QED
  BY <1>3, <1>4, <1>5, <1>6 DEF Shaped

\* A publication of an idle relay is in flight, or is put off to the alarm.
LEMMA PublishRetries ==
  ASSUME NEW r, Shaped(r), IsIdle(r), now \in Nat,
         NEW by \in Callers,
         NEW q, q = publishLatestSnapshot(r, by)
  PROVE  /\ Shaped(q) /\ SavedWhenIdle(q) /\ Retried(q)
         /\ q.latest_snapshot = r.latest_snapshot
         /\ q.put # None => q.disk = r.disk /\ q.put.by = by
<1>1. CASE isPublishBackoffActive(r)
  <2> DEFINE d == persistRuntimeState(r)
  <2>1. q = rescheduleAlarm(d)
    BY <1>1 DEF publishLatestSnapshot, IsIdle
  <2>2. /\ Shaped(d)
        /\ d.latest_snapshot = r.latest_snapshot /\ d.put = r.put
        /\ d.publish_queued = r.publish_queued
        /\ d.publish_alarm_at = r.publish_alarm_at
        /\ d.disk = Persisted(r) /\ Persisted(d) = Persisted(r)
    BY PersistSet DEF IsIdle
  <2> HIDE DEF d
  <2>3. /\ Shaped(q) /\ AlarmIsSet(q)
        /\ q.latest_snapshot = d.latest_snapshot /\ q.put = d.put
        /\ q.publish_queued = d.publish_queued
        /\ q.publish_alarm_at = d.publish_alarm_at
        /\ q.disk = d.disk /\ Persisted(q) = Persisted(d)
    BY <2>1, <2>2, RescheduleSet
  <2>4. r.publish_alarm_at # None
    BY <1>1 DEF isPublishBackoffActive
  <2> QED
    BY <2>2, <2>3, <2>4 DEF SavedWhenIdle, Retried, IsIdle, AlarmIsSet
<1>2. CASE ~isPublishBackoffActive(r)
  <2> DEFINE s == [r.latest_snapshot EXCEPT !.published_at = now]
             u == [snapshot |-> s, by |-> by]
  <2>1. q = [r EXCEPT !.put = u]
    BY <1>2 DEF publishLatestSnapshot, IsIdle
  <2>2. s \in SpectatorSnapshot
    BY DEF Shaped, IsBridge, SpectatorSnapshot, IsIdle
  <2>3. u = [snapshot |-> u.snapshot, by |-> u.by] /\ u.by = by
        /\ u.snapshot \in SpectatorSnapshot /\ u # None
    <3> HIDE DEF s
    <3> QED
      BY <2>2, SnapshotAssumption DEF Publication
  <2> HIDE DEF u
  <2>4. q = Bridge(r.latest_snapshot, r.last_publish_at, r.publish_alarm_at,
                   r.last_publish_error_at, r.publish_failure_streak,
                   u, r.publish_queued, r.disk, r.alarm)
    BY <2>1 DEF Shaped, IsBridge, Bridge
  <2>5. IsBridge(q)
    BY <2>3, <2>4 DEF Shaped, IsBridge, Bridge
  <2> QED
    BY <2>3, <2>4, <2>5 DEF Shaped, SavedWhenIdle, Retried, Bridge, IsIdle
<1> QED
  BY <1>1, <1>2

\* A snapshot that comes in is saved at once, unless it is older.
LEMMA ApplySaves ==
  ASSUME NEW r, Shaped(r), NEW body \in WorldSnapshot,
         NEW a, a = applySnapshot(r, body)
  PROVE  /\ Shaped(a) /\ a.latest_snapshot # None
         /\ a.put = r.put /\ a.publish_queued = r.publish_queued
         /\ a.publish_alarm_at = r.publish_alarm_at
<1>1. CASE r.latest_snapshot # None
           /\ body.generated_at < r.latest_snapshot.generated_at
  BY <1>1 DEF applySnapshot
<1>2. CASE ~(r.latest_snapshot # None
             /\ body.generated_at < r.latest_snapshot.generated_at)
  <2> DEFINE s == buildSpectatorSnapshot(r, body)
             p == [r EXCEPT !.latest_snapshot = s]
  <2>1. s \in SpectatorSnapshot
    BY DEF Shaped, IsBridge, WorldSnapshot, SpectatorSnapshot,
           buildSpectatorSnapshot
  <2>2. a = persistRuntimeState(p)
    BY <1>2 DEF applySnapshot
  <2> HIDE DEF s
  <2>3. s # None
    BY <2>1, SnapshotHasFields
  <2>4. p = Bridge(s, r.last_publish_at, r.publish_alarm_at,
                   r.last_publish_error_at, r.publish_failure_streak,
                   r.put, r.publish_queued, r.disk, r.alarm)
    BY DEF Shaped, IsBridge, Bridge
  <2> HIDE DEF p
  <2>5. /\ Shaped(p) /\ p.latest_snapshot = s /\ p.put = r.put
        /\ p.publish_queued = r.publish_queued
        /\ p.publish_alarm_at = r.publish_alarm_at
    BY <2>1, <2>3, <2>4 DEF Shaped, IsBridge, Bridge
  <2> QED
    BY <2>2, <2>3, <2>5, PersistSet
<1> QED
  BY <1>1, <1>2

\* A publication asked for while one is in flight is queued behind it.
LEMMA QueuedSet ==
  ASSUME NEW r, Shaped(r), r.put # None, NEW by,
         NEW q, q = publishLatestSnapshot(r, by)
  PROVE  /\ Shaped(q) /\ q.put = r.put /\ q.disk = r.disk
         /\ q.latest_snapshot = r.latest_snapshot
<1>1. q = [r EXCEPT !.publish_queued = TRUE]
  BY DEF publishLatestSnapshot
<1>2. q = Bridge(r.latest_snapshot, r.last_publish_at, r.publish_alarm_at,
                 r.last_publish_error_at, r.publish_failure_streak,
                 r.put, TRUE, r.disk, r.alarm)
  BY <1>1 DEF Shaped, IsBridge, Bridge
<1> QED
  BY <1>2 DEF Shaped, IsBridge, Bridge

\* A call that is received leaves a publication, or an alarm set for one.
LEMMA ReceiveRetries ==
  ASSUME NEW r, Shaped(r), SavedWhenIdle(r),
         NEW newer \in BOOLEAN, RetryIsDurable(r, newer),
         NEW body \in WorldSnapshot, NEW by \in {"server", "nobody"}, now \in Nat,
         NEW a, a = applySnapshot(r, body),
         NEW q, q = publishLatestSnapshot(a, by)
  PROVE  /\ Shaped(q) /\ SavedWhenIdle(q) /\ Retried(q)
         /\ RetryIsDurable(q, newer \/ (r.put # None /\ a # r))
         /\ q.put # None => q.put.by = IF r.put = None THEN by ELSE r.put.by
<1>1. /\ Shaped(a) /\ a.latest_snapshot # None
      /\ a.put = r.put /\ a.publish_queued = r.publish_queued
  BY ApplySaves
<1>2. CASE r.put = None
  <2>1. IsIdle(a)
    BY <1>1, <1>2 DEF SavedWhenIdle, IsIdle
  <2>2. by \in Callers
    BY DEF Callers
  <2>3. /\ Shaped(q) /\ SavedWhenIdle(q) /\ Retried(q)
        /\ q.put # None => q.put.by = by
    BY <1>1, <2>1, <2>2, PublishRetries, Zenon
  <2> QED
    BY <1>2, <2>3 DEF RetryIsDurable
<1>3. CASE r.put # None
  <2>1. a.put # None
    BY <1>1, <1>3
  <2>2. Shaped(q) /\ q.put = a.put /\ q.disk = a.disk
    BY <1>1, <2>1, QueuedSet, ZenonT(40)
  <2> QED
    BY <1>1, <1>3, <2>2 DEF SavedWhenIdle, Retried, RetryIsDurable
<1> QED
  BY <1>2, <1>3

\* A publication that is over is followed by the one queued behind it, or by
\* what is saved.
LEMMA AfterPutRetries ==
  ASSUME NEW r, Shaped(r), r.put # None,
         r.put.by \in Callers,
         NEW newer \in BOOLEAN, RetryIsDurable(r, newer), now \in Nat,
         NEW q, q = afterPut(r)
  PROVE  /\ Shaped(q) /\ SavedWhenIdle(q) /\ RetryIsDurable(q, newer)
         /\ q.put # None => q.put.by = r.put.by
         /\ q.latest_snapshot = r.latest_snapshot
         /\ r.publish_queued \/ r.publish_alarm_at # None => Retried(q)
         /\ ~r.publish_queued => q.put = None
<1> DEFINE done == [r EXCEPT !.put = None, !.publish_queued = FALSE]
<1>1. done = Bridge(r.latest_snapshot, r.last_publish_at, r.publish_alarm_at,
                    r.last_publish_error_at, r.publish_failure_streak,
                    None, FALSE, r.disk, r.alarm)
  BY PutSet DEF Shaped
<1>2. q = IF r.publish_queued THEN publishLatestSnapshot(done, r.put.by)
          ELSE rescheduleAlarm(persistRuntimeState(done))
  BY DEF afterPut
<1> HIDE DEF done
<1>3. /\ Shaped(done) /\ done.put = None /\ done.publish_queued = FALSE
      /\ done.latest_snapshot = r.latest_snapshot /\ r.latest_snapshot # None
      /\ done.publish_alarm_at = r.publish_alarm_at /\ done.disk = r.disk
  BY <1>1 DEF Shaped, IsBridge, Bridge
<1>4. CASE r.publish_queued
  <2>0. IsIdle(done)
    BY <1>3 DEF IsIdle
  <2>1. /\ Shaped(q) /\ SavedWhenIdle(q) /\ Retried(q)
        /\ q.latest_snapshot = done.latest_snapshot
        /\ q.put # None => q.disk = done.disk /\ q.put.by = r.put.by
    BY <1>2, <1>3, <1>4, <2>0, PublishRetries
  <2> QED
    BY <1>3, <1>4, <2>1 DEF RetryIsDurable
<1>5. CASE ~r.publish_queued
  <2> DEFINE d == persistRuntimeState(done)
  <2>1. /\ Shaped(d)
        /\ d.latest_snapshot = done.latest_snapshot /\ d.put = done.put
        /\ d.publish_queued = done.publish_queued
        /\ d.publish_alarm_at = done.publish_alarm_at
        /\ d.disk = Persisted(done) /\ Persisted(d) = Persisted(done)
    BY <1>3, PersistSet
  <2>2. q = rescheduleAlarm(d)
    BY <1>2, <1>5
  <2> HIDE DEF d
  <2>3. /\ Shaped(q) /\ AlarmIsSet(q)
        /\ q.latest_snapshot = d.latest_snapshot /\ q.put = d.put
        /\ q.publish_queued = d.publish_queued
        /\ q.publish_alarm_at = d.publish_alarm_at
        /\ q.disk = d.disk /\ Persisted(q) = Persisted(d)
    BY <2>1, <2>2, RescheduleSet
  <2> QED
    BY <1>3, <1>5, <2>1, <2>3 DEF SavedWhenIdle, Retried, RetryIsDurable, AlarmIsSet
<1> QED
  BY <1>4, <1>5

\* After a write that succeeded the object is the newest snapshot, unless
\* another publication begins.
LEMMA SuccessRetries ==
  ASSUME NEW r, Shaped(r), r.put # None,
         r.put.by \in Callers,
         NEW newer \in BOOLEAN, RetryIsDurable(r, newer), now \in Nat,
         NEW q, q = putSucceeded(r)
  PROVE  /\ Shaped(q) /\ SavedWhenIdle(q) /\ RetryIsDurable(q, newer)
         /\ q.put # None => q.put.by = r.put.by
         /\ q.latest_snapshot = r.put.snapshot \/ Retried(q)
<1> DEFINE p == [r EXCEPT !.latest_snapshot = r.put.snapshot,
                          !.last_publish_at = r.put.snapshot.published_at,
                          !.last_publish_error_at = 0, !.publish_alarm_at = None,
                          !.publish_failure_streak = 0]
<1>1. /\ r.put.snapshot \in SpectatorSnapshot /\ r.put.snapshot # None
      /\ r.put.snapshot.published_at \in Nat
  BY SnapshotHasFields DEF Shaped, IsBridge
<1>2. p = Bridge(r.put.snapshot, r.put.snapshot.published_at, None, 0, 0,
                 r.put, r.publish_queued, r.disk, r.alarm)
  <2>1. r \in Only(r.latest_snapshot, r.last_publish_at, r.publish_alarm_at,
                   r.last_publish_error_at, r.publish_failure_streak, r.put,
                   r.publish_queued, r.disk, r.alarm)
    BY DEF Shaped, IsBridge, Bridge, Only
  <2>2. p \in Only(r.put.snapshot, r.put.snapshot.published_at, None, 0, 0, r.put,
                   r.publish_queued, r.disk, r.alarm)
    BY <2>1 DEF Only
  <2> HIDE DEF p
  <2> QED
    BY <2>2, OnlyOneBridge
<1>3. q = afterPut(p)
  BY DEF putSucceeded
<1> HIDE DEF p
<1>4. /\ Shaped(p) /\ p.put = r.put /\ p.disk = r.disk
      /\ p.latest_snapshot = r.put.snapshot
  BY <1>1, <1>2 DEF Shaped, IsBridge, Bridge
<1>5. RetryIsDurable(p, newer)
  BY <1>4 DEF RetryIsDurable
<1> QED
  BY <1>3, <1>4, <1>5, AfterPutRetries

\* After a write that failed another one follows, now or at the alarm.
LEMMA FailureRetries ==
  ASSUME NEW r, Shaped(r), r.put # None,
         r.put.by \in Callers,
         NEW newer \in BOOLEAN, RetryIsDurable(r, newer), now \in Nat,
         NEW q, q = putFailed(r)
  PROVE  /\ Shaped(q) /\ SavedWhenIdle(q) /\ RetryIsDurable(q, newer)
         /\ q.put # None => q.put.by = r.put.by
         /\ Retried(q)
<1> DEFINE streak == r.publish_failure_streak + 1
           due == r.put.snapshot.published_at + calculateBackoff(streak)
           p == [r EXCEPT !.publish_failure_streak = streak,
                          !.last_publish_error_at = r.put.snapshot.published_at,
                          !.publish_alarm_at = due]
<1>1. q = afterPut(p)
  BY DEF putFailed
<1>2. r.put.snapshot.published_at \in Nat /\ streak \in Nat
  BY SnapshotHasFields DEF Shaped, IsBridge
<1> HIDE DEF streak
<1>3. due \in Int
  BY <1>2, BackoffIsTime
<1> HIDE DEF due
<1>4. p = Bridge(r.latest_snapshot, r.last_publish_at, due,
                 r.put.snapshot.published_at, streak,
                 r.put, r.publish_queued, r.disk, r.alarm)
  BY FailureSet DEF Shaped
<1> HIDE DEF p
<1>5. /\ Shaped(p) /\ p.put = r.put /\ p.disk = r.disk
      /\ p.publish_alarm_at = due
  BY <1>2, <1>4 DEF Shaped, IsBridge, Bridge
<1>6. RetryIsDurable(p, newer) /\ p.publish_alarm_at # None
  BY <1>3, <1>5, NoneAssumption DEF RetryIsDurable
<1> QED
  BY <1>1, <1>5, <1>6, AfterPutRetries

\* The alarm takes up the publication that is due, or is set again.
LEMMA AlarmRetries ==
  ASSUME NEW r, Shaped(r), SavedWhenIdle(r),
         NEW newer \in BOOLEAN, RetryIsDurable(r, newer),
         r.put # None => r.put.by \in Callers, now \in Nat,
         NEW q, q = alarm(r)
  PROVE  /\ Shaped(q) /\ SavedWhenIdle(q) /\ RetryIsDurable(q, newer)
         /\ q.latest_snapshot = r.latest_snapshot
         /\ q.put # None => q.put.by \in Callers
         /\ Retried(r) /\ r.latest_snapshot # None => Retried(q)
<1> DEFINE rung == [r EXCEPT !.alarm = None]
           due == [rung EXCEPT !.publish_alarm_at = None]
           p == publishLatestSnapshot(due, "alarm")
           Due == r.publish_alarm_at # None /\ r.publish_alarm_at <= now
<1>1. q = rescheduleAlarm(IF Due THEN p ELSE rung)
  BY DEF alarm
<1>2. rung = Bridge(r.latest_snapshot, r.last_publish_at, r.publish_alarm_at,
                    r.last_publish_error_at, r.publish_failure_streak,
                    r.put, r.publish_queued, r.disk, None)
  BY DEF Shaped, IsBridge, Bridge
<1> HIDE DEF rung
<1>3. due = Bridge(r.latest_snapshot, r.last_publish_at, None,
                   r.last_publish_error_at, r.publish_failure_streak,
                   r.put, r.publish_queued, r.disk, None)
  BY <1>2 DEF Bridge
<1> HIDE DEF due
<1>4. /\ Shaped(rung) /\ rung.put = r.put /\ rung.disk = r.disk
      /\ rung.latest_snapshot = r.latest_snapshot
      /\ rung.publish_queued = r.publish_queued
      /\ rung.publish_alarm_at = r.publish_alarm_at
      /\ Persisted(rung) = Persisted(r)
  BY <1>2 DEF Shaped, IsBridge, Bridge, Persisted
<1>5. /\ Shaped(due) /\ due.put = r.put /\ due.disk = r.disk
      /\ due.latest_snapshot = r.latest_snapshot
      /\ due.publish_queued = r.publish_queued
  BY <1>3 DEF Shaped, IsBridge, Bridge
<1> HIDE DEF p
<1>6. CASE ~Due
  <2>1. q = rescheduleAlarm(rung)
    BY <1>1, <1>6
  <2>2. /\ Shaped(q) /\ AlarmIsSet(q)
        /\ q.latest_snapshot = rung.latest_snapshot /\ q.put = rung.put
        /\ q.publish_queued = rung.publish_queued
        /\ q.publish_alarm_at = rung.publish_alarm_at
        /\ q.disk = rung.disk /\ Persisted(q) = Persisted(rung)
    BY <1>4, <2>1, RescheduleSet
  <2> QED
    BY <1>4, <2>2 DEF SavedWhenIdle, RetryIsDurable, Retried, AlarmIsSet
<1>7. CASE Due
  <2>1. q = rescheduleAlarm(p)
    BY <1>1, <1>7
  <2>2. CASE r.put # None
    <3>1. Shaped(p) /\ p.put = r.put /\ p.disk = r.disk
          /\ p.latest_snapshot = r.latest_snapshot
      BY <1>5, <2>2, QueuedSet DEF p
    <3>2. /\ Shaped(q) /\ q.put = p.put /\ q.disk = p.disk
          /\ q.latest_snapshot = p.latest_snapshot
      BY <2>1, <3>1, RescheduleSet
    <3> QED
      BY <2>2, <3>1, <3>2 DEF SavedWhenIdle, RetryIsDurable, Retried
  <2>3. CASE r.put = None /\ r.latest_snapshot = None
    <3>1. p = [due EXCEPT !.publish_alarm_at = None]
      BY <1>5, <2>3 DEF p, publishLatestSnapshot
    <3>2. p = due
      BY <1>3, <3>1 DEF Bridge
    <3>3. /\ Shaped(q) /\ q.put = due.put /\ q.latest_snapshot = due.latest_snapshot
          /\ q.publish_queued = due.publish_queued
      BY <1>5, <2>1, <3>2, RescheduleSet
    <3> QED
      BY <1>5, <2>3, <3>3 DEF SavedWhenIdle, RetryIsDurable
  <2>4. CASE r.put = None /\ r.latest_snapshot # None
    <3>1. IsIdle(due) /\ "alarm" \in Callers
      BY <1>5, <2>4 DEF IsIdle, SavedWhenIdle, Callers
    <3>2. /\ Shaped(p) /\ SavedWhenIdle(p) /\ Retried(p)
          /\ p.latest_snapshot = due.latest_snapshot
          /\ p.put # None => p.disk = due.disk /\ p.put.by = "alarm"
      BY <1>5, <3>1, PublishRetries DEF p
    <3>3. /\ Shaped(q) /\ AlarmIsSet(q)
          /\ q.latest_snapshot = p.latest_snapshot /\ q.put = p.put
          /\ q.publish_queued = p.publish_queued
          /\ q.publish_alarm_at = p.publish_alarm_at
          /\ q.disk = p.disk /\ Persisted(q) = Persisted(p)
      BY <2>1, <3>2, RescheduleSet
    <3>4. r.disk.publish_alarm_at # None
      BY <1>7, <2>4 DEF SavedWhenIdle, Persisted
    <3> QED
      BY <1>5, <3>1, <3>2, <3>3, <3>4
      DEF SavedWhenIdle, RetryIsDurable, Retried, AlarmIsSet
  <2> QED
    BY <2>2, <2>3, <2>4
<1> QED
  BY <1>6, <1>7

\* A relay that boots has saved what it knows; one that was between two
\* publications is the one it was.
LEMMA BootRetries ==
  ASSUME NEW r, Shaped(r), SavedWhenIdle(r), NEW q, q = boot(r)
  PROVE  /\ Shaped(q) /\ SavedWhenIdle(q) /\ q.put = None /\ AlarmIsSet(q)
         /\ q.publish_alarm_at = r.disk.publish_alarm_at
         /\ r.put = None /\ r.latest_snapshot = None => q.latest_snapshot = None
         /\ r.put = None /\ r.latest_snapshot # None => q = r
<1> DEFINE b == BridgeState(r.disk, r.alarm)
<1>1. q = rescheduleAlarm(b)
  BY DEF boot
<1>2. b = Bridge(r.disk.latest_snapshot, r.disk.last_publish_at,
                 r.disk.publish_alarm_at, r.disk.last_publish_error_at,
                 r.disk.publish_failure_streak, None, FALSE, r.disk, r.alarm)
  BY DEF BridgeState, Bridge, Shaped, Persisted
<1> HIDE DEF b
<1>3. /\ Shaped(b) /\ b.put = None /\ b.publish_queued = FALSE
      /\ b.disk = r.disk /\ b.latest_snapshot = r.disk.latest_snapshot
      /\ b.publish_alarm_at = r.disk.publish_alarm_at
  BY <1>2 DEF Shaped, IsBridge, Bridge
<1>4. Persisted(b) = r.disk
  BY <1>2 DEF Shaped, Bridge, Persisted
<1>5. /\ Shaped(q) /\ AlarmIsSet(q)
      /\ q.latest_snapshot = b.latest_snapshot /\ q.put = b.put
      /\ q.publish_queued = b.publish_queued
      /\ q.publish_alarm_at = b.publish_alarm_at
      /\ q.disk = b.disk /\ Persisted(q) = Persisted(b)
      /\ AlarmIsSet(b) => q = b
  BY <1>1, <1>3, RescheduleSet
<1>6. ASSUME r.put = None, r.latest_snapshot # None
      PROVE  q = r
  <2>1. r.disk = Persisted(r) /\ AlarmIsSet(r) /\ r.publish_queued = FALSE
    BY <1>6 DEF SavedWhenIdle
  <2>2. b = Bridge(r.latest_snapshot, r.last_publish_at, r.publish_alarm_at,
                   r.last_publish_error_at, r.publish_failure_streak,
                   None, FALSE, r.disk, r.alarm)
    BY <1>2, <2>1 DEF Persisted
  <2>3. b = r
    BY <1>6, <2>1, <2>2 DEF Shaped, IsBridge
  <2> QED
    BY <1>5, <2>1, <2>3
<1>7. r.put = None /\ r.latest_snapshot = None => q.latest_snapshot = None
  BY <1>3, <1>5 DEF Shaped
<1> QED
  BY <1>3, <1>4, <1>5, <1>6, <1>7 DEF SavedWhenIdle

\* Whose publication it is does not matter to any of this.
LEMMA AbandonRetries ==
  ASSUME NEW r, Shaped(r), SavedWhenIdle(r),
         NEW newer \in BOOLEAN, RetryIsDurable(r, newer),
         r.put # None => r.put.by \in Callers,
         NEW q, q = AbandonPut(r)
  PROVE  /\ Shaped(q) /\ SavedWhenIdle(q) /\ RetryIsDurable(q, newer)
         /\ q.latest_snapshot = r.latest_snapshot
         /\ q.put # None => q.put.by \in Callers
         /\ Retried(r) => Retried(q)
<1>1. CASE r.put # None /\ r.put.by = "server"
  <2> DEFINE u == [snapshot |-> r.put.snapshot, by |-> "nobody"]
  <2>1. r.put = [snapshot |-> r.put.snapshot, by |-> r.put.by]
        /\ r.put.snapshot \in SpectatorSnapshot
    BY <1>1 DEF Shaped, IsBridge
  <2>2. [r.put EXCEPT !.by = "nobody"] = u
    BY <2>1
  <2>3. q = [r EXCEPT !.put = u]
    BY <1>1, <2>2 DEF AbandonPut
  <2>4. u \in Publication /\ u = [snapshot |-> u.snapshot, by |-> u.by]
        /\ u.by = "nobody" /\ u.snapshot \in SpectatorSnapshot
    BY <2>1 DEF Publication, Callers
  <2>5. u # None
    BY <2>4, SnapshotAssumption
  <2> HIDE DEF u
  <2>6. q = Bridge(r.latest_snapshot, r.last_publish_at, r.publish_alarm_at,
                   r.last_publish_error_at, r.publish_failure_streak,
                   u, r.publish_queued, r.disk, r.alarm)
    BY <2>3 DEF Shaped, IsBridge, Bridge
  <2>7. /\ Shaped(q) /\ q.put = u /\ q.disk = r.disk
        /\ q.latest_snapshot = r.latest_snapshot
    BY <1>1, <2>4, <2>6 DEF Shaped, IsBridge, Bridge
  <2>8. "nobody" \in Callers
    BY DEF Callers
  <2> QED
    BY <2>4, <2>5, <2>7, <2>8 DEF SavedWhenIdle, RetryIsDurable, Retried
<1>2. CASE ~(r.put # None /\ r.put.by = "server")
  BY <1>2 DEF AbandonPut
<1> QED
  BY <1>1, <1>2

\* A server whose post failed tries again, gave up or is disposed.
LEMMA FailedCares ==
  ASSUME PublisherIInv, PostFails
  PROVE  Caring(publisher')
<1>1. publisher' = publishFailed(publisher) /\ Posting(publisher)
  BY DEF PostFails, PublisherBecomes
<1>2. publisher \in PublisherFields
  BY DEF PublisherIInv, PublisherTypeOK
<1>3. CASE publisher.inFlight = "final"
  <2>1. publisher' = [publisher EXCEPT !.inFlight = "none"]
    BY <1>1, <1>3 DEF publishFailed
  <2>2. publisher'.disposed = publisher.disposed
    BY <1>2, <2>1, InFlightSet DEF FieldsAre
  <2> QED
    BY <1>3, <2>2 DEF PublisherIInv, Caring
<1>4. CASE publisher.inFlight = "loop"
  <2>1. publisher.timer = "none" /\ ~publisher.gaveUp
        /\ publisher.consecutiveFailures < RetryMaxAttempts
    BY <1>4 DEF PublisherIInv, RequestsAreTakenUp
  <2>2. PICK n : n = publisher.consecutiveFailures + 1
    OBVIOUS
  <2> DEFINE q == publishFailed(publisher)
  <2>3. IF n >= RetryMaxAttempts
        THEN FieldsAre(q, "none", "none", publisher.dirty,
                       publisher.disposed, TRUE, n)
        ELSE FieldsAre(q, IF publisher.disposed THEN "none" ELSE "retry",
                       "none", TRUE, publisher.disposed, FALSE, n)
    BY <1>2, <1>4, <2>1, <2>2, FailedLemma
  <2> HIDE DEF q
  <2>4. q.gaveUp = TRUE \/ q.dirty = TRUE
    BY <2>3 DEF FieldsAre
  <2> QED
    BY <1>1, <2>4 DEF Caring, q
<1> QED
  BY <1>1, <1>3, <1>4 DEF Posting

\* A server that goes on does so until a post of it succeeds; one that starts
\* has its first snapshot to publish.
LEMMA ServerCares ==
  ASSUME PublisherIInv,
         \/ Caring(publisher)
            /\ (WorldChanges \/ PublisherTimerFires \/ ServerIsDisposed)
         \/ ServerRestarts
  PROVE  Caring(publisher')
<1>1. publisher \in PublisherFields
  BY DEF PublisherIInv, PublisherTypeOK
<1>2. CASE Caring(publisher) /\ WorldChanges
  <2> DEFINE q == requestPublish(publisher)
  <2>1. publisher' = q
    BY <1>2 DEF WorldChanges, PublisherBecomes
  <2>2. CASE publisher.disposed
    <3>1. q = publisher
      BY <2>2 DEF requestPublish
    <3> QED
      BY <1>2, <2>1, <3>1
  <2>3. CASE ~publisher.disposed
    <3>1. FieldsAre(q, q.timer, publisher.inFlight, TRUE, publisher.disposed,
                    FALSE, q.consecutiveFailures)
      BY <1>1, <2>3, RequestLemma
    <3> HIDE DEF q
    <3>2. q.dirty = TRUE
      BY <3>1 DEF FieldsAre
    <3> QED
      BY <2>1, <3>2 DEF Caring
  <2> QED
    BY <2>2, <2>3
<1>3. CASE PublisherTimerFires
  <2> DEFINE q == fireTimer(publisher)
  <2>1. publisher' = q /\ publisher.timer # "none"
    BY <1>3 DEF PublisherTimerFires, PublisherBecomes
  <2>2. /\ publisher.dirty /\ ~publisher.gaveUp /\ ~publisher.disposed
        /\ publisher.inFlight = "none"
    BY <2>1 DEF PublisherIInv, RequestsAreTakenUp
  <2>3. FieldsAre(q, "none", "loop", FALSE, FALSE, FALSE,
                  publisher.consecutiveFailures)
    BY <1>1, <2>2, FireLemma
  <2> HIDE DEF q
  <2>4. q.inFlight = "loop"
    BY <2>3 DEF FieldsAre
  <2> QED
    BY <2>1, <2>4 DEF Caring, Posting
<1>4. CASE ServerIsDisposed
  <2> DEFINE q == dispose(publisher)
  <2>1. publisher' = q
    BY <1>4 DEF ServerIsDisposed, PublisherBecomes
  <2>2. IF publisher.dirty /\ ~publisher.gaveUp /\ publisher.inFlight = "none"
        THEN FieldsAre(q, "none", "final", FALSE,
                       TRUE, publisher.gaveUp, publisher.consecutiveFailures)
        ELSE FieldsAre(q, "none", publisher.inFlight, publisher.dirty,
                       TRUE, publisher.gaveUp, publisher.consecutiveFailures)
    BY <1>1, DisposeLemma
  <2> HIDE DEF q
  <2>3. q.disposed = TRUE
    BY <2>2 DEF FieldsAre
  <2> QED
    BY <2>1, <2>3 DEF Caring
<1>5. CASE ServerRestarts
  <2> DEFINE q == requestPublish(newPublisher)
  <2>1. publisher' = q
    BY <1>5 DEF ServerRestarts, PublisherBecomes
  <2>2. FieldsAre(q, "debounce", "none", TRUE, FALSE, FALSE, 0)
    BY FirstRequest
  <2> HIDE DEF q
  <2>3. q.dirty = TRUE
    BY <2>2 DEF FieldsAre
  <2> QED
    BY <2>1, <2>3 DEF Caring
<1> QED
  BY <1>2, <1>3, <1>4, <1>5

\* The object o is older than the snapshot s of the relay.
Outdated(o, s) == s # None /\ (o = None \/ o.generated_at < s.generated_at)

\* Somebody is going to do something about it, or is excused.
SeenTo(r, p, excused) == Retried(r) \/ Caring(p) \/ excused

\* UnpublishedIsRetried in these terms.
LEMMA UnpublishedMeans ==
  /\ UnpublishedIsRetried <=>
       (Outdated(object, relay.latest_snapshot) => SeenTo(relay, publisher, forgotten))
  /\ UnpublishedIsRetried' <=>
       (Outdated(object', relay'.latest_snapshot)
          => SeenTo(relay', publisher', forgotten'))
BY DEF UnpublishedIsRetried, Outdated, SeenTo, Retried, Caring

\* Only the server posts; a post it gave up is nobody's.
LEMMA SentBySomeone ==
  ASSUME NEW waiting, \A m \in waiting : m.by \in {"server", "nobody"},
         transit' \subseteq waiting \/ SendPost(waiting)
  PROVE  \A m \in transit' : m.by \in {"server", "nobody"}
<1>1. CASE transit' \subseteq waiting
  BY <1>1
<1>2. CASE SendPost(waiting)
  BY <1>2 DEF SendPost, Post
<1> QED
  BY <1>1, <1>2

\* Nothing was posted, and nothing is known.
LEMMA RetryInit == Init => RetryIInv
<1> SUFFICES ASSUME Init PROVE RetryIInv
  OBVIOUS
<1>1. /\ transit = {} /\ overtaken = FALSE /\ forgotten = FALSE
      /\ relay = createBridgeState
  BY DEF Init
<1>2. /\ relay = Bridge(None, 0, None, 0, 0, None, FALSE,
                        [latest_snapshot |-> None, last_publish_at |-> 0,
                         publish_alarm_at |-> None, last_publish_error_at |-> 0,
                         publish_failure_streak |-> 0], None)
  BY <1>1 DEF createBridgeState, BridgeState, Bridge
<1>3. Shaped(relay) /\ relay.put = None /\ relay.publish_queued = FALSE
      /\ relay.latest_snapshot = None
  BY <1>2 DEF Bridge, Shaped, IsBridge, Persisted
<1> QED
  BY <1>1, <1>3 DEF RetryIInv, SavedWhenIdle, RetryIsDurable, UnpublishedIsRetried

\* Every step sees to it that what is not published is retried.
LEMMA RetryStep ==
  ASSUME PublisherIInv, PipelineIInv, RetryIInv, [Next]_vars
  PROVE  RetryIInv'
<1> DEFINE By(T) == \A m \in T : m.by \in {"server", "nobody"}
           Relay(r, newer) ==
             /\ r.put # None => r.put.by \in Callers
             /\ Shaped(r) /\ SavedWhenIdle(r) /\ RetryIsDurable(r, newer)
           Told(o, r, p, excused) == Outdated(o, r.latest_snapshot) => SeenTo(r, p, excused)
<1>0. /\ now \in Nat /\ overtaken \in BOOLEAN /\ forgotten \in BOOLEAN
      /\ By(transit) /\ Relay(relay, overtaken)
      /\ Told(object, relay, publisher, forgotten)
      /\ \A m \in transit : m.body \in WorldSnapshot
  BY UnpublishedMeans DEF PublisherIInv, PublisherTypeOK, PipelineIInv, RetryIInv
<1> SUFFICES /\ overtaken' \in BOOLEAN /\ forgotten' \in BOOLEAN
             /\ By(transit') /\ Relay(relay', overtaken')
             /\ Told(object', relay', publisher', forgotten')
  BY UnpublishedMeans DEF RetryIInv
<1>1. ASSUME NEW by, NEW ok, NEW waiting \in SUBSET transit,
             Answer(by, ok, waiting)
      PROVE  By(transit')
  <2>1. transit' \subseteq waiting \/ SendPost(waiting)
    BY <1>1 DEF Answer
  <2>2. \A m \in waiting : m.by \in {"server", "nobody"}
    BY <1>0
  <2> QED
    BY <2>1, <2>2, SentBySomeone
<1>2. ASSUME PostSetsOut
      PROVE  By(transit')
  <2>1. transit' \subseteq transit \/ SendPost(transit)
    BY <1>2 DEF PostSetsOut
  <2> QED
    BY <1>0, <2>1, SentBySomeone
<1>3. By(Abandon(transit))
  BY DEF Abandon, Post
<1>4. Caring(publisher') => Told(object', relay', publisher', forgotten')
  BY DEF SeenTo
<1>5. UNCHANGED <<relay, object, publisher, forgotten>>
        => Told(object', relay', publisher', forgotten')
  BY <1>0
<1> HIDE DEF By
<1>6. CASE ServerTimerFires \/ ServerChanges \/ ServerIsStopped
  <2>1. PostSetsOut /\ UNCHANGED <<relay, object, overtaken, forgotten>>
    BY <1>6 DEF ServerTimerFires, ServerChanges, ServerIsStopped, PostSetsOut,
                relayVars, auxVars
  <2>2. Caring(publisher) => Caring(publisher')
    BY <1>6, ServerCares DEF ServerTimerFires, ServerChanges, ServerIsStopped
  <2>3. Told(object', relay', publisher', forgotten')
    BY <1>0, <2>1, <2>2 DEF SeenTo
  <2> QED
    BY <1>0, <1>2, <2>1, <2>3
<1>7. CASE RelayReceives
  <2>1. PICK m \in transit :
          /\ relay' = receiveSnapshot(relay, m.body, m.by)
          /\ overtaken' = (overtaken \/ (relay.put # None
                                         /\ applySnapshot(relay, m.body) # relay))
          /\ IF relay.put # None THEN Answer(m.by, TRUE, transit \ {m})
             ELSE IF isPublishBackoffActive(applySnapshot(relay, m.body))
             THEN Answer(m.by, FALSE, transit \ {m})
             ELSE transit' = transit \ {m} /\ UNCHANGED publisherVars
          /\ UNCHANGED <<object, forgotten>>
    BY <1>7 DEF RelayReceives
  <2>2. m.body \in WorldSnapshot /\ m.by \in {"server", "nobody"}
        /\ By(transit \ {m})
    BY <1>0 DEF By
  <2>3. \/ Answer(m.by, TRUE, transit \ {m})
        \/ Answer(m.by, FALSE, transit \ {m})
        \/ transit' = transit \ {m}
    BY <2>1
  <2>4. By(transit')
    <3>1. CASE Answer(m.by, TRUE, transit \ {m})
      BY <1>1, <3>1
    <3>2. CASE Answer(m.by, FALSE, transit \ {m})
      BY <1>1, <3>2
    <3> QED
      BY <2>2, <2>3, <3>1, <3>2
  <2>5. relay' = publishLatestSnapshot(applySnapshot(relay, m.body), m.by)
    BY <2>1 DEF receiveSnapshot
  <2>6. /\ Shaped(relay') /\ SavedWhenIdle(relay') /\ Retried(relay')
        /\ RetryIsDurable(relay', overtaken \/ (relay.put # None
                                                /\ applySnapshot(relay, m.body) # relay))
        /\ relay'.put # None =>
             relay'.put.by = IF relay.put = None THEN m.by ELSE relay.put.by
    BY <1>0, <2>2, <2>5, ReceiveRetries
  <2>7. Relay(relay', overtaken') /\ overtaken' \in BOOLEAN
    BY <1>0, <2>1, <2>2, <2>6 DEF Callers
  <2>8. Told(object', relay', publisher', forgotten')
    BY <2>6 DEF SeenTo
  <2> QED
    BY <1>0, <2>1, <2>4, <2>7, <2>8
<1>8. ASSUME NEW r, NEW ok, PutEnds(r, ok)
      PROVE  By(transit') /\ relay' = r /\ UNCHANGED <<overtaken, forgotten>>
  <2>1. UNCHANGED transit \/ Answer(relay.put.by, AnsweredWell(relay, ok), transit)
    BY <1>8 DEF PutEnds
  <2>2. By(transit')
    BY <1>0, <1>1, <2>1
  <2> QED
    BY <1>8, <2>2 DEF PutEnds, auxVars
<1>9. CASE PutSucceeds
  <2>1. relay.put # None /\ object' = relay.put.snapshot
        /\ PutEnds(putSucceeded(relay), TRUE)
    BY <1>9 DEF PutSucceeds
  <2>2. By(transit') /\ relay' = putSucceeded(relay)
        /\ UNCHANGED <<overtaken, forgotten>>
    BY <1>8, <2>1
  <2>3. /\ Shaped(relay') /\ SavedWhenIdle(relay') /\ RetryIsDurable(relay', overtaken)
        /\ relay'.put # None => relay'.put.by = relay.put.by
        /\ relay'.latest_snapshot = relay.put.snapshot \/ Retried(relay')
    BY <1>0, <2>1, <2>2, SuccessRetries
  <2>4. object' # None /\ object'.generated_at \in Nat
    BY <1>0, <2>1, SnapshotHasFields DEF Shaped, IsBridge
  <2>5. Told(object', relay', publisher', forgotten')
    BY <2>1, <2>3, <2>4 DEF Outdated, SeenTo
  <2> QED
    BY <1>0, <2>1, <2>2, <2>3, <2>5
<1>10. CASE PutFails
  <2>1. relay.put # None /\ PutEnds(putFailed(relay), FALSE)
    BY <1>10 DEF PutFails
  <2>2. By(transit') /\ relay' = putFailed(relay)
        /\ UNCHANGED <<overtaken, forgotten>>
    BY <1>8, <2>1
  <2>3. /\ Shaped(relay') /\ SavedWhenIdle(relay') /\ RetryIsDurable(relay', overtaken)
        /\ relay'.put # None => relay'.put.by = relay.put.by
        /\ Retried(relay')
    BY <1>0, <2>1, <2>2, FailureRetries
  <2> QED
    BY <1>0, <2>1, <2>2, <2>3 DEF SeenTo
<1>11. CASE RelayAlarmRings
  <2>1. relay' = alarm(relay)
        /\ UNCHANGED <<transit, object, publisher, overtaken, forgotten>>
    BY <1>11 DEF RelayAlarmRings, publisherVars, auxVars
  <2>2. /\ Shaped(relay') /\ SavedWhenIdle(relay') /\ RetryIsDurable(relay', overtaken)
        /\ relay'.latest_snapshot = relay.latest_snapshot
        /\ relay'.put # None => relay'.put.by \in Callers
        /\ Retried(relay) /\ relay.latest_snapshot # None => Retried(relay')
    BY <1>0, <2>1, AlarmRetries
  <2>3. Told(object', relay', publisher', forgotten')
    BY <1>0, <2>1, <2>2 DEF Outdated, SeenTo
  <2> QED
    BY <1>0, <2>1, <2>2, <2>3
<1>12. CASE RelayIsEvicted
  <2>1. /\ relay' = boot(relay) /\ transit' = transit /\ overtaken' = overtaken
        /\ object' \in {object} \cup IF relay.put = None THEN {}
                                     ELSE {relay.put.snapshot}
        /\ IF relay.put # None /\ relay.put.by = "server" THEN PostFails
           ELSE UNCHANGED publisherVars
        /\ forgotten' =
             \/ forgotten \/ relay.publish_queued
             \/ /\ relay.put # None
                /\ relay.put.by = "nobody" \/ (relay.put.by = "alarm" /\ overtaken)
    BY <1>12 DEF RelayIsEvicted
  <2>2. /\ Shaped(relay') /\ SavedWhenIdle(relay') /\ relay'.put = None
        /\ AlarmIsSet(relay')
        /\ relay'.publish_alarm_at = relay.disk.publish_alarm_at
        /\ relay.put = None /\ relay.latest_snapshot = None =>
             relay'.latest_snapshot = None
        /\ relay.put = None /\ relay.latest_snapshot # None => relay' = relay
    BY <1>0, <2>1, BootRetries
  <2>3. Relay(relay', overtaken') /\ forgotten' \in BOOLEAN
    BY <2>1, <2>2 DEF RetryIsDurable
  <2>4. CASE relay.put = None
    <3>1. object' = object /\ UNCHANGED publisher
      BY <2>1, <2>4 DEF publisherVars
    <3>2. forgotten => forgotten'
      BY <1>0, <2>1
    <3>3. Told(object', relay', publisher', forgotten')
      BY <1>0, <2>2, <2>4, <3>1, <3>2 DEF Outdated, SeenTo
    <3> QED
      BY <1>0, <2>1, <2>3, <3>3
  <2>5. CASE relay.put # None
    <3>1. relay.put.by \in Callers
      BY <1>0, <2>5
    <3>2. Told(object', relay', publisher', forgotten')
      <4>1. CASE relay.put.by = "server"
        <5>1. Caring(publisher')
          BY <2>1, <2>5, <4>1, FailedCares
        <5> QED
          BY <5>1 DEF SeenTo
      <4>2. CASE relay.put.by = "nobody" \/ (relay.put.by = "alarm" /\ overtaken)
        <5>1. forgotten'
          BY <2>1, <2>5, <4>2
        <5> QED
          BY <5>1 DEF SeenTo
      <4>3. CASE relay.put.by = "alarm" /\ ~overtaken
        <5>1. relay.disk.publish_alarm_at # None
          BY <1>0, <2>5, <4>3 DEF RetryIsDurable
        <5>2. Retried(relay')
          BY <2>2, <5>1 DEF Retried, AlarmIsSet
        <5> QED
          BY <5>2 DEF SeenTo
      <4> QED
        BY <3>1, <4>1, <4>2, <4>3 DEF Callers
    <3> QED
      BY <1>0, <2>1, <2>3, <3>2
  <2> QED
    BY <2>4, <2>5
<1>13. CASE PostTimesOut \/ ServerIsKilled
  <2>1. /\ transit' = Abandon(transit) /\ relay' = AbandonPut(relay)
        /\ UNCHANGED <<overtaken, forgotten>>
        /\ PostFails \/ ServerRestarts
    BY <1>13 DEF PostTimesOut, ServerIsKilled, auxVars
  <2>2. Caring(publisher')
    BY <2>1, FailedCares, ServerCares
  <2>3. /\ Shaped(relay') /\ SavedWhenIdle(relay') /\ RetryIsDurable(relay', overtaken)
        /\ relay'.put # None => relay'.put.by \in Callers
    BY <1>0, <2>1, AbandonRetries
  <2> QED
    BY <1>0, <1>3, <1>4, <2>1, <2>2, <2>3
<1>14. CASE PostIsLost
  <2>1. /\ \A m \in transit' : m \in transit
        /\ UNCHANGED <<relay, object, overtaken, forgotten>>
        /\ PostFails \/ UNCHANGED publisher
    BY <1>14 DEF PostIsLost, relayVars, auxVars, publisherVars
  <2>2. By(transit')
    BY <1>0, <2>1 DEF By
  <2>3. Told(object', relay', publisher', forgotten')
    <3>1. CASE PostFails
      BY <3>1, FailedCares DEF SeenTo
    <3>2. CASE UNCHANGED publisher
      BY <1>5, <2>1, <3>2
    <3> QED
      BY <2>1, <3>1, <3>2
  <2> QED
    BY <1>0, <2>1, <2>2, <2>3
<1>15. CASE ClockTicks \/ UNCHANGED vars
  <2>1. UNCHANGED <<transit, relay, object, publisher, overtaken, forgotten>>
    BY <1>15 DEF ClockTicks, vars, relayVars, auxVars, publisherVars
  <2> QED
    BY <1>0, <1>5, <2>1
<1> QED
  BY <1>6, <1>7, <1>9, <1>10, <1>11, <1>12, <1>13, <1>14, <1>15 DEF Next, Work

\* What the retries rest on holds throughout every behaviour.
THEOREM RetryInvariant == Spec => []RetryIInv
<1>1. PublisherIInv /\ PipelineIInv /\ RetryIInv /\ [Next]_vars => RetryIInv'
  BY RetryStep
<1> QED
  BY <1>1, RetryInit, PipelineImplementsPublisher, PublisherInvariant,
     PipelineInvariant, PTL DEF Spec

\* What could not be published is not forgotten: through every run of faults a
\* write, an alarm or the server will publish it, unless the server gave up or
\* was disposed, or the relay was evicted in a write nobody waited for.
THEOREM UnpublishedAlwaysRetried == Spec => []UnpublishedIsRetried
<1>1. RetryIInv => UnpublishedIsRetried
  BY DEF RetryIInv
<1> QED
  BY <1>1, RetryInvariant, PTL

\* A relay between two publications is the same after an eviction.
THEOREM EvictionAlwaysForgetsNothing == Spec => []EvictionForgetsNothing
<1>1. RetryIInv => EvictionForgetsNothing
  BY BootRetries DEF RetryIInv, SavedWhenIdle, EvictionForgetsNothing
<1> QED
  BY <1>1, RetryInvariant, PTL
==============================================================================
