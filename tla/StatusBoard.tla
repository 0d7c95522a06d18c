---------------------------- MODULE StatusBoard ----------------------------
(***************************************************************************)
(* discord/status-board: a channel whose messages show the world.  Events  *)
(* ask for a refresh, gathered for a moment; so does time, as an agent on  *)
(* its way passes nodes without an event, and the weather is fetched.      *)
(*                                                                         *)
(* A refresh takes a snapshot, then awaits the channel's messages, their   *)
(* deletion, and each message it sends.  Events, timers and the shutdown   *)
(* come in between; a call of the channel may fail; somebody may delete a  *)
(* message.                                                                *)
(***************************************************************************)
EXTENDS Clock, Sequences, SequencesExt, FiniteSetsExt

CONSTANTS
  StepDuration,     \* movement.duration_ms, in ticks of the clock
  WalkLength,       \* nodes on the way of the agent that walks
  WeatherInterval,  \* weather.interval_ms, or 0 without weather
  Parts,            \* messages a status board takes
  MaxSceneChanges,  \* bound: events
  MaxBoardFaults,   \* bound: calls that fail, messages somebody deletes
  MaxBoardTime      \* bound: the clock

ASSUME StatusBoardAssumption ==
  /\ {StepDuration, WalkLength, Parts} \subseteq Nat \ {0}
  /\ WeatherInterval \in Nat

VARIABLES
  board,            \* the fields of StatusBoard
  channel,          \* the messages of the channel
  scene,            \* the world, as far as the board shows it
  troubled,         \* something went wrong since the last refresh began
  boardFaults       \* what went wrong so far

boardVars == <<board, channel, scene, troubled, boardFaults, now>>

\* walk: when the movement timer fires, or None; weather: when it was fetched.
emptyScene == [changes |-> 0, walk |-> None, weather |-> 1]

newBoard ==
  [debounceTimer |-> FALSE, transitionTimer |-> None, refresh |-> None,
   dirty |-> FALSE, immediate |-> FALSE, disposed |-> FALSE,
   lastMessages |-> <<>>, lastMessageIds |-> <<>>]

\* getCurrentMovementPosition: the nodes passed since the walk began.
StepsWalked(w) == Min({(now + WalkLength * StepDuration - w.walk) \div StepDuration, WalkLength})

Shows(w) == [changes |-> w.changes, weather |-> w.weather,
             steps |-> IF w.walk = None THEN 0 ELSE StepsWalked(w)]

formatStatusBoard(shown) == [i \in 1 .. Parts |-> <<shown, i>>]
Stopped == <<"stopped">>

(***************************************************************************)
(* When time alone changes what the board shows.                           *)
(***************************************************************************)
getMovementRefreshAt(w) ==
  LET startedAt == w.walk - WalkLength * StepDuration
      nextBoundary == startedAt + (((now - startedAt) \div StepDuration) + 1) * StepDuration
  IN  IF nextBoundary >= w.walk THEN w.walk + 1 ELSE nextBoundary

getWeatherRefreshAt(w) == w.weather + WeatherInterval + 1

getNextTransitionRefreshAt(w) ==
  LET candidates == (IF w.walk = None THEN {} ELSE {getMovementRefreshAt(w)})
                      \cup (IF WeatherInterval = 0 THEN {} ELSE {getWeatherRefreshAt(w)})
  IN  IF candidates = {} THEN None ELSE Min(candidates)

scheduleNextTransitionRefresh(b, w) ==
  [b EXCEPT !.transitionTimer = IF b.disposed THEN None ELSE getNextTransitionRefreshAt(w)]

(***************************************************************************)
(* A refresh: the call it awaits, the snapshot it shows, the messages it   *)
(* found, those it sent.                                                   *)
(***************************************************************************)
Replacing(messages, w) ==
  [awaits |-> "fetch", messages |-> messages, existing |-> {}, sent |-> <<>>,
   startedAt |-> now, boundary |-> getNextTransitionRefreshAt(w)]

startRefresh(b, w) ==
  IF b.refresh # None \/ b.disposed THEN b
  ELSE [b EXCEPT !.refresh = Replacing(formatStatusBoard(Shows(w)), w), !.dirty = FALSE]

requestRefresh(b, immediate, w) ==
  IF immediate THEN startRefresh([b EXCEPT !.debounceTimer = FALSE], w)
  ELSE [b EXCEPT !.debounceTimer = TRUE]

\* Slip: a refresh that is under way is taken to show the change.
queueRefreshUnlessRefreshing(b, immediate, w) ==
  IF b.disposed \/ b.refresh # None THEN b ELSE requestRefresh(b, immediate, w)

queueRefresh(b, immediate, w) ==
  IF b.disposed THEN b
  ELSE IF b.refresh = None THEN requestRefresh(b, immediate, w)
  ELSE [b EXCEPT !.dirty = TRUE, !.immediate = @ \/ immediate]

didTransitionBoundaryElapseDuringRefresh(r) ==
  r.boundary # None /\ r.boundary > r.startedAt /\ r.boundary <= now

\* dispose() goes on when no refresh is under way: it posts the last message.
continueDispose(b, w) == [b EXCEPT !.refresh = Replacing(Stopped, w)]

\* The finally block of startRefresh; the last message has none.
endRefresh(b, w) ==
  LET missed == didTransitionBoundaryElapseDuringRefresh(b.refresh)
      ended == [b EXCEPT !.refresh = None]
  IN  IF b.refresh.messages = Stopped THEN ended
      ELSE IF b.disposed THEN continueDispose(ended, w)
      ELSE IF b.dirty \/ missed
      THEN queueRefresh([ended EXCEPT !.dirty = FALSE, !.immediate = FALSE],
                        missed \/ b.immediate, w)
      ELSE scheduleNextTransitionRefresh(ended, w)

\* With the ids of the messages sent; none is remembered when one failed.
replaceEnds(b, messages, w) ==
  endRefresh([b EXCEPT !.lastMessages = messages, !.lastMessageIds = b.refresh.sent], w)

canSkipRefresh(b, existing) ==
  /\ b.refresh.messages = b.lastMessages /\ b.refresh.messages # Stopped
  /\ Len(b.lastMessageIds) = Len(b.lastMessages)
  /\ Cardinality(existing) = Len(b.lastMessageIds)
  /\ ToSet(b.lastMessageIds) \subseteq existing

messagesFetched(b, existing, w) ==
  IF canSkipRefresh(b, existing) THEN endRefresh(b, w)
  ELSE [b EXCEPT !.refresh.existing = existing,
                 !.refresh.awaits = IF existing = {} THEN "send" ELSE "delete"]

messageSent(b, id, w) ==
  LET sent == [b EXCEPT !.refresh.sent = Append(@, id)]
  IN  IF Len(sent.refresh.sent) < Len(b.refresh.messages) THEN sent
      ELSE replaceEnds(sent, b.refresh.messages, w)

disposeBoard(b, w) ==
  LET disposed == [b EXCEPT !.disposed = TRUE, !.debounceTimer = FALSE,
                            !.transitionTimer = None, !.dirty = FALSE, !.immediate = FALSE]
  IN  IF b.refresh = None THEN continueDispose(disposed, w) ELSE disposed

(***************************************************************************)
(* Steps.                                                                  *)
(***************************************************************************)
\* register() starts the first refresh.
InitBoard ==
  /\ now = 1
  /\ scene = emptyScene
  /\ board = startRefresh(newBoard, emptyScene)
  /\ channel = <<>>
  /\ troubled = FALSE
  /\ boardFaults = 0

\* The board steps to b; what goes wrong counts until a new refresh begins.
BoardBecomes(b, trouble) ==
  LET begins == b.refresh # None /\ b.refresh.awaits = "fetch"
                  /\ ~(board.refresh # None /\ board.refresh.awaits = "fetch")
  IN  board' = b /\ troubled' = (trouble \/ (troubled /\ ~begins))

\* An event asks for a refresh, and its microtask sets the transition timer
\* anew, from the timers there are now.
EventOn(b, w) ==
  IF b.disposed THEN b ELSE scheduleNextTransitionRefresh(queueRefresh(b, FALSE, w), w)

WorldBecomes(w) ==
  /\ scene' = w
  /\ BoardBecomes(EventOn(board, w), FALSE)
  /\ UNCHANGED <<channel, boardFaults, now>>

SomethingHappens ==
  /\ scene.changes < MaxSceneChanges
  /\ \/ WorldBecomes([scene EXCEPT !.changes = @ + 1])
     \/ /\ scene.walk = None
        /\ WorldBecomes([scene EXCEPT !.changes = @ + 1,
                                      !.walk = now + WalkLength * StepDuration])

\* The movement timer fires; a logout ends the walk before.
WalkEnds ==
  /\ scene.walk # None
  /\ WorldBecomes([scene EXCEPT !.walk = None])

\* No event tells of the weather.  A refresh that began when it was overdue
\* took that for the next boundary, and does not see one that passes meanwhile.
WeatherIsFetched ==
  /\ WeatherInterval > 0 /\ now >= scene.weather + WeatherInterval
  /\ scene' = [scene EXCEPT !.weather = now]
  /\ BoardBecomes(board, board.refresh # None /\ board.refresh.boundary <= board.refresh.startedAt)
  /\ UNCHANGED <<channel, boardFaults, now>>

DebounceTimerFires ==
  /\ board.debounceTimer
  /\ BoardBecomes(startRefresh([board EXCEPT !.debounceTimer = FALSE], scene), FALSE)
  /\ UNCHANGED <<channel, scene, boardFaults, now>>

TransitionTimerFires ==
  /\ board.transitionTimer # None /\ board.transitionTimer <= now
  /\ BoardBecomes(queueRefresh([board EXCEPT !.transitionTimer = None], TRUE, scene), FALSE)
  /\ UNCHANGED <<channel, scene, boardFaults, now>>

Awaits(call) == board.refresh # None /\ board.refresh.awaits = call
Ids == {channel[i].id : i \in DOMAIN channel}

FetchReturns ==
  /\ Awaits("fetch")
  /\ BoardBecomes(messagesFetched(board, Ids, scene), FALSE)
  /\ UNCHANGED <<channel, scene, boardFaults, now>>

BoardFault == boardFaults < MaxBoardFaults /\ boardFaults' = boardFaults + 1

Without(ids) == SelectSeq(channel, LAMBDA message : message.id \notin ids)

\* The bulk deletion, or that of single messages: failures are tolerated.
DeletionReturns ==
  /\ Awaits("delete")
  /\ \E deleted \in SUBSET board.refresh.existing :
       /\ channel' = Without(deleted)
       /\ IF deleted = board.refresh.existing THEN UNCHANGED boardFaults ELSE BoardFault
       /\ BoardBecomes([board EXCEPT !.refresh.awaits = "send"],
                       deleted # board.refresh.existing)
  /\ UNCHANGED <<scene, now>>

\* Discord gives a message an id no other has.
SendReturns ==
  /\ Awaits("send")
  /\ LET used == Ids \cup ToSet(board.lastMessageIds) \cup ToSet(board.refresh.sent)
                   \cup board.refresh.existing
         id == CHOOSE i \in 1 .. Cardinality(used) + 1 : i \notin used
     IN  /\ channel' = Append(channel,
              [id |-> id, text |-> board.refresh.messages[Len(board.refresh.sent) + 1]])
         /\ BoardBecomes(messageSent(board, id, scene), FALSE)
  /\ UNCHANGED <<scene, boardFaults, now>>

CallFails ==
  /\ BoardFault
  /\ \/ Awaits("fetch") /\ BoardBecomes(endRefresh(board, scene), TRUE)
     \/ Awaits("send") /\ BoardBecomes(replaceEnds(board, <<>>, scene), TRUE)
  /\ UNCHANGED <<channel, scene, now>>

SomebodyDeletes ==
  /\ BoardFault
  /\ \E id \in Ids : channel' = Without({id})
  /\ troubled' = TRUE
  /\ UNCHANGED <<board, scene, now>>

BoardIsDisposed ==
  /\ ~board.disposed
  /\ BoardBecomes(disposeBoard(board, scene), FALSE)
  /\ UNCHANGED <<channel, scene, boardFaults, now>>

BoardClockTicks ==
  /\ now < MaxBoardTime /\ Tick
  /\ UNCHANGED <<board, channel, scene, troubled, boardFaults>>

BoardNext ==
  \/ SomethingHappens \/ WalkEnds \/ WeatherIsFetched
  \/ DebounceTimerFires \/ TransitionTimerFires
  \/ FetchReturns \/ DeletionReturns \/ SendReturns \/ CallFails \/ SomebodyDeletes
  \/ BoardIsDisposed \/ BoardClockTicks

BoardSpec == InitBoard /\ [][BoardNext]_boardVars

(***************************************************************************)
(* Safety.                                                                 *)
(***************************************************************************)
Texts == [i \in DOMAIN channel |-> channel[i].text]

\* Nothing of the board or the world is about to run.
BoardIsQuiet ==
  /\ ~board.debounceTimer /\ board.refresh = None
  /\ board.transitionTimer # None => board.transitionTimer > now
  /\ scene.walk # None => scene.walk > now

\* What the channel shows is the world as it is, once the board has nothing to
\* do before a later time, whatever happened while it refreshed and however
\* far the agent walked meanwhile; only newer weather waits for its timer.
\* After the shutdown it shows that the world is stopped.  Exceptions are a call
\* that failed since the last refresh began, and a refresh late weather blinded.
BoardFollowsTheWorld ==
  BoardIsQuiet /\ ~troubled =>
    IF board.disposed THEN Texts = Stopped
    ELSE \/ Texts = formatStatusBoard(Shows(scene))
         \/ /\ board.transitionTimer # None
            /\ \E weather \in 1 .. scene.weather :
                 Texts = formatStatusBoard([Shows(scene) EXCEPT !.weather = weather])
============================================================================
