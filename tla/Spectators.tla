----------------------------- MODULE Spectators -----------------------------
(***************************************************************************)
(* A spectator's browser and what it reads: the SnapshotStore polls the    *)
(* published object, of which it expects what the relay was shown to keep  *)
(* (PublishedObject).  Caches on the way may answer with any version the   *)
(* object once had, and requests may be answered in any order.             *)
(***************************************************************************)
EXTENDS SnapshotStore, PublishedObject

CONSTANTS
  MaxVersions,      \* bound: versions of the object
  MaxLifecycle,     \* bound: starts and stops of the polling
  MaxHistoryFetch   \* bound: history requests

ASSUME SpectatorBounds == {MaxVersions, MaxLifecycle, MaxHistoryFetch} \subseteq Nat

VARIABLES
  published,        \* the versions the object has had
  viewer,           \* the store's state and the variables of its closure
  histories         \* the histories it shows, and its requests for them

spectatorVars == <<object, published, viewer, histories>>

InitSpectators ==
  /\ object = None
  /\ published = {}
  /\ viewer = newViewer
  /\ histories = noHistories

\* A new snapshot of the world, or the same one again, is published.
ObjectIsPublished ==
  /\ Cardinality(published) < MaxVersions
  /\ object' \in [generated_at : 1 .. MaxVersions, published_at : 1 .. MaxVersions,
                  last_publish_error_at : {0}, agents : SUBSET ShownAgents]
  /\ Published
  /\ object # None /\ object'.generated_at = object.generated_at =>
       object'.agents = object.agents
  /\ published' = published \cup {object'}
  /\ UNCHANGED <<viewer, histories>>

ViewerBecomes(v) == viewer' = v /\ UNCHANGED <<object, published, histories>>

PollingStarts ==
  /\ viewer.currentPollingLifecycleId < MaxLifecycle
  /\ ~viewer.pollingStarted
  /\ ViewerBecomes(startPolling(viewer))

PollingStops ==
  /\ viewer.pollingStarted
  /\ viewer' = stopPolling(viewer)
  /\ histories' = abortAllHistoryRequests(histories)
  /\ UNCHANGED <<object, published>>

IntervalFires ==
  viewer.pollingInterval # None /\ ViewerBecomes(pollSnapshot(viewer, viewer.pollingInterval))

PollIsAskedFor == ViewerBecomes(pollSnapshot(viewer, Manual))

\* An abort may come when the answer is already there.
PollIsAnswered ==
  /\ viewer.poll # None
  /\ \E s \in published :
       /\ viewer' = pollAnswered(viewer, s)
       /\ histories' = IF RefreshesHistories(viewer, s)
                       THEN refreshActiveHistoryScopes(viewer', histories) ELSE histories
  /\ histories'.historyRequestId <= MaxHistoryFetch
  /\ UNCHANGED <<object, published>>

\* Also when it times out, or is aborted.
PollFails ==
  viewer.poll # None /\ \E incompatible \in BOOLEAN : ViewerBecomes(pollFailed(viewer, incompatible))

AgentIsSelected ==
  /\ viewer.snapshot # None
  /\ \E a \in viewer.snapshot.agents \cup {None} : ViewerBecomes(setSelectedAgentId(viewer, a))

SheetIsMoved ==
  \E mode \in {"list", "detail"} : ViewerBecomes(setMobileSheetMode(viewer, mode))

ConversationIsToggled ==
  \E c \in ShownConversations : ViewerBecomes(toggleConversationExpanded(viewer, c))

\* What is selected or expanded asks for its history at once, too.
HistoryIsFetched ==
  /\ histories.historyRequestId < MaxHistoryFetch
  /\ \E s \in ActiveScopes(viewer) : histories' = fetchHistory(histories, s)
  /\ UNCHANGED <<object, published, viewer>>

\* A missing document is an empty history.
HistoryIsAnswered ==
  /\ \E r \in histories.sent, ok \in BOOLEAN : histories' = historyAnswered(histories, r, ok)
  /\ UNCHANGED <<object, published, viewer>>

SpectatorsNext ==
  \/ ObjectIsPublished
  \/ PollingStarts \/ PollingStops \/ IntervalFires \/ PollIsAskedFor
  \/ PollIsAnswered \/ PollFails
  \/ AgentIsSelected \/ SheetIsMoved \/ ConversationIsToggled
  \/ HistoryIsFetched \/ HistoryIsAnswered

SpectatorsSpec == InitSpectators /\ [][SpectatorsNext]_spectatorVars

(***************************************************************************)
(* Safety.                                                                 *)
(***************************************************************************)
\* The agent that is selected is one of the snapshot on the screen, also when a
\* poll brings a world it has left; and its detail sheet is open just then.
SelectionIsOnScreen ==
  /\ viewer.selected_agent_id # None =>
       viewer.snapshot # None /\ viewer.selected_agent_id \in viewer.snapshot.agents
  /\ viewer.mobile_sheet_mode = "detail" <=> viewer.selected_agent_id # None

\* Whatever the caches and the network answer, and in whatever order polling
\* is stopped and started, the screen never shows an older world than before.
ScreenNeverGoesBack ==
  [][viewer.snapshot # None =>
       viewer'.snapshot # None /\ compareSnapshotVersion(viewer'.snapshot, viewer.snapshot) >= 0
    ]_spectatorVars

ManualPolling ==
  viewer.queuedManualPoll \/ (viewer.poll # None /\ viewer.poll.lifecycle = Manual)

\* While polling is stopped, an answer to one of its polls changes nothing on
\* the screen; nor does it after polling was started again.
StoppedScreenStays ==
  [][/\ ~ManualPolling
     /\ viewer.poll # None => viewer.poll.aborted
     => viewer'.snapshot = viewer.snapshot /\ viewer'.is_stale = viewer.is_stale]_spectatorVars

\* A poll that is asked for while another is in flight is made when that ends,
\* whoever asked, unless polling was stopped meanwhile.
QueuedPollsFollow ==
  [][viewer.pollQueued /\ ~viewer'.pollQueued =>
       (viewer'.poll # None /\ ~viewer'.poll.aborted) \/ ~viewer'.pollingStarted]_spectatorVars

\* A history shown is never replaced by the answer to an earlier request.
HistoriesInOrder ==
  [][\A s \in Scopes : histories'.cache[s].response >= histories.cache[s].response]_spectatorVars
============================================================================
