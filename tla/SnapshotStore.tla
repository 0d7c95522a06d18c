--------------------------- MODULE SnapshotStore ---------------------------
(***************************************************************************)
(* app/store/snapshot-store: what a spectator's browser shows.  It polls   *)
(* the published object every few seconds while it is visible, keeps the   *)
(* newest snapshot it has seen, and fetches anew, after each poll, the     *)
(* histories of the agent that is selected and of the conversations that   *)
(* are expanded.                                                           *)
(*                                                                         *)
(* A request is a value until its answer is handled; the code after an     *)
(* await runs in the step that hands it the answer.                        *)
(***************************************************************************)
EXTENDS Null, Integers, FiniteSets

CONSTANTS
  ShownAgents,       \* agents a snapshot may show
  ShownConversations \* conversations it may show

ASSUME SnapshotStoreAssumption ==
  None \notin ShownAgents /\ None \notin [lifecycle : Int, aborted : BOOLEAN]

\* A history scope is an agent or a conversation.
Scopes == ShownAgents \cup ShownConversations

\* A poll without a lifecycle: one the user asked for.
Manual == -1

newViewer ==
  [snapshot |-> None, snapshot_status |-> "idle", is_stale |-> FALSE,
   selected_agent_id |-> None, mobile_sheet_mode |-> "list", expanded |-> {},
   pollingStarted |-> FALSE, currentPollingLifecycleId |-> 0,
   pollingInterval |-> None,  \* the lifecycle whose interval timer is set
   poll |-> None,             \* the poll in flight: its lifecycle, its abort
   pollQueued |-> FALSE, queuedLifecycleId |-> None, queuedManualPoll |-> FALSE]

\* cache: the state of a history, and the request whose answer it shows;
\* active: the request a scope waits for, or 0; sent: all that are under way.
noHistories ==
  [cache |-> [s \in Scopes |-> [status |-> "idle", response |-> 0]],
   active |-> [s \in Scopes |-> 0], sent |-> {}, historyRequestId |-> 0]

isPollingLifecycleActive(v, id) ==
  v.pollingStarted /\ v.currentPollingLifecycleId = id

\* A manual poll always may change the store.
MaySet(v, id) == id = Manual \/ isPollingLifecycleActive(v, id)

(***************************************************************************)
(* Versions of a snapshot.                                                 *)
(***************************************************************************)
compareSnapshotVersion(left, right) ==
  IF left.generated_at # right.generated_at
  THEN left.generated_at - right.generated_at
  ELSE IF left.published_at # right.published_at
  THEN left.published_at - right.published_at
  ELSE left.last_publish_error_at - right.last_publish_error_at

IsStale(s) == s.last_publish_error_at # 0 /\ s.last_publish_error_at > s.published_at

applyStaleState(v, s) == [v EXCEPT !.is_stale = IsStale(s)]

(***************************************************************************)
(* Histories.                                                              *)
(***************************************************************************)
\* The request that is replaced is aborted: its answer changes nothing.
fetchHistory(h, s) ==
  LET id == h.historyRequestId + 1
  IN  [h EXCEPT !.historyRequestId = id, !.active[s] = id,
                !.sent = @ \cup {[scope |-> s, id |-> id]},
                !.cache[s].status = "loading"]

\* The response that is there stays when the next one fails.
showHistory(h, r, ok) ==
  [h EXCEPT !.active[r.scope] = 0,
            !.cache[r.scope] = [status |-> IF ok THEN "ready" ELSE "error",
                                response |-> IF ok THEN r.id ELSE @.response]]

\* Slip: the answer of a request that was replaced is taken too.
historyAnsweredAny(h, r, ok) ==
  LET settled == [h EXCEPT !.sent = @ \ {r}]
  IN  IF ok \/ h.active[r.scope] = r.id THEN showHistory(settled, r, ok) ELSE settled

historyAnswered(h, r, ok) ==
  LET settled == [h EXCEPT !.sent = @ \ {r}]
  IN  IF h.active[r.scope] = r.id THEN showHistory(settled, r, ok) ELSE settled

abortAllHistoryRequests(h) == [h EXCEPT !.active = [s \in Scopes |-> 0]]

\* Those in view: the agent that is selected, the conversations expanded.
ActiveScopes(v) == v.expanded \cup ({v.selected_agent_id} \cap ShownAgents)

\* The requests set out one after the other, each with the next number; their
\* order among the scopes does not matter, each scope has its own.
RequestIds(h, scopes) ==
  CHOOSE ids \in [scopes -> h.historyRequestId + 1 .. h.historyRequestId + Cardinality(scopes)] :
    \A s, t \in scopes : ids[s] = ids[t] => s = t

refreshActiveHistoryScopes(v, h) ==
  LET scopes == ActiveScopes(v)
      ids    == RequestIds(h, scopes)
  IN  [h EXCEPT
        !.historyRequestId = @ + Cardinality(scopes),
        !.active = [s \in Scopes |-> IF s \in scopes THEN ids[s] ELSE h.active[s]],
        !.sent = @ \cup {[scope |-> s, id |-> ids[s]] : s \in scopes},
        !.cache = [s \in Scopes |->
                    IF s \in scopes THEN [h.cache[s] EXCEPT !.status = "loading"]
                    ELSE h.cache[s]]]

(***************************************************************************)
(* The poll.                                                               *)
(***************************************************************************)
\* Slip: a poll that is queued forgets which lifecycle asked for it.
queuePollForgetful(v, id) ==
  [v EXCEPT !.pollQueued = TRUE, !.queuedManualPoll = @ \/ id = Manual]

queuePoll(v, id) ==
  LET lifecycle == IF id # Manual THEN id
                   ELSE IF v.pollingStarted THEN v.currentPollingLifecycleId ELSE None
  IN  [v EXCEPT !.pollQueued = TRUE,
                !.queuedLifecycleId = IF lifecycle = None THEN @ ELSE lifecycle,
                !.queuedManualPoll = @ \/ lifecycle = None]

pollSnapshot(v, id) ==
  IF ~MaySet(v, id) THEN v
  ELSE IF v.poll # None THEN queuePoll(v, id)
  ELSE [v EXCEPT
         !.poll = [lifecycle |-> id, aborted |-> FALSE],
         !.snapshot_status = IF v.snapshot = None /\ @ # "incompatible"
                             THEN "loading" ELSE @]

\* The finally block: the poll that was queued behind this one starts.
endPoll(v) ==
  LET id == v.queuedLifecycleId
      ended == [v EXCEPT !.poll = None, !.pollQueued = FALSE,
                         !.queuedLifecycleId = None, !.queuedManualPoll = FALSE]
  IN  IF ~v.pollQueued THEN ended
      ELSE IF id # None /\ isPollingLifecycleActive(v, id) THEN pollSnapshot(ended, id)
      ELSE IF v.queuedManualPoll THEN pollSnapshot(ended, Manual)
      ELSE ended

\* The selected agent may have left the world.  The detail sheet shows it.
reconcileSelectionState(v, s) ==
  IF v.selected_agent_id \in s.agents THEN v
  ELSE [v EXCEPT !.selected_agent_id = None,
                 !.mobile_sheet_mode = IF @ = "detail" THEN "list" ELSE @]

\* Slip: whatever comes is shown.
showWhateverComes(v, s) ==
  applyStaleState(
    reconcileSelectionState([v EXCEPT !.snapshot_status = "ready", !.snapshot = s], s), s)

\* A snapshot arrives: an older one than that shown is dropped.
showSnapshot(v, s) ==
  LET ready == [v EXCEPT !.snapshot_status = "ready"]
      order == IF v.snapshot = None THEN 1 ELSE compareSnapshotVersion(s, v.snapshot)
  IN  IF order < 0 THEN v
      ELSE IF order = 0 THEN applyStaleState(ready, v.snapshot)
      ELSE applyStaleState(reconcileSelectionState([ready EXCEPT !.snapshot = s], s), s)

\* Slip: polling that was stopped does not keep an answer away.
pollAnsweredAnyway(v, s) == endPoll(showSnapshot(v, s))

pollAnswered(v, s) ==
  IF MaySet(v, v.poll.lifecycle) THEN endPoll(showSnapshot(v, s)) ELSE endPoll(v)

\* The histories in view are fetched anew once a poll showed the newest.
RefreshesHistories(v, s) ==
  /\ MaySet(v, v.poll.lifecycle)
  /\ v.snapshot = None \/ compareSnapshotVersion(s, v.snapshot) >= 0

pollFailed(v, incompatible) ==
  LET status == IF incompatible THEN "incompatible"
                ELSE IF v.snapshot_status = "incompatible" THEN "incompatible" ELSE "error"
  IN  IF v.poll.aborted \/ ~MaySet(v, v.poll.lifecycle) THEN endPoll(v)
      ELSE endPoll([v EXCEPT !.snapshot_status = status])

startPolling(v) ==
  LET id == v.currentPollingLifecycleId + 1
      started == [v EXCEPT !.pollingStarted = TRUE, !.currentPollingLifecycleId = id,
                           !.pollingInterval = id]
  IN  IF v.pollingStarted THEN v
      ELSE pollSnapshot(IF v.snapshot = None THEN started
                        ELSE applyStaleState(started, v.snapshot), id)

stopPolling(v) ==
  [v EXCEPT !.pollingStarted = FALSE, !.currentPollingLifecycleId = @ + 1,
            !.pollQueued = FALSE, !.queuedLifecycleId = None, !.queuedManualPoll = FALSE,
            !.poll = IF @ = None THEN None ELSE [@ EXCEPT !.aborted = TRUE],
            !.pollingInterval = None]
(***************************************************************************)
(* What the user does.                                                     *)
(***************************************************************************)
resolveMobileSheetModeOnSelection(a, mode) ==
  IF a # None THEN "detail" ELSE IF mode = "detail" THEN "list" ELSE mode

setSelectedAgentId(v, a) ==
  [v EXCEPT !.selected_agent_id = a,
            !.mobile_sheet_mode = resolveMobileSheetModeOnSelection(a, @)]

\* Slip: the agent stays selected when its sheet is closed.
setMobileSheetModeOnly(v, mode) ==
  IF mode = "detail" /\ v.selected_agent_id = None THEN v
  ELSE [v EXCEPT !.mobile_sheet_mode = mode]

setMobileSheetMode(v, mode) ==
  IF mode = "detail" /\ v.selected_agent_id = None THEN v
  ELSE [v EXCEPT !.mobile_sheet_mode = mode,
                 !.selected_agent_id =
                   IF v.mobile_sheet_mode = "detail" /\ mode # "detail" THEN None ELSE @]

toggleConversationExpanded(v, c) ==
  [v EXCEPT !.expanded = IF c \in @ THEN @ \ {c} ELSE @ \cup {c}]
============================================================================
