------------------------ MODULE AgentHistoryManager ------------------------
(***************************************************************************)
(* engine/agent-history-manager: every event that is part of an agent's    *)
(* history is buffered for each agent it concerns and posted to the relay  *)
(* in flushes, one post per agent.  What a post carried leaves the buffer  *)
(* when the relay accepted it; what failed is posted again with back-off   *)
(* until retryMaxAttempts flushes in a row had a failure.                  *)
(*                                                                         *)
(* Operators take the manager's fields to its fields after one run of the  *)
(* event loop.  flush is flushPending while it awaits the answer to post;  *)
(* left are the posts it has not made yet.  The order of the buffers in    *)
(* their Map, and so of the posts, is left open.                           *)
(***************************************************************************)
EXTENDS Null, FiniteSets

CONSTANTS
  Agents,
  Conversations,
  MaxBuffered,      \* maxBufferedEntriesPerAgent
  HistoryAttempts   \* retryMaxAttempts

\* A history entry; entries occur in the order of their ids.
HistoryEntry ==
  [event_id : Nat, agent_ids : SUBSET Agents, conversation_id : Conversations \cup {None}]

\* A post carries what the buffer of an agent held when the flush began.
HistoryPost == [agent_id : Agents, events : SUBSET HistoryEntry]

ASSUME HistoryAssumption ==
  /\ MaxBuffered \in Nat \ {0} /\ HistoryAttempts \in Nat \ {0}
  /\ None \notin Agents \cup Conversations /\ None \notin HistoryPost

noFlush ==
  [running |-> FALSE, post |-> None, left |-> {}, hadFailure |-> FALSE, newer |-> FALSE]

\* pending: the buffer of each agent; one that is empty is not in the Map.
newHistoryManager ==
  [pending |-> [a \in Agents |-> {}], flushTimer |-> FALSE, flush |-> noFlush,
   consecutiveFailures |-> 0, gaveUp |-> FALSE, disposed |-> FALSE]

Buffering(h) == {a \in Agents : h.pending[a] # {}}

\* The oldest entries are dropped when a buffer overflows.
NewestEntries(entries) ==
  {e \in entries : Cardinality({f \in entries : f.event_id > e.event_id}) < MaxBuffered}

addPending(pending, entry) ==
  [a \in Agents |-> IF a \in entry.agent_ids THEN NewestEntries(pending[a] \cup {entry})
                    ELSE pending[a]]

scheduleFlush(h) ==
  IF h.disposed \/ h.flush.running THEN h ELSE [h EXCEPT !.flushTimer = TRUE]

\* The manager also keeps the newest entries of each agent for getHistory,
\* which nothing reads.
recordEvent(h, entry) ==
  LET recorded == [h EXCEPT
        !.gaveUp = FALSE,
        !.consecutiveFailures = IF h.gaveUp THEN 0 ELSE @,
        !.flush.newer = h.flush.running,
        !.pending = addPending(@, entry)]
  IN  IF h.disposed THEN h ELSE scheduleFlush(recorded)

\* The finally block of flushPending: again schedules another flush.
endFlushAnd(h, again) ==
  LET failures == IF h.flush.hadFailure THEN h.consecutiveFailures + 1 ELSE 0
      ended == [h EXCEPT !.flush = noFlush, !.consecutiveFailures = failures,
                         !.gaveUp = @ \/ failures >= HistoryAttempts]
  IN  IF ~ended.disposed /\ Buffering(ended) # {} /\ ~ended.gaveUp /\ again
      THEN scheduleFlush(ended) ELSE ended

\* Slip: only a failure is followed by another flush.
endFlushQuietly(h) == endFlushAnd(h, h.flush.hadFailure)

endFlush(h) == endFlushAnd(h, h.flush.hadFailure \/ h.flush.newer)

\* With nothing to post it would end, and clear flushPromise, before its
\* promise is assigned to it: a flush that seems to run forever.
flushPending(h) ==
  IF Buffering(h) = {} THEN [endFlush(h) EXCEPT !.flush.running = TRUE]
  ELSE [h EXCEPT !.flush =
         [noFlush EXCEPT !.running = TRUE,
            !.left = {[agent_id |-> a, events |-> h.pending[a]] : a \in Buffering(h)}]]

\* The callback of the timer.
fireFlushTimer(h) ==
  LET fired == [h EXCEPT !.flushTimer = FALSE]
  IN  IF h.flush.running THEN fired ELSE flushPending(fired)

nextPost(h) == IF h.flush.left = {} THEN endFlush(h) ELSE h

\* Slip: an accepted post empties the buffer.
flushAcceptedAll(h) == nextPost([h EXCEPT !.pending[h.flush.post.agent_id] = {}])

\* The entries that were posted leave the buffer.
flushAccepted(h) ==
  LET sent == h.flush.post
      ids == {e.event_id : e \in sent.events}
  IN  nextPost([h EXCEPT !.pending[sent.agent_id] = {e \in @ : e.event_id \notin ids}])

flushFailed(h) == nextPost([h EXCEPT !.flush.hadFailure = TRUE])

\* A flush that is running already is the last one.
disposeHistory(h) ==
  LET disposed == [h EXCEPT !.disposed = TRUE, !.flushTimer = FALSE]
  IN  IF h.flush.running THEN disposed ELSE flushPending(disposed)
============================================================================
