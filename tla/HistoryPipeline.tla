-------------------------- MODULE HistoryPipeline --------------------------
(***************************************************************************)
(* The way of an event to the histories spectators read: the               *)
(* AgentHistoryManager of the server buffers it for each agent it is about *)
(* and posts the buffers to the relay, which merges them into the          *)
(* documents of the agents and of the conversations.                       *)
(*                                                                         *)
(* A post may be lost, be answered with an error, or be given up after its *)
(* request timeout while the relay goes on with it; a write may fail; the  *)
(* relay may be evicted.                                                   *)
(***************************************************************************)
EXTENDS HistoryDocuments

CONSTANTS
  MaxRecipients,   \* bound: the agents of all events, counted once for each
  MaxHistoryFaults \* bound: faults

VARIABLES
  history,         \* the fields of AgentHistoryManager
  coming,          \* posts on their way to the relay
  operations,      \* serializedOperations of the relay, the one that runs first
  documents,       \* the objects of the object store
  recorded,        \* the entries recorded so far (auxiliary)
  overflowed,      \* the agents' entries a full buffer dropped (auxiliary)
  historyFaults    \* faults so far

historyVars ==
  <<history, coming, operations, documents, recorded, overflowed, historyFaults>>

InitHistory ==
  /\ history = newHistoryManager
  /\ coming = {}
  /\ operations = <<>>
  /\ documents = [d \in Documents |-> {}]
  /\ recorded = {} /\ overflowed = {}
  /\ historyFaults = 0

(***************************************************************************)
(* The server.                                                             *)
(***************************************************************************)
\* The manager steps to h and, when it is about to, makes a post that is left.
ManagerBecomes(h, waiting, posts) ==
  IF posts /\ h.flush.left # {}
  THEN \E p \in h.flush.left :
         /\ history' = [h EXCEPT !.flush.post = p, !.flush.left = @ \ {p}]
         /\ coming' = waiting \cup {[post |-> p, by |-> "server"]}
  ELSE history' = h /\ coming' = waiting

Recipients == Cardinality({p \in recorded \X Agents : p[2] \in p[1].agent_ids})

\* An event about some agents, of a conversation or not.
RecordEvent ==
  /\ \E agents \in (SUBSET Agents) \ {{}}, c \in Conversations \cup {None} :
       /\ Recipients + Cardinality(agents) <= MaxRecipients
       /\ LET entry == [event_id |-> Cardinality(recorded) + 1, agent_ids |-> agents,
                        conversation_id |-> c]
              h == recordEvent(history, entry)
          IN  /\ history' = h
              /\ recorded' = IF history.disposed THEN recorded ELSE recorded \cup {entry}
              /\ overflowed' = overflowed \cup
                   {p \in Agents \X recorded :
                      p[2] \in history.pending[p[1]] \ h.pending[p[1]]}
  /\ UNCHANGED <<coming, operations, documents, historyFaults>>

FlushTimerFires ==
  /\ history.flushTimer
  /\ ManagerBecomes(fireFlushTimer(history), coming, ~history.flush.running)
  /\ UNCHANGED <<operations, documents, recorded, overflowed, historyFaults>>

HistoryIsDisposed ==
  /\ ~history.disposed
  /\ ManagerBecomes(disposeHistory(history), coming, ~history.flush.running)
  /\ UNCHANGED <<operations, documents, recorded, overflowed, historyFaults>>

\* The fetch of the post that is awaited returns.
PostReturns(ok, waiting) ==
  ManagerBecomes(IF ok THEN flushAccepted(history) ELSE flushFailed(history), waiting, TRUE)

\* The post, and the operation it became, go on for nobody.
Abandoned(calls) == {[call EXCEPT !.by = "nobody"] : call \in calls}

HistoryPostTimesOut ==
  /\ historyFaults < MaxHistoryFaults /\ historyFaults' = historyFaults + 1
  /\ history.flush.post # None
  /\ PostReturns(FALSE, Abandoned(coming))
  /\ operations' = [i \in DOMAIN operations |-> [operations[i] EXCEPT !.by = "nobody"]]
  /\ UNCHANGED <<documents, recorded, overflowed>>

HistoryPostIsLost ==
  /\ historyFaults < MaxHistoryFaults /\ historyFaults' = historyFaults + 1
  /\ \E call \in coming :
       IF call.by = "server" THEN PostReturns(FALSE, coming \ {call})
       ELSE coming' = coming \ {call} /\ UNCHANGED history
  /\ UNCHANGED <<operations, documents, recorded, overflowed>>

(***************************************************************************)
(* The relay.                                                              *)
(***************************************************************************)
\* An operation ends: its call is answered, if somebody waits for it.
Answers(operation, ok) ==
  IF operation.by = "server" THEN PostReturns(ok, coming) ELSE UNCHANGED <<history, coming>>

HistoryPostArrives ==
  /\ \E call \in coming :
       /\ coming' = coming \ {call}
       /\ operations' = Append(operations, appendAgentHistory(call.post, call.by))
  /\ UNCHANGED <<history, documents, recorded, overflowed, historyFaults>>

OperationReads ==
  /\ \E i \in runsNow(operations) :
       /\ operations[i].at = None
       /\ \E d \in nextDocuments(operations[i]) :
            operations' = [operations EXCEPT ![i].at = d, ![i].current = documents[d]]
  /\ UNCHANGED <<history, coming, documents, recorded, overflowed, historyFaults>>

\* The document an operation is about to write.
Merged(operation) ==
  mergeHistoryEntryList(operation.current, entriesFor(operation.post, operation.at))

OperationWrites ==
  /\ \E i \in runsNow(operations) :
       LET operation == operations[i]
           rest == [operation EXCEPT !.left = @ \ {operation.at}, !.at = None, !.current = {}]
       IN  /\ operation.at # None
           /\ documents' = [documents EXCEPT ![operation.at] = Merged(operation)]
           /\ IF rest.left # {}
              THEN operations' = [operations EXCEPT ![i] = rest] /\ UNCHANGED <<history, coming>>
              ELSE operations' = RemoveAt(operations, i) /\ Answers(operation, TRUE)
  /\ UNCHANGED <<recorded, overflowed, historyFaults>>

\* A read or a write of the object store fails: the operation is given up.
OperationFails ==
  /\ historyFaults < MaxHistoryFaults /\ historyFaults' = historyFaults + 1
  /\ \E i \in runsNow(operations) :
       /\ operations' = RemoveAt(operations, i)
       /\ Answers(operations[i], FALSE)
  /\ UNCHANGED <<documents, recorded, overflowed>>

\* The relay is evicted: its operations are gone.  A write under way may or
\* may not have reached the object store.
HistoryRelayIsEvicted ==
  /\ historyFaults < MaxHistoryFaults /\ historyFaults' = historyFaults + 1
  /\ operations # <<>> /\ operations' = <<>>
  /\ documents' \in {documents} \cup
       {[documents EXCEPT ![operations[i].at] = Merged(operations[i])] :
          i \in {j \in runsNow(operations) : operations[j].at # None}}
  /\ IF \E i \in DOMAIN operations : operations[i].by = "server"
     THEN PostReturns(FALSE, coming) ELSE UNCHANGED <<history, coming>>
  /\ UNCHANGED <<recorded, overflowed>>

HistoryNext ==
  \/ RecordEvent \/ FlushTimerFires \/ HistoryIsDisposed
  \/ HistoryPostTimesOut \/ HistoryPostIsLost \/ HistoryPostArrives
  \/ OperationReads \/ OperationWrites \/ OperationFails \/ HistoryRelayIsEvicted

HistorySpec == InitHistory /\ [][HistoryNext]_historyVars

(***************************************************************************)
(* Safety.                                                                 *)
(***************************************************************************)
\* An entry is in a document, or was pushed out of it by newer ones.
Stored(e, d) ==
  Cardinality({f \in documents[d] : ListOf(f) = ListOf(e) /\ f.event_id >= e.event_id})
    >= IF e \in documents[d] THEN 1 ELSE DocumentLimit

\* No entry is lost on its way: until the relay has written it to the document
\* of the agent and to that of its conversation, it stays in the agent's
\* buffer, through failures, late answers, retries and operations of earlier
\* posts that are still under way.  Only a full buffer drops entries.
RecordedIsKept ==
  \A e \in recorded : \A a \in e.agent_ids :
    \/ e \in history.pending[a]
    \/ <<a, e>> \in overflowed
    \/ Stored(e, a) /\ (e.conversation_id # None => Stored(e, e.conversation_id))

\* What is buffered is going to be posted, until the manager gave up: a timer
\* is set, or a flush is under way; and no flush seems to run that is over.
BufferIsFlushed ==
  /\ history.flush.running => history.flush.post # None \/ history.disposed
  /\ Buffering(history) # {} /\ ~history.gaveUp /\ ~history.disposed =>
       history.flushTimer \/ history.flush.running
============================================================================
