-------------------------- MODULE HistoryDocuments --------------------------
(***************************************************************************)
(* worker/relay/bridge, the histories: a post of an agent's new entries is *)
(* merged into the document of that agent, then into the document of each  *)
(* conversation the entries belong to.  Documents are objects of the       *)
(* object store; each is read, merged and written, with waits in between,  *)
(* so the operations are serialized: one runs after the other.             *)
(***************************************************************************)
EXTENDS AgentHistoryManager, Sequences, SequencesExt

CONSTANT
  DocumentLimit     \* entries a document keeps of each kind

ASSUME DocumentLimitAssumption == DocumentLimit \in Nat \ {0}

\* Agents' and conversations' documents have keys of their own.
ASSUME DocumentsAreApart == Agents \cap Conversations = {}

\* A document is the set of its entries, of all kinds: an agent's document has
\* one list for conversations and others for the rest, each with the limit.
Documents == Agents \cup Conversations

ListOf(entry) == entry.conversation_id # None

NewestOf(entries) ==
  {e \in entries :
     Cardinality({f \in entries : ListOf(f) = ListOf(e) /\ f.event_id > e.event_id})
       < DocumentLimit}

mergeHistoryEntryList(existing, next) == NewestOf(existing \cup next)

conversationsOf(entries) == {e.conversation_id : e \in entries} \ {None}

documentsOf(post) == {post.agent_id} \cup conversationsOf(post.events)

entriesFor(post, document) ==
  {e \in post.events : document \in Conversations => e.conversation_id = document}

\* appendAgentHistory, queued: "by" tells whether the server still waits, left
\* are the documents still to be written, at is the one it has read, or None.
appendAgentHistory(post, by) ==
  [post |-> post, by |-> by, left |-> documentsOf(post), at |-> None, current |-> {}]

\* The agent's document comes first; the order of the conversations is left open.
nextDocuments(operation) ==
  IF operation.post.agent_id \in operation.left THEN {operation.post.agent_id}
  ELSE operation.left

\* drainSerializedOperations: the operations that may take a step.
runsNow(operations) == {1} \cap DOMAIN operations
============================================================================
