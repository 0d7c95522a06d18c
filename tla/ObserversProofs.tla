--------------------------- MODULE ObserversProofs ----------------------------
(***************************************************************************)
(* What stands beside the engine, for every value of the constants: the    *)
(* server's announcements, the posts of the Discord threads, the           *)
(* spectators' screen and the histories it reads, and the search for the   *)
(* way an agent walks. Each part has an inductive invariant of its own.    *)
(***************************************************************************)
EXTENDS Spectators, HistoryPipeline, DiscordNotifier, ServerEvents, MapPaths,
        FiniteSetTheorems, WellFoundedInduction, TLAPS

(***************************************************************************)
(* Server events, however often the server is started.                     *)
(***************************************************************************)

\* None is no state an event in the store is in, so that what the file restores
\* is what was active.
ServerEventsIInv ==
  /\ events \in [ServerEventIds -> {"active", "cleared", None}]
  /\ deliveries \in [AskingAgents -> Seq(SUBSET ServerEventIds)]
  /\ toldEvents \in [AskingAgents -> SUBSET ServerEventIds]
  /\ asked \subseteq AskingAgents
  /\ FileHoldsTheActive
  /\ AskedAgentsAreUpToDate

\* A server without events, whose agents asked for none.
LEMMA ServerEventsInit == InitServerEvents => ServerEventsIInv
BY EventStatesAssumption
DEF InitServerEvents, ServerEventsIInv, FileHoldsTheActive, listActive,
    AskedAgentsAreUpToDate

\* A write that succeeds changes file and store alike, and offers the command
\* to everybody; one that fails changes nothing.
LEMMA PersistedKeeps ==
  ASSUME ServerEventsIInv, UNCHANGED answerVars,
         NEW stored \in [ServerEventIds -> {"active", "cleared", None}],
         persisted(stored)
  PROVE  ServerEventsIInv'
<1>1. CASE UNCHANGED <<events, eventsFile, asked>>
  BY <1>1
  DEF ServerEventsIInv, FileHoldsTheActive, listActive, AskedAgentsAreUpToDate,
      answerVars
<1>2. CASE /\ events' = stored /\ asked' = {}
           /\ eventsFile' = serializeForPersistence(stored)
  BY <1>2
  DEF ServerEventsIInv, FileHoldsTheActive, listActive, AskedAgentsAreUpToDate,
      serializeForPersistence, answerVars
<1> QED
  BY <1>1, <1>2 DEF persisted

\* What an agent may be waiting for or was told.
UpToDate(queue, told, lost, active) ==
  IF queue # <<>> THEN Last(queue) = active ELSE lost \/ told = active

\* The answer appended last is the one made of the events as they are.
LEMMA LastOfAppend ==
  ASSUME NEW S, NEW queue \in Seq(S), NEW x \in S
  PROVE  Append(queue, x) # <<>> /\ Last(Append(queue, x)) = x
BY DEF Last

\* Taking the first answer leaves the last in its place, or the queue empty.
LEMMA LastOfTail ==
  ASSUME NEW S, NEW queue \in Seq(S), queue # <<>>
  PROVE  /\ Tail(queue) \in Seq(S) /\ Head(queue) \in S
         /\ Tail(queue) # <<>> => Last(Tail(queue)) = Last(queue)
         /\ Tail(queue) = <<>> => Head(queue) = Last(queue)
<1>1. Len(queue) \in Nat \ {0} /\ Tail(queue) \in Seq(S) /\ Head(queue) \in S
      /\ Len(Tail(queue)) = Len(queue) - 1 /\ Head(queue) = queue[1]
      /\ \A k \in 1 .. Len(queue) - 1 : Tail(queue)[k] = queue[k + 1]
  OBVIOUS
<1>2. Tail(queue) # <<>> => Len(queue) - 1 \in 1 .. Len(queue) - 1
  BY <1>1
<1> DEFINE rest == Tail(queue)
<1>3. Len(rest) = Len(queue) - 1
  BY <1>1
<1> HIDE DEF rest
<1>4. Len(queue) \in Nat /\ Len(<<>>) = 0
  BY <1>1
<1>5. rest = <<>> => Len(queue) = 1
  BY <1>3, <1>4
<1> QED
  BY <1>1, <1>2, <1>5 DEF Last, rest

\* An agent that asks, is answered or is not keeps the others up to date.
LEMMA AnswersKeep ==
  ASSUME ServerEventsIInv, NEW a \in AskingAgents,
         requestServerEvents(a) \/ answerIsDelivered(a) \/ answerIsLost(a)
  PROVE  ServerEventsIInv'
<1> DEFINE active == listActive(events)
<1>1. active \in SUBSET ServerEventIds /\ deliveries[a] \in Seq(SUBSET ServerEventIds)
  BY DEF listActive, ServerEventsIInv
<1>2. events' = events /\ eventsFile' = eventsFile
  BY DEF requestServerEvents, answerIsDelivered, answerIsLost
<1>3. listActive(events') = active
  BY <1>2 DEF listActive
<1> HIDE DEF active
<1>4. \A b \in AskingAgents \ {a} :
        /\ b \in asked' <=> b \in asked
        /\ deliveries'[b] = deliveries[b] /\ toldEvents'[b] = toldEvents[b]
        /\ b \in missed' <=> b \in missed
  BY DEF requestServerEvents, answerIsDelivered, answerIsLost, ServerEventsIInv
<1>5. /\ deliveries' \in [AskingAgents -> Seq(SUBSET ServerEventIds)]
      /\ toldEvents' \in [AskingAgents -> SUBSET ServerEventIds]
      /\ asked' \subseteq AskingAgents
      /\ a \in asked' => UpToDate(deliveries'[a], toldEvents'[a], a \in missed', active)
  <2>1. CASE requestServerEvents(a)
    <3>1. /\ asked' = asked \cup {a} /\ toldEvents' = toldEvents
          /\ deliveries' = [deliveries EXCEPT ![a] = Append(@, active)]
      BY <2>1 DEF requestServerEvents, active
    <3>2. Append(deliveries[a], active) \in Seq(SUBSET ServerEventIds)
      BY <1>1
    <3>3. deliveries'[a] = Append(deliveries[a], active)
      BY <3>1 DEF ServerEventsIInv
    <3>4. deliveries'[a] # <<>> /\ Last(deliveries'[a]) = active
      BY <1>1, <3>3, LastOfAppend
    <3> QED
      BY <3>1, <3>2, <3>4 DEF ServerEventsIInv, UpToDate
  <2>2. CASE answerIsDelivered(a) \/ answerIsLost(a)
    <3>1. /\ deliveries[a] # <<>> /\ asked' = asked
          /\ deliveries' = [deliveries EXCEPT ![a] = Tail(@)]
          /\ \/ toldEvents' = [toldEvents EXCEPT ![a] = Head(deliveries[a])]
             \/ toldEvents' = toldEvents /\ a \in missed'
      BY <2>2 DEF answerIsDelivered, answerIsLost
    <3>2. /\ Tail(deliveries[a]) \in Seq(SUBSET ServerEventIds)
          /\ Head(deliveries[a]) \in SUBSET ServerEventIds
          /\ Tail(deliveries[a]) # <<>> => Last(Tail(deliveries[a])) = Last(deliveries[a])
          /\ Tail(deliveries[a]) = <<>> => Head(deliveries[a]) = Last(deliveries[a])
      BY <1>1, <3>1, LastOfTail
    <3>3. /\ deliveries'[a] = Tail(deliveries[a])
          /\ toldEvents'[a] = Head(deliveries[a]) \/ a \in missed'
      BY <3>1 DEF ServerEventsIInv
    <3>4. a \in asked => Last(deliveries[a]) = active
      BY <3>1 DEF ServerEventsIInv, AskedAgentsAreUpToDate, active
    <3>5. /\ deliveries' \in [AskingAgents -> Seq(SUBSET ServerEventIds)]
          /\ toldEvents' \in [AskingAgents -> SUBSET ServerEventIds]
      BY <3>1, <3>2 DEF ServerEventsIInv
    <3>6. a \in asked' => UpToDate(deliveries'[a], toldEvents'[a], a \in missed', active)
      BY <3>1, <3>2, <3>3, <3>4 DEF UpToDate
    <3> QED
      BY <3>1, <3>5, <3>6 DEF ServerEventsIInv
  <2> QED
    BY <2>1, <2>2
<1>6. AskedAgentsAreUpToDate'
  BY <1>3, <1>4, <1>5
  DEF ServerEventsIInv, AskedAgentsAreUpToDate, UpToDate, active
<1> QED
  BY <1>2, <1>3, <1>5, <1>6 DEF ServerEventsIInv, FileHoldsTheActive, active

\* Every step keeps the invariant.
THEOREM ServerEventsStep ==
  ASSUME ServerEventsIInv, [ServerEventsNext]_serverEventVars
  PROVE  ServerEventsIInv'
<1>1. ASSUME NEW e \in ServerEventIds, createServerEvent(e)
      PROVE  ServerEventsIInv'
  <2>1. createdIn(events, e) \in [ServerEventIds -> {"active", "cleared", None}]
    BY DEF ServerEventsIInv, createdIn
  <2> QED
    BY <1>1, <2>1, PersistedKeeps DEF createServerEvent
<1>2. ASSUME NEW e \in ServerEventIds, clearServerEvent(e)
      PROVE  ServerEventsIInv'
  <2>1. clearedIn(events, e) \in [ServerEventIds -> {"active", "cleared", None}]
    BY DEF ServerEventsIInv, clearedIn
  <2> QED
    BY <1>2, <2>1, PersistedKeeps DEF clearServerEvent
<1>3. ASSUME NEW a \in AskingAgents,
             requestServerEvents(a) \/ answerIsDelivered(a) \/ answerIsLost(a)
      PROVE  ServerEventsIInv'
  BY <1>3, AnswersKeep
<1>4. ASSUME NEW a \in AskingAgents, commandsAreOfferedAgain(a)
      PROVE  ServerEventsIInv'
  BY <1>4
  DEF commandsAreOfferedAgain, ServerEventsIInv, FileHoldsTheActive, listActive,
      AskedAgentsAreUpToDate, answerVars
<1>5. CASE ServerRestarts
  <2>1. eventsFile \subseteq ServerEventIds
    BY DEF ServerEventsIInv, FileHoldsTheActive, listActive
  <2>2. /\ events' \in [ServerEventIds -> {"active", "cleared", None}]
        /\ listActive(events') = eventsFile
    BY <1>5, <2>1, EventStatesAssumption
    DEF ServerRestarts, restoreFromSnapshot, listActive
  <2>3. deliveries' \in [AskingAgents -> Seq(SUBSET ServerEventIds)]
    BY <1>5 DEF ServerRestarts
  <2> QED
    BY <1>5, <2>2, <2>3
    DEF ServerRestarts, ServerEventsIInv, FileHoldsTheActive,
        AskedAgentsAreUpToDate
<1>6. CASE UNCHANGED serverEventVars
  BY <1>6
  DEF serverEventVars, answerVars, ServerEventsIInv, FileHoldsTheActive, listActive,
      AskedAgentsAreUpToDate
<1> QED
  BY <1>1, <1>2, <1>3, <1>4, <1>5, <1>6 DEF ServerEventsNext

\* What goes on survives the process: the file always holds the active events.
THEOREM FileAlwaysHoldsTheActive == ServerEventsSpec => []FileHoldsTheActive
<1>1. ServerEventsIInv => FileHoldsTheActive
  BY DEF ServerEventsIInv
<1> QED
  BY <1>1, ServerEventsInit, ServerEventsStep, PTL DEF ServerEventsSpec

\* emitInfoRequest keeps an agent from asking for the events again only as long as
\* the last answer in its queue, or the last one delivered, tells it what goes
\* on, or that answer was lost.
THEOREM AskedAgentsAlwaysUpToDate == ServerEventsSpec => []AskedAgentsAreUpToDate
<1>1. ServerEventsIInv => AskedAgentsAreUpToDate
  BY DEF ServerEventsIInv
<1> QED
  BY <1>1, ServerEventsInit, ServerEventsStep, PTL DEF ServerEventsSpec

(***************************************************************************)
(* What agents and threads are told: the order of the posts about a        *)
(* conversation, the partners a logout remembers and the actions a prompt  *)
(* leaves out, for every number of agents, events and failures.            *)
(***************************************************************************)

(***************************************************************************)
(* Types.                                                                  *)
(***************************************************************************)
Rejected == RejectedActions \cup {None}

People == [in : BOOLEAN, window : BOOLEAN, rejected : Rejected]

WorldOK(w) ==
  /\ w = [people |-> w.people, phase |-> w.phase, members |-> w.members]
  /\ w.people \in [NotifiedAgents -> People]
  /\ w.phase \in {"none", "open", "closed"}
  /\ w.members \in Seq(NotifiedAgents)
  /\ \A a \in NotifiedAgents : w.people[a].in \/ w.people[a].rejected = None

\* The steps that concern an agent, and any step.
AgentStep ==
  [do : {"notify", "message", "turn", "leave", "logout"}, to : NotifiedAgents,
   style : {"built", "clearing", "followUp", "reminder"},
   prompt : BOOLEAN, caught : BOOLEAN]

AnyStep == AgentStep \cup {Step("finalize", None)}

Task ==
  [clears : BOOLEAN, optional : BOOLEAN, hides : Rejected, caught : BOOLEAN,
   rest : Seq(AnyStep)]

Call ==
  [call : {"thread", "yield", "rename", "goodbye"}, rest : Seq(AnyStep),
   of : NotifiedAgents]

LogEntry ==
  [what : {"message", "leave", "logout", "end"}, known : BOOLEAN, archiving : BOOLEAN]

Desk(d) ==
  /\ d = [queues |-> d.queues, log |-> d.log, sends |-> d.sends, thread |-> d.thread,
          known |-> d.known, forced |-> d.forced, annotations |-> d.annotations]
  /\ d.queues \in [NotifiedAgents -> Seq(Task)]
  /\ d.log \in Seq(LogEntry)
  /\ d.sends \in SUBSET Call
  /\ d.known \in BOOLEAN
  /\ d.forced \in Seq(NotifiedAgents)

Post ==
  [what : {"message", "leave", "logout", "end", "archive"}, where : {"thread", "world-log"}]

(***************************************************************************)
(* The log of a conversation and what was posted of it.                    *)
(***************************************************************************)
Has(seq, what) == \E i \in DOMAIN seq : seq[i].what = what

\* After an end no message waits and no entry goes to the thread; only the head
\* of the log is being archived, and it is an end.
LogInOrder(d) ==
  /\ Has(d.log, "end") => ~d.known
  /\ \A i, j \in DOMAIN d.log : i < j /\ d.log[i].what = "end" =>
       ~d.log[j].known /\ d.log[j].what # "message"
  /\ \A i \in DOMAIN d.log : d.log[i].archiving =>
       i = 1 /\ d.log[i].known /\ d.log[i].what = "end"

\* So it is after an end was posted; after the archive nothing is archived.
PostsInOrder(d, p) ==
  /\ p \in Seq(Post)
  /\ Has(p, "end") =>
       /\ ~d.known
       /\ \A i \in DOMAIN d.log : /\ d.log[i].what # "message"
                                  /\ d.log[i].known => d.log[i].archiving
  /\ (\E i \in DOMAIN d.log : d.log[i].archiving) => Has(p, "end")
  /\ Has(p, "archive") =>
       Has(p, "end") /\ \A i \in DOMAIN d.log : ~d.log[i].archiving
  /\ \A i, j \in DOMAIN p : i < j =>
       /\ p[i].what = "archive" => p[j].where = "world-log"
       /\ p[i].what = "end" => p[j].what # "message"

\* No end has been asked for, not even by a handler that waits.
Unended(d, p) ==
  /\ ~Has(d.log, "end") /\ ~Has(p, "end")
  /\ \A a \in NotifiedAgents : \A i \in DOMAIN d.queues[a] :
       d.queues[a][i].rest \in Seq(AgentStep)
  /\ \A s \in d.sends : s.rest \in Seq(AgentStep)

NotifierIInv ==
  /\ WorldOK(world) /\ Desk(desk)
  /\ LogInOrder(desk) /\ PostsInOrder(desk, posts)
  /\ world.phase # "closed" => Unended(desk, posts)
  /\ ForcedEndsAreConsumed

(***************************************************************************)
(* Sequences.                                                              *)
(***************************************************************************)
\* The least of some natural numbers.
LEMMA LeastOf ==
  ASSUME NEW S \in SUBSET Nat, NEW n \in S
  PROVE  \E m \in S : \A k \in S : m <= k
<1> DEFINE R == {p \in Nat \X Nat : p[1] < p[2]}
<1>1. R = OpToRel(<, Nat)
  BY Zenon DEF OpToRel
<1>2. IsWellFoundedOn(R, Nat)
  BY <1>1, NatLessThanWellFounded, Zenon
<1> HIDE DEF R
<1>3. \E m \in S : \A k \in S : ~(<<k, m>> \in R)
  BY <1>2, WFMin, Zenon
<1>4. PICK m \in S : \A k \in S : ~(<<k, m>> \in R)
  BY <1>3
<1>5. ASSUME NEW k \in S PROVE m <= k
  <2>1. k \in Nat /\ m \in Nat /\ ~(<<k, m>> \in R)
    BY <1>4
  <2>2. k < m => <<k, m>> \in R
    BY <2>1 DEF R
  <2> QED
    BY <2>1, <2>2
<1> QED
  BY <1>5

\* Those that are left of some agents when one is left out.
LEMMA OthersType ==
  ASSUME NEW s \in Seq(NotifiedAgents), NEW a
  PROVE  Others(s, a) \in Seq(NotifiedAgents)
<1> DEFINE I == {i \in 1 .. Len(s) : s[i] = a}
<1>1. CASE I = {}
  BY <1>1 DEF Others, RemoveFirst
<1>2. CASE I # {}
  <2>1. I \in SUBSET Nat
    OBVIOUS
  <2>2. PICK n : n \in I
    BY <1>2
  <2> HIDE DEF I
  <2>3. \E m \in I : \A k \in I : m <= k
    BY <2>1, <2>2, LeastOf
  <2>4. Min(I) \in I
    BY <2>3, Zenon DEF Min
  <2>5. Min(I) \in 1 .. Len(s)
    BY <2>4 DEF I
  <2>6. SelectInSeq(s, LAMBDA v : v = a) = Min(I)
    BY <1>2 DEF SelectInSeq, I
  <2>7. Others(s, a) = RemoveAt(s, Min(I))
    BY <1>2, <2>6 DEF Others, RemoveFirst, I
  <2> DEFINE k == Min(I)
  <2> HIDE DEF k
  <2>8. k \in 1 .. Len(s)
    BY <2>5 DEF k
  <2>9. RemoveAt(s, k) \in Seq(NotifiedAgents)
    <3>1. SubSeq(s, 1, k - 1) \in Seq(NotifiedAgents)
      BY <2>8
    <3>2. SubSeq(s, k + 1, Len(s)) \in Seq(NotifiedAgents)
      BY <2>8
    <3> QED
      BY <3>1, <3>2 DEF RemoveAt
  <2> QED
    BY <2>7, <2>9 DEF k
<1> QED
  BY <1>1, <1>2

\* A notification for each of some agents.
LEMMA NotifyAll ==
  ASSUME NEW s \in Seq(NotifiedAgents), NEW style \in {"built", "clearing", "followUp", "reminder"},
         NEW prompt \in BOOLEAN
  PROVE  [i \in DOMAIN s |-> Notify(s[i], style, prompt)] \in Seq(AgentStep)
<1>1. \A i \in 1 .. Len(s) : Notify(s[i], style, prompt) \in AgentStep
  BY DEF Notify, AgentStep
<1> QED
  BY <1>1

\* A step without a style of its own.
LEMMA StepIs ==
  ASSUME NEW do, NEW a
  PROVE  /\ Step(do, a) = [do |-> do, to |-> a, style |-> "followUp",
                          prompt |-> FALSE, caught |-> FALSE]
         /\ do \in {"notify", "message", "turn", "leave", "logout"} /\ a \in NotifiedAgents
              => Step(do, a) \in AgentStep
<1> DEFINE n == [do |-> "notify", to |-> a, style |-> "followUp",
                 prompt |-> FALSE, caught |-> FALSE]
           s == Step(do, a)
<1>1. s = [n EXCEPT !.do = do]
  BY Zenon DEF Notify, Step
<1> HIDE DEF s
<1>2. s = [do |-> do, to |-> a, style |-> "followUp", prompt |-> FALSE, caught |-> FALSE]
  BY <1>1
<1> QED
  BY <1>2 DEF AgentStep, s

\* A message for each of some agents.
LEMMA MessageAll ==
  ASSUME NEW s \in Seq(NotifiedAgents)
  PROVE  [i \in DOMAIN s |-> Step("message", s[i])] \in Seq(AgentStep)
<1>1. \A i \in 1 .. Len(s) : Step("message", s[i]) \in AgentStep
  BY StepIs
<1> QED
  BY <1>1

\* A step of an agent is one of all steps.
LEMMA AnySteps == \A steps \in Seq(AgentStep) : steps \in Seq(AnyStep)
  BY DEF AnyStep

(***************************************************************************)
(* What one step of a handler does to the desk.                            *)
(***************************************************************************)
Entry(what, known) == [what |-> what, known |-> known, archiving |-> FALSE]

Performed(e, d, steps) ==
  /\ Desk(e) /\ e.sends = d.sends /\ e.forced = d.forced
  /\ \/ e.log = d.log /\ e.known = d.known
     \/ \E what \in {"leave", "logout"} :
          e.log = Append(d.log, Entry(what, d.known)) /\ e.known = d.known
     \/ /\ e.log = Append(d.log, Entry("end", d.known)) /\ ~e.known
        /\ steps \notin Seq(AgentStep)
  /\ \A a \in NotifiedAgents :
       \/ e.queues[a] = d.queues[a]
       \/ \E t \in Task : e.queues[a] = Append(d.queues[a], t) /\ t.rest = Tail(steps)

Logged(x, d, what) ==
  /\ Desk(x) /\ x.sends = d.sends /\ x.forced = d.forced /\ x.queues = d.queues
  /\ x.log = Append(d.log, Entry(what, d.known)) /\ x.known = d.known

\* A step of a handler queues one notification with the rest of the handler,
\* or one entry of the log; only finalize queues an end.
LEMMA PerformedIs ==
  ASSUME NEW d, Desk(d), NEW w, WorldOK(w), NEW steps \in Seq(AnyStep)
  PROVE  Performed(performed(d, w, steps), d, steps)
<1> DEFINE e == performed(d, w, steps)
<1>1. CASE steps = <<>>
  <2>1. e = d
    BY <1>1, Zenon DEF performed
  <2> QED
    BY <2>1 DEF Performed
<1>2. CASE steps # <<>>
  <2> DEFINE step == Head(steps)
             rest == Tail(steps)
  <2>1. step \in AnyStep /\ rest \in Seq(AnyStep)
    BY <1>2
  <2>2. step.do \in {"notify", "message", "turn", "leave", "logout", "finalize"}
    BY <2>1 DEF AnyStep, AgentStep, Step, Notify
  <2>3. step.do = "finalize" => steps \notin Seq(AgentStep)
    <3>1. steps \in Seq(AgentStep) => step \in AgentStep
      BY <1>2
    <3> QED
      BY <3>1 DEF AgentStep
  <2>4. step.do # "finalize" => step \in AgentStep
    BY <2>1 DEF AnyStep, AgentStep, Step, Notify
  <2> HIDE DEF step, rest
  <2>5. ASSUME step \in AgentStep, NEW x, Desk(x), x.log = d.log, x.known = d.known,
               x.sends = d.sends, x.forced = d.forced, x.queues = d.queues
        PROVE  Performed(enqueueAgentMessageDelivery(x, w, step, rest), d, steps)
    <3> DEFINE u == [clears |-> \/ step.style \in {"clearing", "reminder"}
                                \/ step.style = "followUp" /\ w.people[step.to].window,
                     optional |-> step.style = "reminder",
                     hides |-> captureChoicesPromptSuppressions(w, step),
                     caught |-> step.caught, rest |-> rest]
               y == [x EXCEPT !.queues[step.to] = Append(@, u)]
    <3>1. u \in Task
      <4>1. step.to \in NotifiedAgents /\ step.caught \in BOOLEAN
        BY <2>5 DEF AgentStep
      <4>2. w.people[step.to] \in People
        BY <4>1 DEF WorldOK
      <4>3. captureChoicesPromptSuppressions(w, step) \in Rejected
        BY <4>2 DEF captureChoicesPromptSuppressions, People, Rejected
      <4> QED
        BY <2>1, <4>1, <4>2, <4>3 DEF Task, People
    <3>2. u.rest = Tail(steps)
      BY DEF rest
    <3>3. enqueueAgentMessageDelivery(x, w, step, rest) = y
      BY Zenon DEF enqueueAgentMessageDelivery
    <3> HIDE DEF u
    <3>4. step.to \in NotifiedAgents
      BY <2>5 DEF AgentStep
    <3> DEFINE Q == [x.queues EXCEPT ![step.to] = Append(@, u)]
    <3>5. Q \in [NotifiedAgents -> Seq(Task)]
      BY <2>5, <3>1, <3>4 DEF Desk
    <3>6. \A a \in NotifiedAgents : Q[a] = d.queues[a] \/ Q[a] = Append(d.queues[a], u)
      BY <2>5, <3>4 DEF Desk
    <3>7. y = [x EXCEPT !.queues = Q]
      OBVIOUS
    <3> HIDE DEF Q, y
    <3>8. /\ y = [queues |-> Q, log |-> x.log, sends |-> x.sends, thread |-> x.thread,
                  known |-> x.known, forced |-> x.forced, annotations |-> x.annotations]
      BY <2>5, <3>7 DEF Desk
    <3>9. Desk(y) /\ y.queues = Q /\ y.log = d.log /\ y.known = d.known /\ y.sends = d.sends
            /\ y.forced = d.forced
      BY <2>5, <3>5, <3>8 DEF Desk
    <3> QED
      BY <3>1, <3>2, <3>3, <3>6, <3>9 DEF Performed
  <2>6. ASSUME NEW what \in {"leave", "logout", "end"}
        PROVE  Logged(enqueueConversationLog(d, what), d, what)
    <3>1. Entry(what, d.known) \in LogEntry
      BY DEF Entry, LogEntry, Desk
    <3>2. Append(d.log, Entry(what, d.known)) \in Seq(LogEntry)
      BY <3>1 DEF Desk
    <3> DEFINE L == Append(d.log, Entry(what, d.known))
               x == [d EXCEPT !.log = L]
    <3>3. enqueueConversationLog(d, what) = x
      BY Zenon DEF enqueueConversationLog, Entry
    <3>a. x = [d EXCEPT !.log = L]
      OBVIOUS
    <3> HIDE DEF L, x
    <3>4. x = [queues |-> d.queues, log |-> L, sends |-> d.sends, thread |-> d.thread,
               known |-> d.known, forced |-> d.forced, annotations |-> d.annotations]
      BY <3>a DEF Desk
    <3>5. Logged(x, d, what)
      BY <3>2, <3>4 DEF Logged, Desk, L
    <3> QED
      BY <3>3, <3>5 DEF x
  <2>7. ASSUME step.do = "notify" PROVE Performed(e, d, steps)
    <3>1. e = enqueueAgentMessageDelivery(d, w, step, rest)
      BY <1>2, <2>7, Zenon DEF performed, step, rest
    <3> QED
      BY <2>4, <2>5, <2>7, <3>1
  <2> DEFINE c == consumeInConversationTransferAnnotation(d, step.to)
  <2>8. Desk(c) /\ c.log = d.log /\ c.known = d.known /\ c.sends = d.sends
          /\ c.forced = d.forced /\ c.queues = d.queues
    <3> DEFINE A == d.annotations \ {step.to}
    <3>1. c = [d EXCEPT !.annotations = A]
      BY Zenon DEF consumeInConversationTransferAnnotation
    <3> HIDE DEF A, c
    <3>2. c = [queues |-> d.queues, log |-> d.log, sends |-> d.sends, thread |-> d.thread,
               known |-> d.known, forced |-> d.forced, annotations |-> A]
      BY <3>1 DEF Desk
    <3> QED
      BY <3>2 DEF Desk
  <2> HIDE DEF c
  <2>9. ASSUME step.do \in {"message", "turn"} PROVE Performed(e, d, steps)
    <3>1. e = enqueueAgentMessageDelivery(c, w, step, rest) \/ e = d
      BY <1>2, <2>9, Zenon DEF performed, step, rest, c
    <3>2. Performed(d, d, steps)
      BY DEF Performed
    <3> QED
      BY <2>4, <2>5, <2>8, <2>9, <3>1, <3>2
  <2>10. ASSUME step.do \in {"leave", "logout"} PROVE Performed(e, d, steps)
    <3>1. e = enqueueConversationLog(d, step.do)
      BY <1>2, <2>10, Zenon DEF performed, step, rest, postConversationSystemMessage,
         sendLogoutWorldLog
    <3> QED
      BY <2>6, <2>10, <3>1 DEF Performed, Logged
  <2>11. ASSUME step.do = "finalize" PROVE Performed(e, d, steps)
    <3> DEFINE x == enqueueConversationLog(d, "end")
    <3>1. e = [x EXCEPT !.known = FALSE]
      BY <1>2, <2>11, Zenon DEF performed, step, rest, finalizeConversationThread
    <3>2. Desk(x) /\ x.sends = d.sends /\ x.forced = d.forced
            /\ x.log = Append(d.log, Entry("end", d.known)) /\ x.queues = d.queues
      BY <2>6 DEF Logged
    <3> HIDE DEF x, e
    <3>3. Desk(e) /\ e.sends = x.sends /\ e.forced = x.forced /\ e.log = x.log
            /\ e.queues = x.queues /\ ~e.known
      BY <3>1, <3>2 DEF Desk
    <3> QED
      BY <2>3, <2>11, <3>2, <3>3 DEF Performed
  <2> QED
    BY <2>2, <2>7, <2>9, <2>10, <2>11
<1> QED
  BY <1>1, <1>2

(***************************************************************************)
(* Steps that keep the log and the posts in order.                         *)
(***************************************************************************)
InOrder(d, p) == Desk(d) /\ LogInOrder(d) /\ PostsInOrder(d, p)

\* A member whose logout ended the conversation has a handler that goes on, or is
\* one of those that could not be written back.
Awaits(d, agents) ==
  d.forced # <<>> =>
    \/ \E s \in d.sends : s.call = "goodbye" /\ s.of \in ToSet(d.forced)
    \/ ToSet(d.forced) \cap agents # {}

Awaited(d) == Awaits(d, unsaved)

Goes(e, d, p) ==
  /\ InOrder(e, p)
  /\ Awaited(d) => Awaited(e)
  /\ Unended(d, p) => Unended(e, p)

\* One step, then another.
LEMMA GoesTwice ==
  ASSUME NEW d, NEW p, NEW x, Goes(x, d, p), NEW e, Goes(e, x, p)
  PROVE  Goes(e, d, p)
BY DEF Goes

\* An entry for the log.
LEMMA Entered ==
  ASSUME NEW d, NEW p, InOrder(d, p), NEW what \in {"message", "leave", "logout", "end"},
         NEW e, Desk(e), e.log = Append(d.log, Entry(what, d.known)),
         e.known = d.known \/ ~e.known, what = "end" => ~e.known,
         what = "message" => ~Has(d.log, "end") /\ ~Has(p, "end")
  PROVE  /\ InOrder(e, p)
         /\ what # "end" /\ ~Has(d.log, "end") => ~Has(e.log, "end")
<1> DEFINE L == d.log
           M == e.log
           n == Len(L)
<1>1. L \in Seq(LogEntry) /\ n \in Nat /\ DOMAIN L = 1 .. n
  BY DEF InOrder, Desk
<1>2. Entry(what, d.known) \in LogEntry
  BY DEF Entry, LogEntry, InOrder, Desk
<1>3. /\ M \in Seq(LogEntry) /\ DOMAIN M = 1 .. n + 1
      /\ \A i \in 1 .. n : M[i] = L[i]
      /\ M[n + 1] = Entry(what, d.known)
  BY <1>1, <1>2
<1>4. /\ M[n + 1].what = what /\ M[n + 1].known = d.known /\ M[n + 1].archiving = FALSE
  BY <1>3 DEF Entry
<1>5. /\ Has(L, "end") => ~d.known
      /\ \A i, j \in 1 .. n : i < j /\ L[i].what = "end" =>
           ~L[j].known /\ L[j].what # "message"
      /\ \A i \in 1 .. n : L[i].archiving =>
           i = 1 /\ L[i].known /\ L[i].what = "end"
  BY <1>1 DEF InOrder, LogInOrder
<1>6. /\ p \in Seq(Post)
      /\ Has(p, "end") =>
           /\ ~d.known
           /\ \A i \in 1 .. n : /\ L[i].what # "message"
                                /\ L[i].known => L[i].archiving
      /\ (\E i \in 1 .. n : L[i].archiving) => Has(p, "end")
      /\ Has(p, "archive") => Has(p, "end") /\ \A i \in 1 .. n : ~L[i].archiving
      /\ \A i, j \in DOMAIN p : i < j =>
           /\ p[i].what = "archive" => p[j].where = "world-log"
           /\ p[i].what = "end" => p[j].what # "message"
  BY <1>1 DEF InOrder, PostsInOrder
<1>7. Has(L, "end") <=> \E i \in 1 .. n : L[i].what = "end"
  BY <1>1 DEF Has
<1>8. Has(M, "end") <=> \E i \in 1 .. n + 1 : M[i].what = "end"
  BY <1>3 DEF Has
<1> HIDE DEF L, M, n
<1>9. Has(M, "end") <=> Has(L, "end") \/ what = "end"
  BY <1>1, <1>3, <1>4, <1>7, <1>8
<1>10. LogInOrder(e)
  <2>1. Has(M, "end") => ~e.known
    BY <1>5, <1>9
  <2>2. ASSUME NEW i \in 1 .. n + 1, NEW j \in 1 .. n + 1, i < j, M[i].what = "end"
        PROVE  ~M[j].known /\ M[j].what # "message"
    <3>1. i \in 1 .. n /\ L[i].what = "end"
      BY <1>1, <1>3, <2>2
    <3>2. CASE j \in 1 .. n
      BY <1>3, <1>5, <2>2, <3>1, <3>2
    <3>3. CASE j = n + 1
      BY <1>4, <1>5, <1>7, <3>1, <3>3 DEF L
    <3> QED
      BY <1>1, <3>2, <3>3
  <2>3. ASSUME NEW i \in 1 .. n + 1, M[i].archiving
        PROVE  i = 1 /\ M[i].known /\ M[i].what = "end"
    <3>1. i \in 1 .. n
      BY <1>1, <1>4, <2>3
    <3> QED
      BY <1>3, <1>5, <2>3, <3>1
  <2> QED
    BY <1>3, <2>1, <2>2, <2>3 DEF LogInOrder, M
<1>11. PostsInOrder(e, p)
  <2>1. Has(p, "end") => ~e.known
    BY <1>6
  <2>2. ASSUME Has(p, "end"), NEW i \in 1 .. n + 1
        PROVE  M[i].what # "message" /\ (M[i].known => M[i].archiving)
    <3>1. CASE i \in 1 .. n
      BY <1>3, <1>6, <2>2, <3>1
    <3>2. CASE i = n + 1
      BY <1>4, <1>6, <2>2, <3>2
    <3> QED
      BY <1>1, <3>1, <3>2
  <2>3. \A i \in 1 .. n + 1 : M[i].archiving => i \in 1 .. n /\ L[i].archiving
    BY <1>1, <1>3, <1>4
  <2> QED
    BY <1>3, <1>6, <2>1, <2>2, <2>3 DEF PostsInOrder, M
<1> QED
  BY <1>9, <1>10, <1>11 DEF InOrder, L, M

\* What leaves the log alone.
LEMMA Untouched ==
  ASSUME NEW d, NEW p, InOrder(d, p), NEW e, Desk(e), e.log = d.log, e.known = d.known
  PROVE  InOrder(e, p)
BY DEF InOrder, LogInOrder, PostsInOrder

\* A handler takes a step, which may be its last, the end.
LEMMA PerformedGoes ==
  ASSUME NEW d, NEW p, InOrder(d, p), NEW w, WorldOK(w), NEW steps \in Seq(AnyStep)
  PROVE  /\ InOrder(performed(d, w, steps), p)
         /\ Awaited(d) => Awaited(performed(d, w, steps))
         /\ performed(d, w, steps).sends = d.sends
         /\ performed(d, w, steps).forced = d.forced
         /\ steps \in Seq(AgentStep) => Goes(performed(d, w, steps), d, p)
<1> DEFINE e == performed(d, w, steps)
<1>1. Performed(e, d, steps)
  BY PerformedIs DEF InOrder
<1> HIDE DEF e
<1>2. Desk(e) /\ e.sends = d.sends /\ e.forced = d.forced
  BY <1>1 DEF Performed
<1>3. Awaited(d) => Awaited(e)
  BY <1>2 DEF Awaited, Awaits
<1>4. InOrder(e, p)
  <2>1. CASE e.log = d.log /\ e.known = d.known
    BY <1>2, <2>1, Untouched
  <2>2. CASE \E what \in {"leave", "logout"} :
               e.log = Append(d.log, Entry(what, d.known)) /\ e.known = d.known
    <3>1. PICK what \in {"leave", "logout"} :
               e.log = Append(d.log, Entry(what, d.known)) /\ e.known = d.known
      BY <2>2
    <3>2. what # "end" /\ what # "message" /\ what \in {"message", "leave", "logout", "end"}
      OBVIOUS
    <3> QED
      BY <1>2, <3>1, <3>2, Entered
  <2>3. CASE e.log = Append(d.log, Entry("end", d.known)) /\ ~e.known
    <3>1. "end" # "message" /\ "end" \in {"message", "leave", "logout", "end"}
      OBVIOUS
    <3> QED
      BY <1>2, <2>3, <3>1, Entered
  <2> QED
    BY <1>1, <2>1, <2>2, <2>3 DEF Performed
<1>5. ASSUME steps \in Seq(AgentStep), Unended(d, p) PROVE Unended(e, p)
  <2>1. ~Has(e.log, "end")
    <3>1. CASE e.log = d.log
      BY <1>5, <3>1 DEF Unended
    <3>2. CASE \E what \in {"leave", "logout"} :
                 e.log = Append(d.log, Entry(what, d.known)) /\ e.known = d.known
      <4>1. PICK what \in {"leave", "logout"} :
                 e.log = Append(d.log, Entry(what, d.known)) /\ e.known = d.known
        BY <3>2
      <4>2. what # "end" /\ what # "message" /\ what \in {"message", "leave", "logout", "end"}
        OBVIOUS
      <4>3. ~Has(d.log, "end")
        BY <1>5 DEF Unended
      <4> QED
        BY <1>2, <4>1, <4>2, <4>3, Entered
    <3> QED
      BY <1>1, <1>5, <3>1, <3>2 DEF Performed
  <2>2. ASSUME NEW a \in NotifiedAgents, NEW i \in DOMAIN e.queues[a]
        PROVE  e.queues[a][i].rest \in Seq(AgentStep)
    <3>1. \A j \in DOMAIN d.queues[a] : d.queues[a][j].rest \in Seq(AgentStep)
      BY <1>5 DEF Unended
    <3>2. CASE e.queues[a] = d.queues[a]
      BY <2>2, <3>1, <3>2
    <3>3. ASSUME NEW t \in Task, e.queues[a] = Append(d.queues[a], t), t.rest = Tail(steps)
          PROVE  e.queues[a][i].rest \in Seq(AgentStep)
      <4> DEFINE q == d.queues[a]
                 r == e.queues[a]
      <4>1. q \in Seq(Task)
        BY DEF InOrder, Desk
      <4>2. r = Append(q, t) /\ i \in DOMAIN r
        BY <2>2, <3>3
      <4>3. \A j \in DOMAIN q : q[j].rest \in Seq(AgentStep)
        BY <3>1
      <4>4. steps = <<>> \/ t.rest \in Seq(AgentStep)
        BY <1>5, <3>3
      <4>5. CASE steps = <<>>
        <5>1. e = d
          BY <4>5, Zenon DEF performed, e
        <5> QED
          BY <3>1, <5>1
      <4> HIDE DEF q, r
      <4>6. CASE t.rest \in Seq(AgentStep)
        <5>1. DOMAIN q = 1 .. Len(q) /\ Len(q) \in Nat /\ DOMAIN r = 1 .. Len(q) + 1
          BY <4>1, <4>2
        <5>2. CASE i = Len(q) + 1
          <6>1. r[i] = t
            BY <4>1, <4>2, <5>2
          <6> QED
            BY <4>6, <6>1 DEF r
        <5>3. CASE i \in 1 .. Len(q)
          <6>1. r[i] = q[i]
            BY <4>1, <4>2, <5>3
          <6> QED
            BY <4>3, <5>1, <5>3, <6>1 DEF r
        <5> QED
          BY <4>2, <5>1, <5>2, <5>3
      <4> QED
        BY <4>4, <4>5, <4>6
    <3> QED
      BY <1>1, <3>2, <3>3 DEF Performed
  <2> QED
    BY <1>2, <1>5, <2>1, <2>2 DEF Unended
<1> QED
  BY <1>2, <1>3, <1>4, <1>5 DEF Goes, e

\* A desk whose calls, threads, forced partners or annotations changed.
Desked(e, d) ==
  /\ Desk(e) /\ e.queues = d.queues /\ e.log = d.log /\ e.known = d.known

\* Such a change leaves the log and the posts in order.
LEMMA DeskedOrder ==
  ASSUME NEW d, NEW p, InOrder(d, p), NEW e, Desked(e, d)
  PROVE  /\ InOrder(e, p)
         /\ Unended(d, p) /\ (\A s \in e.sends \ d.sends : s.rest \in Seq(AgentStep))
              => Unended(e, p)
<1>1. InOrder(e, p)
  BY Untouched DEF Desked
<1> QED
  BY <1>1 DEF Unended, Desked

\* The calls that are under way change.
LEMMA SendsChange ==
  ASSUME NEW d, Desk(d), NEW S \in SUBSET Call
  PROVE  /\ Desked([d EXCEPT !.sends = S], d)
         /\ [d EXCEPT !.sends = S].sends = S
         /\ [d EXCEPT !.sends = S].forced = d.forced
<1> DEFINE e == [d EXCEPT !.sends = S]
<1>1. e = [d EXCEPT !.sends = S]
  OBVIOUS
<1> HIDE DEF e
<1>2. e = [queues |-> d.queues, log |-> d.log, sends |-> S, thread |-> d.thread,
           known |-> d.known, forced |-> d.forced, annotations |-> d.annotations]
  BY <1>1 DEF Desk
<1>3. Desked(e, d) /\ e.sends = S /\ e.forced = d.forced
  BY <1>2 DEF Desk, Desked
<1> QED
  BY <1>3 DEF e

\* A call is made, by a handler that goes on when it has ended.
LEMMA CallGoes ==
  ASSUME NEW d, NEW p, InOrder(d, p), NEW s \in Call, s.rest \in Seq(AgentStep)
  PROVE  Goes([d EXCEPT !.sends = @ \cup {s}], d, p)
<1> DEFINE S == d.sends \cup {s}
           e == [d EXCEPT !.sends = S]
<1>1. S \in SUBSET Call
  BY DEF InOrder, Desk
<1>2. d.sends \subseteq S /\ S \ d.sends \subseteq {s}
  OBVIOUS
<1> HIDE DEF S
<1>3. Desked(e, d) /\ e.sends = S /\ e.forced = d.forced
  BY <1>1, SendsChange DEF InOrder
<1> HIDE DEF e
<1>4. InOrder(e, p)
  BY <1>3, DeskedOrder
<1>5. Unended(d, p) => Unended(e, p)
  BY <1>2, <1>3, DeskedOrder
<1>6. Awaited(d) => Awaited(e)
  BY <1>2, <1>3 DEF Awaited, Awaits
<1>7. Goes(e, d, p)
  BY <1>4, <1>5, <1>6 DEF Goes
<1> QED
  BY <1>7 DEF e, S

\* A call is over.
LEMMA CallEnds ==
  ASSUME NEW d, NEW p, InOrder(d, p), NEW S, S \subseteq d.sends
  PROVE  /\ InOrder([d EXCEPT !.sends = S], p)
         /\ Unended(d, p) => Unended([d EXCEPT !.sends = S], p)
         /\ [d EXCEPT !.sends = S].sends = S
         /\ [d EXCEPT !.sends = S].forced = d.forced
<1> DEFINE e == [d EXCEPT !.sends = S]
<1>1. S \in SUBSET Call
  BY DEF InOrder, Desk
<1>2. Desked(e, d) /\ e.sends = S /\ e.forced = d.forced
  BY <1>1, SendsChange DEF InOrder
<1> HIDE DEF e
<1>3. InOrder(e, p) /\ (Unended(d, p) => Unended(e, p))
  BY <1>2, DeskedOrder
<1> QED
  BY <1>2, <1>3 DEF e

\* The rest of a handler that is not goodbye's goes on.
LEMMA OtherEnds ==
  ASSUME NEW d, NEW p, InOrder(d, p), NEW s \in d.sends, s.call # "goodbye"
  PROVE  Goes([d EXCEPT !.sends = @ \ {s}], d, p)
<1> DEFINE S == d.sends \ {s}
           e == [d EXCEPT !.sends = S]
<1>1. S \subseteq d.sends /\ \A r \in d.sends : r.call = "goodbye" => r \in S
  OBVIOUS
<1> HIDE DEF S
<1>2. /\ InOrder(e, p) /\ (Unended(d, p) => Unended(e, p))
      /\ e.sends = S /\ e.forced = d.forced
  BY <1>1, CallEnds
<1> HIDE DEF e
<1>3. Awaited(d) => Awaited(e)
  BY <1>1, <1>2 DEF Awaited, Awaits
<1>4. Goes(e, d, p)
  BY <1>2, <1>3 DEF Goes
<1> QED
  BY <1>4 DEF e, S

\* The first task of a queue is over.
LEMMA TaskEnds ==
  ASSUME NEW d, NEW p, InOrder(d, p), NEW a \in NotifiedAgents, d.queues[a] # <<>>
  PROVE  Goes([d EXCEPT !.queues[a] = Tail(@)], d, p)
<1> DEFINE q == d.queues[a]
           Q == [d.queues EXCEPT ![a] = Tail(q)]
           e == [d EXCEPT !.queues = Q]
<1>1. [d EXCEPT !.queues[a] = Tail(@)] = e
  OBVIOUS
<1>2. e = [d EXCEPT !.queues = Q]
  OBVIOUS
<1>3. q \in Seq(Task) /\ q # <<>>
  BY DEF InOrder, Desk
<1>4. Q \in [NotifiedAgents -> Seq(Task)]
  BY <1>3 DEF InOrder, Desk
<1>5. \A b \in NotifiedAgents : Q[b] = d.queues[b] \/ (b = a /\ Q[b] = Tail(q))
  <2>1. d.queues \in [NotifiedAgents -> Seq(Task)]
    BY DEF InOrder, Desk
  <2> QED
    BY <2>1
<1> HIDE DEF Q, e
<1>6. e = [queues |-> Q, log |-> d.log, sends |-> d.sends, thread |-> d.thread,
           known |-> d.known, forced |-> d.forced, annotations |-> d.annotations]
  BY <1>2 DEF InOrder, Desk
<1>7. /\ Desk(e) /\ e.queues = Q /\ e.log = d.log /\ e.known = d.known
      /\ e.sends = d.sends /\ e.forced = d.forced
  BY <1>4, <1>6 DEF InOrder, Desk
<1>8. InOrder(e, p)
  BY <1>7, Untouched
<1>9. Awaited(d) => Awaited(e)
  BY <1>7 DEF Awaited, Awaits
<1>10. ASSUME Unended(d, p) PROVE Unended(e, p)
  <2>1. ASSUME NEW b \in NotifiedAgents, NEW i \in DOMAIN Q[b]
        PROVE  Q[b][i].rest \in Seq(AgentStep)
    <3>1. \A j \in DOMAIN d.queues[b] : d.queues[b][j].rest \in Seq(AgentStep)
      BY <1>10 DEF Unended
    <3>2. CASE Q[b] = d.queues[b]
      BY <2>1, <3>1, <3>2
    <3>3. CASE b = a /\ Q[b] = Tail(q)
      <4>1. i \in 1 .. Len(q) - 1 /\ Len(q) \in Nat
        BY <1>3, <2>1, <3>3
      <4>2. Tail(q)[i] = q[i + 1] /\ i + 1 \in DOMAIN q
        BY <1>3, <4>1
      <4> QED
        BY <3>1, <3>3, <4>2
    <3> QED
      BY <1>5, <3>2, <3>3
  <2> QED
    BY <1>7, <1>10, <2>1 DEF Unended
<1>11. Goes(e, d, p)
  BY <1>8, <1>9, <1>10 DEF Goes
<1> QED
  BY <1>1, <1>11

(***************************************************************************)
(* The world changes.                                                      *)
(***************************************************************************)
\* A world in which only the people changed, or the conversation.
LEMMA PeopleChange ==
  ASSUME NEW w, WorldOK(w), NEW P \in [NotifiedAgents -> People],
         \A a \in NotifiedAgents : P[a].in \/ P[a].rejected = None
  PROVE  /\ WorldOK([w EXCEPT !.people = P])
         /\ [w EXCEPT !.people = P].people = P
         /\ [w EXCEPT !.people = P].phase = w.phase
         /\ [w EXCEPT !.people = P].members = w.members
<1> DEFINE v == [w EXCEPT !.people = P]
<1>1. v = [w EXCEPT !.people = P]
  OBVIOUS
<1> HIDE DEF v
<1>2. v = [people |-> P, phase |-> w.phase, members |-> w.members]
  BY <1>1 DEF WorldOK
<1>3. WorldOK(v) /\ v.people = P /\ v.phase = w.phase /\ v.members = w.members
  BY <1>2 DEF WorldOK
<1> QED
  BY <1>3 DEF v

\* A world in which only one agent changed.
LEMMA PersonChanges ==
  ASSUME NEW w, WorldOK(w), NEW a \in NotifiedAgents, NEW r \in People,
         r.in \/ r.rejected = None
  PROVE  /\ WorldOK([w EXCEPT !.people[a] = r])
         /\ [w EXCEPT !.people[a] = r].people = [w.people EXCEPT ![a] = r]
         /\ [w EXCEPT !.people[a] = r].phase = w.phase
         /\ [w EXCEPT !.people[a] = r].members = w.members
<1> DEFINE P == [w.people EXCEPT ![a] = r]
<1>1. w.people \in [NotifiedAgents -> People]
  BY DEF WorldOK
<1>2. P \in [NotifiedAgents -> People]
  BY <1>1
<1>3. \A b \in NotifiedAgents : P[b].in \/ P[b].rejected = None
  <2> TAKE b \in NotifiedAgents
  <2>1. P[b] = r \/ P[b] = w.people[b]
    BY <1>1
  <2> HIDE DEF P
  <2> QED
    BY <2>1 DEF WorldOK
<1>4. [w EXCEPT !.people[a] = r] = [w EXCEPT !.people = P]
  OBVIOUS
<1> HIDE DEF P
<1>5. /\ WorldOK([w EXCEPT !.people = P]) /\ [w EXCEPT !.people = P].people = P
      /\ [w EXCEPT !.people = P].phase = w.phase
      /\ [w EXCEPT !.people = P].members = w.members
  BY <1>2, <1>3, PeopleChange
<1> QED
  BY <1>4, <1>5 DEF P

\* A world in which only the members changed.
LEMMA TalkChanges ==
  ASSUME NEW w, WorldOK(w), NEW m \in Seq(NotifiedAgents)
  PROVE  /\ WorldOK([w EXCEPT !.members = m])
         /\ [w EXCEPT !.members = m].phase = w.phase
<1> DEFINE v == [w EXCEPT !.members = m]
<1>1. v = [w EXCEPT !.members = m]
  OBVIOUS
<1> HIDE DEF v
<1>2. v = [people |-> w.people, phase |-> w.phase, members |-> m]
  BY <1>1 DEF WorldOK
<1>3. WorldOK(v) /\ v.phase = w.phase
  BY <1>2 DEF WorldOK
<1> QED
  BY <1>3 DEF v

\* A world in which the conversation starts or ends.
LEMMA PhaseChanges ==
  ASSUME NEW w, WorldOK(w), NEW m \in Seq(NotifiedAgents), NEW f \in {"open", "closed"}
  PROVE  /\ WorldOK([w EXCEPT !.phase = f, !.members = m])
         /\ [w EXCEPT !.phase = f, !.members = m].phase = f
         /\ WorldOK([w EXCEPT !.members = m, !.phase = f])
         /\ [w EXCEPT !.members = m, !.phase = f].phase = f
<1> DEFINE v == [w EXCEPT !.phase = f, !.members = m]
           u == [w EXCEPT !.members = m, !.phase = f]
<1>1. v = [w EXCEPT !.phase = f, !.members = m] /\ u = [w EXCEPT !.members = m, !.phase = f]
  OBVIOUS
<1> HIDE DEF v, u
<1>2. v = [people |-> w.people, phase |-> f, members |-> m]
  BY <1>1 DEF WorldOK
<1>3. u = [people |-> w.people, phase |-> f, members |-> m]
  BY <1>1 DEF WorldOK
<1>4. WorldOK(v) /\ v.phase = f
  BY <1>2 DEF WorldOK
<1>5. WorldOK(u) /\ u.phase = f
  BY <1>3 DEF WorldOK
<1> QED
  BY <1>4, <1>5 DEF v, u

(***************************************************************************)
(* The invariant is kept.                                                  *)
(***************************************************************************)
\* Any change of the desk that keeps the log and the posts in order.
LEMMA ChangeKeeps ==
  ASSUME NotifierIInv, WorldOK(world'), InOrder(desk', posts'), Awaits(desk', unsaved'),
         world'.phase # "closed" => Unended(desk', posts')
  PROVE  NotifierIInv'
BY DEF NotifierIInv, InOrder, Awaits, ForcedEndsAreConsumed

\* What the events have in common.
LEMMA HandledKeeps ==
  ASSUME NotifierIInv, NEW w, WorldOK(w), NEW d, InOrder(d, posts), Awaited(d),
         w.phase # "closed" => Unended(d, posts), Handled(w, d)
  PROVE  NotifierIInv'
BY DEF NotifierIInv, InOrder, Awaited, Awaits, ForcedEndsAreConsumed, Handled

\* An event after which the handlers go on.
LEMMA GoingKeeps ==
  ASSUME NotifierIInv, NEW w, WorldOK(w), w.phase # "closed" => world.phase # "closed",
         NEW d, Goes(d, desk, posts), Handled(w, d)
  PROVE  NotifierIInv'
<1>1. InOrder(d, posts) /\ Awaited(d) /\ (w.phase # "closed" => Unended(d, posts))
  BY DEF NotifierIInv, Goes, Awaited, Awaits, ForcedEndsAreConsumed
<1> QED
  BY <1>1, HandledKeeps

\* An event of single agents.
LEMMA NoticeKeeps ==
  ASSUME NotifierIInv, NEW w, WorldOK(w), w.phase = world.phase,
         NEW steps \in Seq(AgentStep), Noticed(w, steps)
  PROVE  NotifierIInv'
<1>1. InOrder(desk, posts)
  BY DEF NotifierIInv, InOrder
<1>2. steps \in Seq(AnyStep)
  BY AnySteps
<1>3. Goes(performed(desk, w, steps), desk, posts)
  BY <1>1, <1>2, PerformedGoes
<1>4. Handled(w, performed(desk, w, steps))
  BY DEF Noticed
<1> QED
  BY <1>3, <1>4, GoingKeeps

\* Notifications are steps of an agent, also those whose failure is caught.
LEMMA NotifyIs ==
  ASSUME NEW a \in NotifiedAgents, NEW style \in {"built", "clearing", "followUp", "reminder"},
         NEW prompt \in BOOLEAN
  PROVE  Notify(a, style, prompt) \in AgentStep /\ Caught(Notify(a, style, prompt)) \in AgentStep
<1> DEFINE n == Notify(a, style, prompt)
<1>1. n \in AgentStep
  BY DEF Notify, AgentStep
<1>2. Caught(n) \in AgentStep
  BY <1>1 DEF Caught, AgentStep
<1> QED
  BY <1>1, <1>2

\* Handlers of one step, and of two.
LEMMA FewSteps ==
  ASSUME NEW s \in AgentStep, NEW t \in AgentStep
  PROVE  /\ <<s>> \in Seq(AgentStep) /\ <<s>> \in Seq(AnyStep)
         /\ <<s, t>> \in Seq(AgentStep)
BY DEF AnyStep

\* An agent of whom one thing changes, or who logs out.
LEMMA PersonIs ==
  ASSUME NEW o, o = [in |-> o.in, window |-> o.window, rejected |-> o.rejected], NEW x
  PROVE  /\ [o EXCEPT !.in = TRUE] = [in |-> TRUE, window |-> o.window, rejected |-> o.rejected]
         /\ [o EXCEPT !.window = FALSE] = [in |-> o.in, window |-> FALSE, rejected |-> o.rejected]
         /\ [o EXCEPT !.rejected = x] = [in |-> o.in, window |-> o.window, rejected |-> x]
         /\ [o EXCEPT !.in = FALSE, !.window = FALSE, !.rejected = x]
              = [in |-> FALSE, window |-> FALSE, rejected |-> x]
<1> DEFINE i == [o EXCEPT !.in = TRUE]
           w == [o EXCEPT !.window = FALSE]
           r == [o EXCEPT !.rejected = x]
           g == [o EXCEPT !.in = FALSE, !.window = FALSE, !.rejected = x]
<1>1. /\ i = [o EXCEPT !.in = TRUE]
      /\ w = [o EXCEPT !.window = FALSE]
      /\ r = [o EXCEPT !.rejected = x]
      /\ g = [o EXCEPT !.in = FALSE, !.window = FALSE, !.rejected = x]
  OBVIOUS
<1> HIDE DEF i, w, r, g
<1>2. i = [in |-> TRUE, window |-> o.window, rejected |-> o.rejected]
  BY <1>1
<1>3. w = [in |-> o.in, window |-> FALSE, rejected |-> o.rejected]
  BY <1>1
<1>4. r = [in |-> o.in, window |-> o.window, rejected |-> x]
  BY <1>1
<1>5. g = [in |-> FALSE, window |-> FALSE, rejected |-> x]
  BY <1>1
<1> QED
  BY <1>2, <1>3, <1>4, <1>5 DEF i, w, r, g

\* Two agents who are logged in.
LEMMA PairIs ==
  ASSUME NEW p \in Pairs
  PROVE  p \in Seq(NotifiedAgents) /\ p[1] \in NotifiedAgents /\ p[2] \in NotifiedAgents
<1>1. p \in Present \X Present
  BY DEF Pairs
<1>2. p = <<p[1], p[2]>> /\ p[1] \in Present /\ p[2] \in Present
  BY <1>1
<1>3. p[1] \in NotifiedAgents /\ p[2] \in NotifiedAgents
  BY <1>2 DEF Present
<1> DEFINE a == p[1]
           b == p[2]
<1>4. a \in NotifiedAgents /\ b \in NotifiedAgents /\ p = <<a, b>>
  BY <1>2, <1>3
<1> HIDE DEF a, b
<1>5. <<a, b>> \in Seq(NotifiedAgents)
  BY <1>4
<1> QED
  BY <1>3, <1>4, <1>5

\* handleAgentLoggedIn.
LEMMA LogsInKeeps == NotifierIInv /\ AgentLogsIn => NotifierIInv'
<1> SUFFICES ASSUME NotifierIInv, AgentLogsIn PROVE NotifierIInv'
  OBVIOUS
<1> DEFINE r == [in |-> TRUE, window |-> FALSE, rejected |-> None]
<1>1. PICK a \in NotifiedAgents :
           Noticed([world EXCEPT !.people[a] = r], handleAgentLoggedIn(a))
  BY DEF AgentLogsIn
<1>2. r \in People /\ r.in
  BY DEF People, Rejected
<1> HIDE DEF r
<1> DEFINE w == [world EXCEPT !.people[a] = r]
<1>3. WorldOK(w) /\ w.phase = world.phase
  BY <1>2, PersonChanges DEF NotifierIInv
<1>4. handleAgentLoggedIn(a) \in Seq(AgentStep)
  <2>1. Notify(a, "built", TRUE) \in AgentStep
    BY NotifyIs
  <2> QED
    BY <2>1, FewSteps DEF handleAgentLoggedIn
<1> HIDE DEF w
<1>5. Noticed(w, handleAgentLoggedIn(a))
  BY <1>1 DEF w
<1> QED
  BY <1>3, <1>4, <1>5, NoticeKeeps

\* The handlers that notify one agent.
LEMMA ToldKeeps == NotifierIInv /\ AgentIsTold => NotifierIInv'
<1> SUFFICES ASSUME NotifierIInv, AgentIsTold PROVE NotifierIInv'
  OBVIOUS
<1>1. PICK a \in NotifiedAgents :
        \E steps \in
          { handleMovementCompleted(a), handleActionCompleted(a), handleWaitCompleted(a),
            handleItemUseCompleted(a), handleItemUseVenueRejected(a), handleIdleReminder(a),
            handleConversationRequested(a), handleConversationRejected(a),
            handleConversationPendingJoinCancelled(a), handleTransferEscrowLost(a),
            handleMapInfoRequested(a), handleWorldAgentsInfoRequested(a),
            handleStatusInfoRequested(a), handleNearbyAgentsInfoRequested(a),
            handleActiveConversationsInfoRequested(a), handleServerEventsInfoRequested(a),
            handlePerceptionRequested(a), handleAvailableActionsRequested(a) } :
          Noticed(world, steps)
  BY Zenon DEF AgentIsTold, Present
<1>2. PICK steps :
        /\ Noticed(world, steps)
        /\ \/ steps = <<Notify(a, "clearing", TRUE)>>
           \/ steps = <<Notify(a, "reminder", TRUE)>>
           \/ steps = <<Notify(a, "built", TRUE)>>
           \/ steps = <<Notify(a, "followUp", TRUE)>>
           \/ steps = <<Notify(a, "followUp", FALSE)>>
           \/ steps = <<Caught(Notify(a, "followUp", FALSE))>>
  BY <1>1, ZenonT(60) DEF handleMovementCompleted, handleActionCompleted, handleWaitCompleted,
     handleItemUseCompleted, handleItemUseVenueRejected, handleIdleReminder,
     handleConversationRequested, handleConversationRejected,
     handleConversationPendingJoinCancelled, handleTransferEscrowLost,
     handleMapInfoRequested, handleWorldAgentsInfoRequested, handleStatusInfoRequested,
     handleNearbyAgentsInfoRequested, handleActiveConversationsInfoRequested,
     handleServerEventsInfoRequested, handlePerceptionRequested,
     handleAvailableActionsRequested, sendConversationFollowUp
<1>3. \E s \in AgentStep : steps = <<s>>
  BY <1>2, NotifyIs
<1>4. steps \in Seq(AgentStep)
  BY <1>3, FewSteps
<1>5. WorldOK(world)
  BY DEF NotifierIInv
<1> QED
  BY <1>2, <1>4, <1>5, NoticeKeeps

\* handleActionRejected.
LEMMA RejectedKeeps == NotifierIInv /\ ActionIsRejected => NotifierIInv'
<1> SUFFICES ASSUME NotifierIInv, ActionIsRejected PROVE NotifierIInv'
  OBVIOUS
<1>1. PICK a \in Present, x \in RejectedActions :
        Noticed([[world EXCEPT !.people[a].rejected = x] EXCEPT !.people[a].window = FALSE],
                handleActionRejected(a))
  BY DEF ActionIsRejected
<1> DEFINE o == world.people[a]
           r == [in |-> TRUE, window |-> FALSE, rejected |-> x]
           v == [world EXCEPT !.people[a].rejected = x]
           w == [v EXCEPT !.people[a].window = FALSE]
           w2 == [world EXCEPT !.people[a] = r]
<1>2. a \in NotifiedAgents /\ o.in
  BY DEF Present
<1>3. WorldOK(world) /\ world.people \in [NotifiedAgents -> People] /\ o \in People
  BY <1>2 DEF NotifierIInv, WorldOK
<1>4. r \in People /\ r.in
  BY DEF People, Rejected
<1>5. w = w2
  <2>1. v = [world EXCEPT !.people = [world.people EXCEPT ![a] = [o EXCEPT !.rejected = x]]]
    OBVIOUS
  <2> DEFINE P == [world.people EXCEPT ![a] = [o EXCEPT !.rejected = x]]
             Q == [P EXCEPT ![a] = [P[a] EXCEPT !.window = FALSE]]
  <2>2. Q = [world.people EXCEPT ![a] = r]
    <3>1. [o EXCEPT !.rejected = x] = [in |-> TRUE, window |-> o.window, rejected |-> x]
      <4>1. o.in = TRUE
        BY <1>2, <1>3 DEF People
      <4>2. o = [in |-> o.in, window |-> o.window, rejected |-> o.rejected]
        BY <1>3 DEF People
      <4> HIDE DEF o
      <4> QED
        BY <4>1, <4>2, PersonIs
    <3> DEFINE n == [in |-> TRUE, window |-> o.window, rejected |-> x]
    <3>2. P = [world.people EXCEPT ![a] = n]
      BY <3>1
    <3>3. P[a] = n
      BY <1>2, <1>3, <3>2
    <3>4. [n EXCEPT !.window = FALSE] = r
      <4>1. n.in = TRUE /\ n.rejected = x
            /\ n = [in |-> n.in, window |-> n.window, rejected |-> n.rejected]
        OBVIOUS
      <4> HIDE DEF n
      <4> QED
        BY <4>1, PersonIs
    <3> HIDE DEF P, n, r
    <3>5. Q = [P EXCEPT ![a] = r]
      BY <3>3, <3>4
    <3> QED
      BY <1>3, <3>2, <3>5
  <2>3. v.people = P /\ v.phase = world.phase /\ v.members = world.members
    BY <1>3, <2>1 DEF WorldOK
  <2>4. w = [v EXCEPT !.people = Q]
    BY <2>3
  <2> HIDE DEF P, Q, r
  <2>5. w2 = [world EXCEPT !.people = Q]
    BY <2>2
  <2>6. v = [people |-> P, phase |-> world.phase, members |-> world.members]
    BY <1>3, <2>1 DEF WorldOK, P
  <2> HIDE DEF v, w
  <2>7. w = [people |-> Q, phase |-> world.phase, members |-> world.members]
    BY <2>4, <2>6
  <2>8. w2 = [people |-> Q, phase |-> world.phase, members |-> world.members]
    BY <1>3, <2>5 DEF WorldOK
  <2> QED
    BY <2>7, <2>8
<1> HIDE DEF r
<1>6. WorldOK(w2) /\ w2.phase = world.phase
  BY <1>2, <1>3, <1>4, PersonChanges
<1>7. handleActionRejected(a) \in Seq(AgentStep)
  <2>1. Notify(a, "clearing", TRUE) \in AgentStep
    BY <1>2, NotifyIs
  <2> QED
    BY <2>1, FewSteps DEF handleActionRejected
<1>8. Noticed(w, handleActionRejected(a))
  BY <1>1
<1> HIDE DEF v, w, w2
<1>9. Noticed(w2, handleActionRejected(a))
  BY <1>5, <1>8
<1> QED
  BY <1>6, <1>7, <1>9, NoticeKeeps

\* handleServerAnnouncementFired.
LEMMA FiresKeeps == NotifierIInv /\ AnnouncementFires => NotifierIInv'
<1> SUFFICES ASSUME NotifierIInv, AnnouncementFires PROVE NotifierIInv'
  OBVIOUS
<1> DEFINE P(p) == [a \in NotifiedAgents |->
                      [world.people[a] EXCEPT !.window = world.people[a].window \/ a \in ToSet(p)]]
<1>1. PICK p \in Pairs \cup {<<a>> : a \in Present} :
        Noticed([world EXCEPT !.people = P(p)], handleServerAnnouncementFired(p))
  BY Zenon DEF AnnouncementFires
<1>2. p \in Seq(NotifiedAgents)
  <2>1. \A a \in Present : <<a>> \in Seq(NotifiedAgents)
    BY DEF Present
  <2> QED
    BY <2>1, PairIs
<1>3. WorldOK(world)
  BY DEF NotifierIInv
<1>4. P(p) \in [NotifiedAgents -> People]
      /\ \A a \in NotifiedAgents : P(p)[a].in \/ P(p)[a].rejected = None
  <2>1. ASSUME NEW a \in NotifiedAgents
        PROVE  /\ [world.people[a] EXCEPT !.window = world.people[a].window \/ a \in ToSet(p)]
                    \in People
               /\ [world.people[a] EXCEPT !.window = world.people[a].window \/ a \in ToSet(p)].in
                    = world.people[a].in
               /\ [world.people[a] EXCEPT !.window = world.people[a].window \/ a \in ToSet(p)].rejected
                    = world.people[a].rejected
    <3>1. world.people[a] \in People
      BY <1>3 DEF WorldOK
    <3> DEFINE b == world.people[a].window \/ a \in ToSet(p)
    <3>2. b \in BOOLEAN
      OBVIOUS
    <3> HIDE DEF b
    <3>3. [world.people[a] EXCEPT !.window = b] \in People
          /\ [world.people[a] EXCEPT !.window = b].in = world.people[a].in
          /\ [world.people[a] EXCEPT !.window = b].rejected = world.people[a].rejected
      BY <3>1, <3>2 DEF People
    <3> QED
      BY <3>3 DEF b
  <2> QED
    BY <1>3, <2>1 DEF WorldOK
<1> DEFINE R == P(p)
           w == [world EXCEPT !.people = R]
<1> HIDE DEF P
<1>5. R \in [NotifiedAgents -> People]
      /\ \A a \in NotifiedAgents : R[a].in \/ R[a].rejected = None
  BY <1>4
<1> HIDE DEF R
<1>6. WorldOK(w) /\ w.phase = world.phase
  BY <1>3, <1>5, PeopleChange
<1>7. handleServerAnnouncementFired(p) \in Seq(AgentStep)
  BY <1>2, NotifyAll DEF handleServerAnnouncementFired, ForEach
<1> HIDE DEF w
<1>8. Noticed(w, handleServerAnnouncementFired(p))
  BY <1>1 DEF w, R
<1> QED
  BY <1>6, <1>7, <1>8, NoticeKeeps

\* The handlers of a transfer.
LEMMA TransferKeeps == NotifierIInv /\ TransferIsTold => NotifierIInv'
<1> SUFFICES ASSUME NotifierIInv, TransferIsTold PROVE NotifierIInv'
  OBVIOUS
<1>1. PICK p \in Pairs :
        \/ Noticed(world, <<Caught(Notify(p[1], "followUp", FALSE)),
                            Caught(Notify(p[2], "followUp", FALSE))>>)
        \/ Noticed(world, <<Caught(Notify(p[1], "clearing", TRUE)),
                            Caught(Notify(p[2], "clearing", TRUE))>>)
  BY DEF TransferIsTold, handleTransferRequested, handleTransferAccepted,
     handleTransferRejected, handleTransferTimeout, handleTransferCancelled,
     SettlementPrompts, sendStandaloneTransferSettlementPrompt, sendConversationFollowUp
<1>2. p[1] \in NotifiedAgents /\ p[2] \in NotifiedAgents
  BY PairIs
<1>3. /\ <<Caught(Notify(p[1], "followUp", FALSE)), Caught(Notify(p[2], "followUp", FALSE))>>
           \in Seq(AgentStep)
      /\ <<Caught(Notify(p[1], "clearing", TRUE)), Caught(Notify(p[2], "clearing", TRUE))>>
           \in Seq(AgentStep)
  <2>1. /\ Caught(Notify(p[1], "followUp", FALSE)) \in AgentStep
        /\ Caught(Notify(p[2], "followUp", FALSE)) \in AgentStep
        /\ Caught(Notify(p[1], "clearing", TRUE)) \in AgentStep
        /\ Caught(Notify(p[2], "clearing", TRUE)) \in AgentStep
    BY <1>2, NotifyIs
  <2> QED
    BY <2>1, FewSteps
<1>4. WorldOK(world)
  BY DEF NotifierIInv
<1> QED
  BY <1>1, <1>3, <1>4, NoticeKeeps

(***************************************************************************)
(* The events of the conversation.                                         *)
(***************************************************************************)
\* What the invariant says of the desk and the world before an event.
LEMMA Before ==
  ASSUME NotifierIInv
  PROVE  /\ WorldOK(world) /\ InOrder(desk, posts) /\ Awaited(desk)
         /\ world.phase # "closed" => Unended(desk, posts)
BY DEF NotifierIInv, InOrder, Awaited, Awaits, ForcedEndsAreConsumed

\* A handler of the conversation takes a step of its own.
LEMMA StepsGo ==
  ASSUME NEW d, NEW p, InOrder(d, p), NEW w, WorldOK(w), NEW steps \in Seq(AgentStep)
  PROVE  Goes(performed(d, w, steps), d, p)
<1>1. steps \in Seq(AnyStep)
  BY AnySteps
<1>2. /\ InOrder(performed(d, w, steps), p)
      /\ Awaited(d) => Awaited(performed(d, w, steps))
      /\ steps \in Seq(AgentStep) => Goes(performed(d, w, steps), d, p)
  BY <1>1, PerformedGoes
<1> QED
  BY <1>2

\* handleConversationAccepted.
LEMMA AcceptedKeeps == NotifierIInv /\ ConversationIsAccepted => NotifierIInv'
<1> SUFFICES ASSUME NotifierIInv, ConversationIsAccepted PROVE NotifierIInv'
  OBVIOUS
<1>1. PICK p \in Pairs :
        LET w == [world EXCEPT !.phase = "open", !.members = p]
        IN  Handled(w, handleConversationAccepted(desk, w, p[1]))
  BY DEF ConversationIsAccepted, Talks
<1> DEFINE w == [world EXCEPT !.phase = "open", !.members = p]
           c == [call |-> "thread", rest |-> <<>>, of |-> p[1]]
           S == desk.sends \cup {c}
           e == [desk EXCEPT !.sends = S, !.thread = "creating", !.known = TRUE]
           steps == <<sendConversationFollowUp(p[1])>>
<1>2. p \in Seq(NotifiedAgents) /\ p[1] \in NotifiedAgents
  BY PairIs
<1>3. WorldOK(w) /\ w.phase = "open"
  BY <1>2, Before, PhaseChanges
<1>4. world.phase = "none" /\ Unended(desk, posts) /\ InOrder(desk, posts)
  BY Before DEF ConversationIsAccepted
<1>5. c \in Call /\ c.rest \in Seq(AgentStep)
  <2>1. <<>> \in Seq(AnyStep) /\ <<>> \in Seq(AgentStep)
    OBVIOUS
  <2> QED
    BY <1>2, <2>1 DEF Call
<1>6. /\ Desk(e) /\ e.queues = desk.queues /\ e.log = desk.log /\ e.sends = S
      /\ e.forced = desk.forced
  <2>1. S \in SUBSET Call
    BY <1>4, <1>5 DEF InOrder, Desk
  <2>2. e = [desk EXCEPT !.sends = S, !.thread = "creating", !.known = TRUE]
    OBVIOUS
  <2> HIDE DEF e, S
  <2>3. e = [queues |-> desk.queues, log |-> desk.log, sends |-> S, thread |-> "creating",
             known |-> TRUE, forced |-> desk.forced, annotations |-> desk.annotations]
    BY <1>4, <2>2 DEF InOrder, Desk
  <2> QED
    BY <1>4, <2>1, <2>3 DEF InOrder, Desk
<1>7. handleConversationAccepted(desk, w, p[1]) = performed(e, w, steps)
  BY Zenon DEF handleConversationAccepted
<1>8. steps \in Seq(AgentStep)
  <2>1. Notify(p[1], "followUp", FALSE) \in AgentStep
    BY <1>2, NotifyIs
  <2> QED
    BY <2>1, FewSteps DEF sendConversationFollowUp
<1>9. \A s \in S : s = c \/ s \in desk.sends
  OBVIOUS
<1>10. desk.sends \subseteq S
  OBVIOUS
<1> HIDE DEF w, c, S, e, steps
<1>11. InOrder(e, posts)
  BY <1>4, <1>6 DEF InOrder, LogInOrder, PostsInOrder, Unended
<1>12. Unended(e, posts)
  BY <1>4, <1>5, <1>6, <1>9 DEF Unended
<1>13. Awaited(e)
  BY <1>6, <1>10, Before DEF Awaited, Awaits
<1>14. Goes(performed(e, w, steps), e, posts)
  BY <1>3, <1>8, <1>11, StepsGo
<1>15. Handled(w, performed(e, w, steps))
  BY <1>1, <1>7 DEF w
<1>16. /\ InOrder(performed(e, w, steps), posts) /\ Awaited(performed(e, w, steps))
       /\ Unended(performed(e, w, steps), posts)
  BY <1>12, <1>13, <1>14 DEF Goes
<1> QED
  BY <1>3, <1>15, <1>16, HandledKeeps

\* A message is queued for the thread.
LEMMA SpeaksKeeps == NotifierIInv /\ ParticipantSpeaks => NotifierIInv'
<1> SUFFICES ASSUME NotifierIInv, ParticipantSpeaks PROVE NotifierIInv'
  OBVIOUS
<1> DEFINE e == enqueueConversationLog(desk, "message")
           L == Append(desk.log, Entry("message", desk.known))
<1>1. Handled(world, e) /\ Unended(desk, posts) /\ InOrder(desk, posts)
  BY Before DEF ParticipantSpeaks, Talks, Open
<1>2. e = [desk EXCEPT !.log = L]
  BY Zenon DEF enqueueConversationLog, Entry
<1>3. L \in Seq(LogEntry)
  <2>1. Entry("message", desk.known) \in LogEntry
    BY <1>1 DEF Entry, LogEntry, InOrder, Desk
  <2> QED
    BY <1>1, <2>1 DEF InOrder, Desk
<1> HIDE DEF e, L
<1>4. e = [queues |-> desk.queues, log |-> L, sends |-> desk.sends, thread |-> desk.thread,
           known |-> desk.known, forced |-> desk.forced, annotations |-> desk.annotations]
  BY <1>1, <1>2 DEF InOrder, Desk
<1>5. /\ Desk(e) /\ e.queues = desk.queues /\ e.log = L /\ e.sends = desk.sends
      /\ e.known = desk.known /\ e.forced = desk.forced
  BY <1>1, <1>3, <1>4 DEF InOrder, Desk
<1>6. "message" \in {"message", "leave", "logout", "end"} /\ "message" # "end"
  OBVIOUS
<1>7. InOrder(e, posts) /\ ~Has(e.log, "end")
  BY <1>1, <1>5, <1>6, Entered DEF L, Unended
<1>8. Unended(e, posts)
  BY <1>1, <1>5, <1>7 DEF Unended
<1>9. Awaited(e)
  BY <1>5, Before DEF Awaited, Awaits
<1> QED
  BY <1>1, <1>7, <1>8, <1>9, Before, HandledKeeps

\* The handler of a turn yields.
LEMMA TurnGoes ==
  ASSUME NEW d, NEW p, InOrder(d, p), NEW a \in NotifiedAgents
  PROVE  Goes(handleConversationTurnStarted(d, a), d, p)
<1> DEFINE s == [call |-> "yield", rest |-> <<Step("turn", a)>>, of |-> a]
<1>1. <<Step("turn", a)>> \in Seq(AgentStep) /\ <<Step("turn", a)>> \in Seq(AnyStep)
  <2>1. Step("turn", a) \in AgentStep
    BY StepIs
  <2> QED
    BY <2>1, FewSteps
<1>2. s \in Call /\ s.rest \in Seq(AgentStep)
  BY <1>1 DEF Call
<1>3. handleConversationTurnStarted(d, a) = [d EXCEPT !.sends = @ \cup {s}]
  BY Zenon DEF handleConversationTurnStarted
<1> HIDE DEF s
<1> QED
  BY <1>2, <1>3, CallGoes

\* Those who listen are told of what was said.
LEMMA IntervalGoes ==
  ASSUME NEW d, NEW p, InOrder(d, p), NEW w, WorldOK(w), NEW a, NEW told \in BOOLEAN
  PROVE  Goes(handleConversationInterval(d, w, a, told), d, p)
<1> DEFINE s == Others(w.members, a)
           steps == [i \in DOMAIN s |-> IF told THEN Notify(s[i], "followUp", FALSE)
                                        ELSE Step("message", s[i])]
<1>1. s \in Seq(NotifiedAgents)
  BY OthersType DEF WorldOK
<1>2. handleConversationInterval(d, w, a, told) = performed(d, w, steps)
  BY Zenon DEF handleConversationInterval, ForEach, sendConversationFollowUp
<1> HIDE DEF s
<1>3. steps \in Seq(AgentStep)
  <2>1. CASE told
    <3>1. steps = [i \in DOMAIN s |-> Notify(s[i], "followUp", FALSE)]
      BY <2>1
    <3> QED
      BY <1>1, <3>1, NotifyAll
  <2>2. CASE ~told
    <3>1. steps = [i \in DOMAIN s |-> Step("message", s[i])]
      BY <2>2
    <3> QED
      BY <1>1, <3>1, MessageAll
  <2> QED
    BY <2>1, <2>2
<1> HIDE DEF steps
<1> QED
  BY <1>2, <1>3, StepsGo

\* handleConversationInterval.
LEMMA IntervalKeeps == NotifierIInv /\ IntervalIsOver => NotifierIInv'
<1> SUFFICES ASSUME NotifierIInv, IntervalIsOver PROVE NotifierIInv'
  OBVIOUS
<1>1. PICK speaker \in Members :
        \/ Handled(world, handleConversationInterval(desk, world, speaker, FALSE))
        \/ \E next \in Members :
             Handled(world, handleConversationInterval(
               handleConversationTurnStarted(desk, next), world, speaker, TRUE))
  BY DEF IntervalIsOver, Talks
<1>2. WorldOK(world) /\ InOrder(desk, posts)
  BY Before
<1>3. CASE Handled(world, handleConversationInterval(desk, world, speaker, FALSE))
  <2>1. Goes(handleConversationInterval(desk, world, speaker, FALSE), desk, posts)
    BY <1>2, IntervalGoes
  <2> QED
    BY <1>2, <1>3, <2>1, GoingKeeps
<1>4. ASSUME NEW next \in Members,
             Handled(world, handleConversationInterval(
               handleConversationTurnStarted(desk, next), world, speaker, TRUE))
      PROVE  NotifierIInv'
  <2> DEFINE x == handleConversationTurnStarted(desk, next)
             e == handleConversationInterval(x, world, speaker, TRUE)
  <2>1. next \in NotifiedAgents
    BY <1>2 DEF Members, WorldOK, ToSet
  <2>2. Goes(x, desk, posts)
    BY <1>2, <2>1, TurnGoes
  <2> HIDE DEF x
  <2>3. InOrder(x, posts)
    BY <2>2 DEF Goes
  <2>4. Goes(e, x, posts)
    BY <1>2, <2>3, IntervalGoes
  <2>5. Handled(world, e)
    BY <1>4 DEF x
  <2> HIDE DEF e
  <2>6. Goes(e, desk, posts)
    BY <2>2, <2>4, GoesTwice
  <2> QED
    BY <1>2, <2>5, <2>6, GoingKeeps
<1> QED
  BY <1>1, <1>3, <1>4

\* handleConversationTurnStarted.
LEMMA TurnKeeps == NotifierIInv /\ TurnStarts => NotifierIInv'
<1> SUFFICES ASSUME NotifierIInv, TurnStarts PROVE NotifierIInv'
  OBVIOUS
<1>1. PICK a \in Members : Handled(world, handleConversationTurnStarted(desk, a))
  BY DEF TurnStarts, Talks
<1>2. WorldOK(world) /\ InOrder(desk, posts)
  BY Before
<1>3. a \in NotifiedAgents
  BY <1>2 DEF Members, WorldOK, ToSet
<1>4. Goes(handleConversationTurnStarted(desk, a), desk, posts)
  BY <1>2, <1>3, TurnGoes
<1> QED
  BY <1>1, <1>2, <1>4, GoingKeeps

\* handleConversationInactiveCheck and handleConversationClosing.
LEMMA AskedKeeps == NotifierIInv /\ MembersAreAsked => NotifierIInv'
<1> SUFFICES ASSUME NotifierIInv, MembersAreAsked PROVE NotifierIInv'
  OBVIOUS
<1>1. PICK steps :
        /\ Handled(world, performed(desk, world, steps))
        /\ \/ steps = handleConversationInactiveCheck(world.members)
           \/ \E a \in Members : steps = handleConversationClosing(a)
  BY DEF MembersAreAsked, Talks
<1>2. WorldOK(world) /\ InOrder(desk, posts)
  BY Before
<1>3. world.members \in Seq(NotifiedAgents)
  BY <1>2 DEF WorldOK
<1>4. steps \in Seq(AgentStep)
  <2>1. CASE steps = handleConversationInactiveCheck(world.members)
    <3>1. steps = [i \in DOMAIN world.members |-> Notify(world.members[i], "followUp", FALSE)]
      BY <2>1, Zenon DEF handleConversationInactiveCheck, ForEach, sendConversationFollowUp
    <3> QED
      BY <1>3, <3>1, NotifyAll
  <2>2. ASSUME NEW a \in Members, steps = handleConversationClosing(a)
        PROVE  steps \in Seq(AgentStep)
    <3>1. a \in NotifiedAgents
      BY <1>3 DEF Members, ToSet
    <3>2. Notify(a, "clearing", FALSE) \in AgentStep
      BY <3>1, NotifyIs
    <3> QED
      BY <2>2, <3>2, FewSteps DEF handleConversationClosing
  <2> QED
    BY <1>1, <2>1, <2>2
<1>5. Goes(performed(desk, world, steps), desk, posts)
  BY <1>2, <1>4, StepsGo
<1> QED
  BY <1>1, <1>2, <1>5, GoingKeeps

\* The outcome of a transfer waits for the next message.
LEMMA CachedKeeps == NotifierIInv /\ OutcomeIsCached => NotifierIInv'
<1> SUFFICES ASSUME NotifierIInv, OutcomeIsCached PROVE NotifierIInv'
  OBVIOUS
<1>1. PICK A : Handled(world, [desk EXCEPT !.annotations = A])
  BY DEF OutcomeIsCached, Talks
<1>2. WorldOK(world) /\ InOrder(desk, posts)
  BY Before
<1> DEFINE e == [desk EXCEPT !.annotations = A]
<1>3. e = [desk EXCEPT !.annotations = A]
  OBVIOUS
<1> HIDE DEF e
<1>4. e = [queues |-> desk.queues, log |-> desk.log, sends |-> desk.sends,
           thread |-> desk.thread, known |-> desk.known, forced |-> desk.forced,
           annotations |-> A]
  BY <1>2, <1>3 DEF InOrder, Desk
<1>5. Desked(e, desk) /\ e.sends = desk.sends /\ e.forced = desk.forced
  BY <1>2, <1>4 DEF InOrder, Desk, Desked
<1>6. InOrder(e, posts) /\ (Unended(desk, posts) => Unended(e, posts))
  BY <1>2, <1>5, DeskedOrder
<1>7. Awaited(desk) => Awaited(e)
  BY <1>5 DEF Awaited, Awaits
<1>8. Goes(e, desk, posts)
  BY <1>6, <1>7 DEF Goes
<1>9. Handled(world, e)
  BY <1>1 DEF e
<1> QED
  BY <1>2, <1>8, <1>9, GoingKeeps

\* The handler of a join or a leave renames the thread, and goes on.
LEMMA RenameGoes ==
  ASSUME NEW d, NEW p, InOrder(d, p), NEW w, NEW a \in NotifiedAgents,
         NEW rest \in Seq(AgentStep)
  PROVE  Goes(renameConversationThread(d, w, a, rest), d, p)
<1> DEFINE s == [call |-> IF Len(w.members) < 2 \/ ~d.known THEN "yield" ELSE "rename",
                 rest |-> rest, of |-> a]
<1>1. rest \in Seq(AnyStep)
  BY AnySteps
<1>2. s \in Call /\ s.rest \in Seq(AgentStep)
  BY <1>1 DEF Call
<1>3. renameConversationThread(d, w, a, rest) = [d EXCEPT !.sends = @ \cup {s}]
  BY Zenon DEF renameConversationThread
<1> HIDE DEF s
<1> QED
  BY <1>2, <1>3, CallGoes

\* handleConversationJoin.
LEMMA JoinKeeps == NotifierIInv /\ AgentJoins => NotifierIInv'
<1> SUFFICES ASSUME NotifierIInv, AgentJoins PROVE NotifierIInv'
  OBVIOUS
<1>1. PICK a \in Present \ Members :
        LET w == [world EXCEPT !.members = Append(world.members, a)]
        IN  Handled(w, handleConversationJoin(desk, w, a))
  BY DEF AgentJoins, Talks
<1> DEFINE m == Append(world.members, a)
           w == [world EXCEPT !.members = m]
           e == handleConversationJoin(desk, w, a)
<1>2. WorldOK(world) /\ InOrder(desk, posts)
  BY Before
<1>3. a \in NotifiedAgents /\ m \in Seq(NotifiedAgents)
  BY <1>2 DEF Present, WorldOK
<1> HIDE DEF m
<1>4. WorldOK(w) /\ w.phase = world.phase
  BY <1>2, <1>3, TalkChanges
<1>5. e = renameConversationThread(desk, w, a, <<>>)
  BY DEF handleConversationJoin
<1>6. <<>> \in Seq(AgentStep)
  OBVIOUS
<1>7. Handled(w, e)
  BY <1>1 DEF m
<1> HIDE DEF w, e
<1>8. Goes(e, desk, posts)
  BY <1>2, <1>3, <1>5, <1>6, RenameGoes
<1> QED
  BY <1>4, <1>7, <1>8, GoingKeeps

\* The handler of a leave.
LEMMA LeaveGoes ==
  ASSUME NEW d, NEW p, InOrder(d, p), NEW w, NEW a \in NotifiedAgents
  PROVE  Goes(handleConversationLeave(d, w, a), d, p)
<1>1. <<Step("leave", a)>> \in Seq(AgentStep)
  <2>1. Step("leave", a) \in AgentStep
    BY StepIs
  <2> HIDE DEF Step
  <2> QED
    BY <2>1
<1>2. handleConversationLeave(d, w, a) = renameConversationThread(d, w, a, <<Step("leave", a)>>)
  BY Zenon DEF handleConversationLeave
<1> QED
  BY <1>1, <1>2, RenameGoes

\* The last message of a conversation is told to those who listen; then it ends.
LEMMA FinalSteps ==
  ASSUME NEW members \in Seq(NotifiedAgents), NEW speaker
  PROVE  /\ FinalMessages(members, speaker) \in Seq(AnyStep)
         /\ <<Step("finalize", None)>> \in Seq(AnyStep)
<1> DEFINE final == FinalMessages(members, speaker)
<1>1. final \in Seq(AnyStep)
  <2>1. CASE speaker = None
    BY <2>1 DEF FinalMessages
  <2>2. CASE speaker # None
    <3> DEFINE s == Others(members, speaker)
    <3>1. s \in Seq(NotifiedAgents)
      BY OthersType
    <3>2. final = [i \in DOMAIN s |-> Notify(s[i], "followUp", FALSE)]
      BY <2>2, Zenon DEF FinalMessages, ForEach, sendConversationFollowUp
    <3> HIDE DEF s, final
    <3> QED
      BY <3>1, <3>2, NotifyAll, AnySteps
  <2> QED
    BY <2>1, <2>2
<1>2. Step("finalize", None) \in AnyStep
  BY DEF AnyStep
<1> DEFINE s == Step("finalize", None)
<1>3. s \in AnyStep
  BY <1>2
<1> HIDE DEF s
<1>4. <<s>> \in Seq(AnyStep)
  BY <1>3
<1> QED
  BY <1>1, <1>4 DEF s

\* A conversation ends, and its members are told.
LEMMA EndGoes ==
  ASSUME NEW d, NEW p, InOrder(d, p), NEW w, WorldOK(w), NEW members \in Seq(NotifiedAgents),
         NEW speaker
  PROVE  /\ InOrder(handleConversationEnded(d, w, members, speaker, FALSE), p)
         /\ Awaited(d) => Awaited(handleConversationEnded(d, w, members, speaker, FALSE))
<1> DEFINE final == FinalMessages(members, speaker)
           told == [i \in DOMAIN members |-> Notify(members[i], "followUp", TRUE)]
           last == <<Step("finalize", None)>>
           steps == final \o told \o last
<1>1. final \in Seq(AnyStep) /\ last \in Seq(AnyStep)
  BY FinalSteps
<1>2. told \in Seq(AnyStep)
  BY NotifyAll, AnySteps
<1>3. handleConversationEnded(d, w, members, speaker, FALSE) = performed(d, w, steps)
  BY Zenon DEF handleConversationEnded, ForEach
<1> HIDE DEF final, told, last
<1>4. steps \in Seq(AnyStep)
  BY <1>1, <1>2
<1> HIDE DEF steps
<1>5. InOrder(performed(d, w, steps), p) /\ (Awaited(d) => Awaited(performed(d, w, steps)))
  BY <1>4, PerformedGoes
<1> QED
  BY <1>3, <1>5

\* A logout ends a conversation, whose members its handler tells later.
LEMMA ForcedEnd ==
  ASSUME NEW d, NEW p, InOrder(d, p), NEW w, WorldOK(w), NEW members \in Seq(NotifiedAgents),
         NEW speaker
  PROVE  /\ InOrder(handleConversationEnded(d, w, members, speaker, TRUE), p)
         /\ handleConversationEnded(d, w, members, speaker, TRUE).forced = members
<1> DEFINE final == FinalMessages(members, speaker)
           last == <<Step("finalize", None)>>
           steps == final \o <<>> \o last
           x == [d EXCEPT !.forced = members]
<1>1. final \in Seq(AnyStep) /\ last \in Seq(AnyStep)
  BY FinalSteps
<1>2. handleConversationEnded(d, w, members, speaker, TRUE) = performed(x, w, steps)
  BY Zenon DEF handleConversationEnded
<1>3. Desked(x, d) /\ x.forced = members
  <2>1. x = [d EXCEPT !.forced = members]
    OBVIOUS
  <2> HIDE DEF x
  <2>2. x = [queues |-> d.queues, log |-> d.log, sends |-> d.sends, thread |-> d.thread,
             known |-> d.known, forced |-> members, annotations |-> d.annotations]
    BY <2>1 DEF InOrder, Desk
  <2> QED
    BY <2>2 DEF InOrder, Desk, Desked
<1> HIDE DEF final, last, x
<1>4. InOrder(x, p)
  BY <1>3, DeskedOrder
<1>5. steps \in Seq(AnyStep)
  BY <1>1
<1> HIDE DEF steps
<1>6. InOrder(performed(x, w, steps), p) /\ performed(x, w, steps).forced = x.forced
  BY <1>4, <1>5, PerformedGoes
<1> QED
  BY <1>2, <1>3, <1>6

\* handleConversationLeave.
LEMMA LeavesKeeps == NotifierIInv /\ AgentLeaves => NotifierIInv'
<1> SUFFICES ASSUME NotifierIInv, AgentLeaves PROVE NotifierIInv'
  OBVIOUS
<1> DEFINE rest(a) == Others(world.members, a)
           w(a) == [world EXCEPT !.members = rest(a)]
           left(a) == handleConversationLeave(desk, w(a), a)
           closed == [world EXCEPT !.members = <<>>, !.phase = "closed"]
           ended(a) == handleConversationEnded(left(a), w(a), rest(a), None, FALSE)
<1>1. PICK a \in Members : Handled(w(a), left(a)) \/ Handled(closed, ended(a))
  BY DEF AgentLeaves, Talks
<1>2. WorldOK(world) /\ InOrder(desk, posts) /\ Awaited(desk)
  BY Before
<1>3. a \in NotifiedAgents /\ rest(a) \in Seq(NotifiedAgents) /\ <<>> \in Seq(NotifiedAgents)
  <2>1. world.members \in Seq(NotifiedAgents)
    BY <1>2 DEF WorldOK
  <2> QED
    BY <2>1, OthersType DEF Members, ToSet
<1> DEFINE r == rest(a)
           v == [world EXCEPT !.members = r]
           l == handleConversationLeave(desk, v, a)
           e == handleConversationEnded(l, v, r, None, FALSE)
<1>4. Handled(v, l) \/ Handled(closed, e)
  BY <1>1
<1> HIDE DEF rest, w, left, ended
<1>5. r \in Seq(NotifiedAgents)
  BY <1>3
<1> HIDE DEF r
<1>6. WorldOK(v) /\ v.phase = world.phase
  BY <1>2, <1>5, TalkChanges
<1>7. WorldOK(closed) /\ closed.phase = "closed"
  <2>1. "closed" \in {"open", "closed"}
    OBVIOUS
  <2> QED
    BY <1>2, <1>3, <2>1, PhaseChanges
<1> HIDE DEF v, closed
<1>8. Goes(l, desk, posts)
  BY <1>2, <1>3, LeaveGoes
<1> HIDE DEF l
<1>9. InOrder(l, posts) /\ Awaited(l)
  BY <1>2, <1>8 DEF Goes
<1>10. InOrder(e, posts) /\ Awaited(e)
  BY <1>5, <1>6, <1>9, EndGoes
<1> HIDE DEF e
<1>11. CASE Handled(v, l)
  BY <1>6, <1>8, <1>11, GoingKeeps
<1>12. CASE Handled(closed, e)
  BY <1>7, <1>10, <1>12, HandledKeeps
<1> QED
  BY <1>4, <1>11, <1>12

\* handleConversationEnded.
LEMMA EndsKeeps == NotifierIInv /\ ConversationEnds => NotifierIInv'
<1> SUFFICES ASSUME NotifierIInv, ConversationEnds PROVE NotifierIInv'
  OBVIOUS
<1> DEFINE w == [world EXCEPT !.members = <<>>, !.phase = "closed"]
<1>1. PICK speaker :
        Handled(w, handleConversationEnded(desk, w, world.members, speaker, FALSE))
  BY DEF ConversationEnds, Talks
<1>2. WorldOK(world) /\ InOrder(desk, posts) /\ Awaited(desk)
  BY Before
<1>3. world.members \in Seq(NotifiedAgents)
  BY <1>2 DEF WorldOK
<1>4. WorldOK(w) /\ w.phase = "closed"
  <2>1. "closed" \in {"open", "closed"} /\ <<>> \in Seq(NotifiedAgents)
    OBVIOUS
  <2> QED
    BY <1>2, <2>1, PhaseChanges
<1> HIDE DEF w
<1> DEFINE e == handleConversationEnded(desk, w, world.members, speaker, FALSE)
<1>5. InOrder(e, posts) /\ Awaited(e)
  BY <1>2, <1>3, <1>4, EndGoes
<1>6. Handled(w, e)
  BY <1>1
<1> HIDE DEF e
<1> QED
  BY <1>4, <1>5, <1>6, HandledKeeps

\* The goodbye of a logout is on its way.
LEMMA LogoutGoes ==
  ASSUME NEW d, NEW p, InOrder(d, p), NEW a \in NotifiedAgents
  PROVE  /\ Goes(handleAgentLoggedOut(d, a), d, p)
         /\ a \in ToSet(d.forced) \/ Awaited(d)
              => Awaits(handleAgentLoggedOut(d, a), unsaved \ {a})
<1> DEFINE s == [call |-> "goodbye", rest |-> <<>>, of |-> a]
           S == d.sends \cup {s}
<1>1. s \in Call /\ s.rest \in Seq(AgentStep) /\ s.call = "goodbye" /\ s.of = a
  <2>1. <<>> \in Seq(AnyStep) /\ <<>> \in Seq(AgentStep)
    OBVIOUS
  <2> QED
    BY <2>1 DEF Call
<1>2. handleAgentLoggedOut(d, a) = [d EXCEPT !.sends = @ \cup {s}]
  BY Zenon DEF handleAgentLoggedOut
<1> HIDE DEF s
<1>3. Goes(handleAgentLoggedOut(d, a), d, p)
  BY <1>1, <1>2, CallGoes
<1>4. S \in SUBSET Call /\ s \in S
  BY <1>1 DEF InOrder, Desk
<1>5. handleAgentLoggedOut(d, a) = [d EXCEPT !.sends = S]
  BY <1>2
<1> HIDE DEF S
<1>6. /\ [d EXCEPT !.sends = S].sends = S
      /\ [d EXCEPT !.sends = S].forced = d.forced
  BY <1>4, SendsChange DEF InOrder
<1>7. a \in ToSet(d.forced) \/ Awaited(d)
        => Awaits(handleAgentLoggedOut(d, a), unsaved \ {a})
  <2> DEFINE e == handleAgentLoggedOut(d, a)
  <2>1. d.sends \subseteq e.sends /\ s \in e.sends /\ e.forced = d.forced
    BY <1>4, <1>5, <1>6 DEF S
  <2> HIDE DEF e
  <2>2. a \in ToSet(d.forced) => Awaits(e, unsaved \ {a})
    BY <1>1, <2>1 DEF Awaits
  <2>3. a \notin ToSet(d.forced) /\ Awaited(d) => Awaits(e, unsaved \ {a})
    BY <2>1 DEF Awaited, Awaits
  <2> QED
    BY <2>2, <2>3 DEF e
<1> QED
  BY <1>3, <1>7

\* The listeners of a message that a logout cut short.
LEMMA InterruptedGoes ==
  ASSUME NEW d, NEW p, InOrder(d, p), NEW w, WorldOK(w), NEW s \in Seq(NotifiedAgents),
         NEW next
  PROVE  Goes(handleConversationIntervalInterrupted(d, w, s, next), d, p)
<1> DEFINE first == IF next \in ToSet(s) THEN <<Notify(next, "followUp", FALSE)>> ELSE <<>>
           o == Others(s, next)
           others == [i \in DOMAIN o |-> Step("message", o[i])]
           steps == first \o others
<1>1. first \in Seq(AgentStep)
  <2>1. CASE next \in ToSet(s)
    <3>1. next \in NotifiedAgents
      BY <2>1 DEF ToSet
    <3>2. Notify(next, "followUp", FALSE) \in AgentStep
      BY <3>1, NotifyIs
    <3> QED
      BY <2>1, <3>2, FewSteps
  <2>2. CASE next \notin ToSet(s)
    BY <2>2
  <2> QED
    BY <2>1, <2>2
<1>2. others \in Seq(AgentStep)
  <2>1. o \in Seq(NotifiedAgents)
    BY OthersType
  <2> HIDE DEF o
  <2> QED
    BY <2>1, MessageAll
<1>3. handleConversationIntervalInterrupted(d, w, s, next) = performed(d, w, steps)
  BY Zenon DEF handleConversationIntervalInterrupted, ForEach, sendConversationFollowUp
<1> HIDE DEF first, others
<1>4. steps \in Seq(AgentStep)
  BY <1>1, <1>2
<1> HIDE DEF steps
<1> QED
  BY <1>3, <1>4, StepsGo

\* The floor passes on.
LEMMA FloorGoes ==
  ASSUME NEW d, NEW p, InOrder(d, p), NEW w, WorldOK(w), NEW next \in NotifiedAgents,
         NEW e \in floorPasses(d, w, next)
  PROVE  Goes(e, d, p)
<1>1. Goes(handleConversationTurnStarted(d, next), d, p)
  BY TurnGoes
<1>2. handleConversationClosing(next) \in Seq(AgentStep)
  <2>1. Notify(next, "clearing", FALSE) \in AgentStep
    BY NotifyIs
  <2> QED
    BY <2>1, FewSteps DEF handleConversationClosing
<1>3. Goes(performed(d, w, handleConversationClosing(next)), d, p)
  BY <1>2, StepsGo
<1> QED
  BY <1>1, <1>3 DEF floorPasses

\* What a logout does to the conversation: its log stays in order, and when it
\* ends the members, the agent among them, are kept to be told.
LEMMA ConversationLeft ==
  ASSUME NotifierIInv, NEW a \in Present, NEW left \in forceEndConversation(a)
  PROVE  /\ WorldOK(left.world) /\ InOrder(left.desk, posts)
         /\ left.world.people = world.people
         /\ left.world.phase # "closed" => Unended(left.desk, posts)
         /\ IF left.ended THEN a \in ToSet(left.desk.forced) ELSE Awaited(left.desk)
<1> DEFINE r == Others(world.members, a)
           v == [world EXCEPT !.members = r]
           c == [world EXCEPT !.members = <<>>, !.phase = "closed"]
           l == handleConversationLeave(desk, v, a)
           told(next) == handleConversationIntervalInterrupted(l, v, r, next)
           ended(speaker) == handleConversationEnded(desk, c, world.members, speaker, TRUE)
<1>1. \/ left = [world |-> world, desk |-> desk, ended |-> FALSE]
      \/ left = [world |-> v, desk |-> l, ended |-> FALSE]
      \/ \E next \in ToSet(r) : \E d \in floorPasses(l, v, next) \cup floorPasses(told(next), v, next) :
           left = [world |-> v, desk |-> d, ended |-> FALSE]
      \/ /\ a \in Members
         /\ \E speaker : left = [world |-> c, ended |-> TRUE, desk |-> ended(speaker)]
  BY DEF forceEndConversation
<1>2. /\ WorldOK(world) /\ InOrder(desk, posts) /\ Awaited(desk)
      /\ world.phase # "closed" => Unended(desk, posts)
  BY Before
<1>3. a \in NotifiedAgents
  BY DEF Present
<1>4. r \in Seq(NotifiedAgents) /\ world.members \in Seq(NotifiedAgents)
      /\ <<>> \in Seq(NotifiedAgents)
  <2>1. world.members \in Seq(NotifiedAgents)
    BY <1>2 DEF WorldOK
  <2> QED
    BY <2>1, OthersType
<1> HIDE DEF r
<1>5. WorldOK(v) /\ v.phase = world.phase /\ v.people = world.people
  <2>1. v.people = world.people
    BY <1>2 DEF WorldOK
  <2> QED
    BY <1>2, <1>4, <2>1, TalkChanges
<1>6. WorldOK(c) /\ c.phase = "closed" /\ c.people = world.people
  <2>1. "closed" \in {"open", "closed"}
    OBVIOUS
  <2>2. c.people = world.people
    BY <1>2 DEF WorldOK
  <2> QED
    BY <1>2, <1>4, <2>1, <2>2, PhaseChanges
<1> HIDE DEF v, c
<1>7. Goes(l, desk, posts)
  BY <1>2, <1>3, LeaveGoes
<1> HIDE DEF l
<1>8. ASSUME NEW next \in ToSet(r),
             NEW d \in floorPasses(l, v, next) \cup floorPasses(told(next), v, next)
      PROVE  Goes(d, desk, posts)
  <2>1. InOrder(l, posts) /\ next \in NotifiedAgents
    BY <1>4, <1>7 DEF Goes, ToSet
  <2>2. Goes(told(next), l, posts)
    BY <1>4, <1>5, <2>1, InterruptedGoes
  <2> HIDE DEF told
  <2>3. Goes(told(next), desk, posts)
    BY <1>7, <2>2, GoesTwice
  <2>4. CASE d \in floorPasses(l, v, next)
    <3>1. Goes(d, l, posts)
      BY <1>5, <2>1, <2>4, FloorGoes
    <3> QED
      BY <1>7, <3>1, GoesTwice
  <2>5. CASE d \in floorPasses(told(next), v, next)
    <3> DEFINE x == told(next)
    <3>1. InOrder(x, posts) /\ d \in floorPasses(x, v, next) /\ Goes(x, desk, posts)
      BY <2>3, <2>5 DEF Goes
    <3> HIDE DEF x
    <3>2. Goes(d, x, posts)
      BY <1>5, <2>1, <3>1, FloorGoes
    <3> QED
      BY <3>1, <3>2, GoesTwice
  <2> QED
    BY <1>8, <2>4, <2>5
<1>9. ASSUME NEW speaker
      PROVE  InOrder(ended(speaker), posts) /\ ended(speaker).forced = world.members
  <2> DEFINE m == world.members
  <2>1. m \in Seq(NotifiedAgents) /\ WorldOK(c) /\ InOrder(desk, posts)
    BY <1>2, <1>4, <1>6
  <2> HIDE DEF m
  <2>2. /\ InOrder(handleConversationEnded(desk, c, m, speaker, TRUE), posts)
        /\ handleConversationEnded(desk, c, m, speaker, TRUE).forced = m
    BY <2>1, ForcedEnd
  <2> QED
    BY <2>2 DEF m
<1> HIDE DEF told, ended
<1>10. CASE left = [world |-> world, desk |-> desk, ended |-> FALSE]
  BY <1>2, <1>10
<1>11. ASSUME NEW d, Goes(d, desk, posts), left = [world |-> v, desk |-> d, ended |-> FALSE]
       PROVE  /\ WorldOK(left.world) /\ InOrder(left.desk, posts)
              /\ left.world.people = world.people
              /\ left.world.phase # "closed" => Unended(left.desk, posts)
              /\ IF left.ended THEN a \in ToSet(left.desk.forced) ELSE Awaited(left.desk)
  <2>1. left.world = v /\ left.desk = d /\ left.ended = FALSE
    BY <1>11
  <2>2. InOrder(d, posts) /\ Awaited(d) /\ (Unended(desk, posts) => Unended(d, posts))
    BY <1>2, <1>11 DEF Goes
  <2> QED
    BY <1>2, <1>5, <2>1, <2>2
<1>12. ASSUME a \in Members, NEW speaker,
              left = [world |-> c, ended |-> TRUE, desk |-> ended(speaker)]
       PROVE  /\ WorldOK(left.world) /\ InOrder(left.desk, posts)
              /\ left.world.people = world.people
              /\ left.world.phase # "closed" => Unended(left.desk, posts)
              /\ IF left.ended THEN a \in ToSet(left.desk.forced) ELSE Awaited(left.desk)
  <2>1. left.world = c /\ left.desk = ended(speaker) /\ left.ended = TRUE
    BY <1>12
  <2>2. a \in ToSet(ended(speaker).forced)
    BY <1>9, <1>12 DEF Members
  <2> QED
    BY <1>6, <1>9, <2>1, <2>2
<1> QED
  BY <1>1, <1>7, <1>8, <1>10, <1>11, <1>12

\* The logout of an agent, or one that could not be written back.
LEMMA LogsOutKeeps == NotifierIInv /\ AgentLogsOut => NotifierIInv'
<1> SUFFICES ASSUME NotifierIInv, AgentLogsOut PROVE NotifierIInv'
  OBVIOUS
<1> DEFINE gone == [in |-> FALSE, window |-> FALSE, rejected |-> None]
         Out(a, left) ==
           /\ posts' = posts
           /\ \/ /\ world' = [left.world EXCEPT !.people[a] = gone]
                 /\ desk' = handleAgentLoggedOut(left.desk, a)
                 /\ unsaved' = unsaved \ {a}
              \/ /\ world' = left.world /\ desk' = left.desk
                 /\ unsaved' = IF left.ended THEN unsaved \cup {a} ELSE unsaved
<1>0. PICK a \in Present : \E left \in forceEndConversation(a) : Out(a, left)
  BY DEF AgentLogsOut
<1>1. PICK left \in forceEndConversation(a) : Out(a, left)
  BY <1>0
<1> DEFINE w == left.world
           d == left.desk
<1>2. /\ WorldOK(w) /\ InOrder(d, posts)
      /\ w.phase # "closed" => Unended(d, posts)
      /\ IF left.ended THEN a \in ToSet(d.forced) ELSE Awaited(d)
  BY ConversationLeft
<1>3. a \in NotifiedAgents
  BY DEF Present
<1>4. CASE /\ world' = [w EXCEPT !.people[a] = gone]
           /\ desk' = handleAgentLoggedOut(d, a)
           /\ unsaved' = unsaved \ {a}
  <2>1. gone \in People /\ gone.rejected = None
    BY DEF People, Rejected
  <2> HIDE DEF gone, w, d
  <2>2. WorldOK(world') /\ world'.phase = w.phase
    BY <1>2, <1>3, <1>4, <2>1, PersonChanges
  <2>3. /\ Goes(handleAgentLoggedOut(d, a), d, posts)
        /\ Awaits(handleAgentLoggedOut(d, a), unsaved \ {a})
    BY <1>2, <1>3, LogoutGoes
  <2>4. /\ InOrder(desk', posts') /\ Awaits(desk', unsaved')
        /\ world'.phase # "closed" => Unended(desk', posts')
    BY <1>1, <1>2, <1>4, <2>2, <2>3 DEF Goes
  <2> QED
    BY <2>2, <2>4, ChangeKeeps
<1>5. CASE /\ world' = w /\ desk' = d
           /\ unsaved' = IF left.ended THEN unsaved \cup {a} ELSE unsaved
  <2> HIDE DEF w, d
  <2>1. Awaits(desk', unsaved')
    BY <1>2, <1>5 DEF Awaited, Awaits
  <2>2. /\ WorldOK(world') /\ InOrder(desk', posts')
        /\ world'.phase # "closed" => Unended(desk', posts')
    BY <1>1, <1>2, <1>5
  <2> QED
    BY <2>1, <2>2, ChangeKeeps
<1> QED
  BY <1>1, <1>4, <1>5

(***************************************************************************)
(* Discord answers.                                                        *)
(***************************************************************************)
\* A delivery is over, and the handler that awaited it goes on, or throws.
LEMMA DeliveredGoes ==
  ASSUME NEW d, NEW p, InOrder(d, p), NEW w, WorldOK(w), NEW a \in NotifiedAgents,
         d.queues[a] # <<>>, NEW ok \in BOOLEAN
  PROVE  Goes(delivered(d, w, a, ok), d, p)
<1> DEFINE f == [d EXCEPT !.queues[a] = Tail(@)]
           t == Head(d.queues[a])
<1>1. d.queues[a] \in Seq(Task)
  BY DEF InOrder, Desk
<1>2. t \in Task
  BY <1>1
<1>3. t.rest \in Seq(AnyStep)
  BY <1>2 DEF Task
<1>4. Goes(f, d, p)
  BY TaskEnds
<1>5. delivered(d, w, a, ok) = performed(f, w, t.rest) \/ delivered(d, w, a, ok) = f
  BY Zenon DEF delivered
<1>6. Unended(d, p) => t.rest \in Seq(AgentStep)
  BY <1>1 DEF Unended
<1> HIDE DEF f, t
<1>7. InOrder(f, p)
  BY <1>4 DEF Goes
<1> DEFINE e == performed(f, w, t.rest)
<1>8. /\ InOrder(e, p) /\ (Awaited(f) => Awaited(e))
      /\ t.rest \in Seq(AgentStep) => Goes(e, f, p)
  BY <1>3, <1>7, PerformedGoes
<1> HIDE DEF e
<1>9. Goes(e, d, p)
  BY <1>4, <1>6, <1>8 DEF Goes
<1> QED
  BY <1>4, <1>5, <1>9 DEF e

\* A delivery ends.
LEMMA DeliveryKeeps == NotifierIInv /\ DeliveryEnds => NotifierIInv'
<1> SUFFICES ASSUME NotifierIInv, DeliveryEnds PROVE NotifierIInv'
  OBVIOUS
<1>1. PICK a \in NotifiedAgents, ok \in Outcomes, listed \in BOOLEAN :
        /\ desk.queues[a] # <<>> /\ a \in Present
        /\ world' = [world EXCEPT !.people[a] =
                       sent(world.people[a], Head(desk.queues[a]), ok, listed)]
        /\ desk' = delivered(desk, world', a, ok)
        /\ UNCHANGED <<posts, unsaved>>
  BY Zenon DEF DeliveryEnds
<1> DEFINE p == world.people[a]
           t == Head(desk.queues[a])
           r == sent(p, t, ok, listed)
<1>2. WorldOK(world) /\ InOrder(desk, posts) /\ ok \in BOOLEAN
  BY Before DEF Outcomes
<1>3. p \in People /\ p.in
  BY <1>1, <1>2 DEF WorldOK, Present
<1>4. r \in People /\ r.in
  <2>1. [p EXCEPT !.window = FALSE] \in People /\ [p EXCEPT !.window = FALSE].in
    BY <1>3 DEF People
  <2>2. \A q \in People : q.in =>
          clearChoicesPromptSuppressionsIfCurrent(q, t.hides) \in People
          /\ clearChoicesPromptSuppressionsIfCurrent(q, t.hides).in
    BY DEF clearChoicesPromptSuppressionsIfCurrent, People, Rejected
  <2> QED
    BY <1>3, <2>1, <2>2 DEF sent
<1>5. world' = [world EXCEPT !.people[a] = r]
  BY <1>1
<1> HIDE DEF r
<1>6. WorldOK(world') /\ world'.phase = world.phase
  BY <1>2, <1>4, <1>5, PersonChanges
<1>7. Goes(delivered(desk, world', a, ok), desk, posts)
  BY <1>1, <1>2, <1>6, DeliveredGoes
<1>8. Handled(world', delivered(desk, world', a, ok))
  BY <1>1 DEF Handled
<1> QED
  BY <1>6, <1>7, <1>8, GoingKeeps

\* A delivery is skipped.
LEMMA SkippedKeeps == NotifierIInv /\ DeliveryIsSkipped => NotifierIInv'
<1> SUFFICES ASSUME NotifierIInv, DeliveryIsSkipped PROVE NotifierIInv'
  OBVIOUS
<1>1. PICK a \in NotifiedAgents :
        desk.queues[a] # <<>> /\ Handled(world, delivered(desk, world, a, TRUE))
  BY DEF DeliveryIsSkipped
<1>2. WorldOK(world) /\ InOrder(desk, posts)
  BY Before
<1>3. Goes(delivered(desk, world, a, TRUE), desk, posts)
  BY <1>1, <1>2, DeliveredGoes
<1> QED
  BY <1>1, <1>2, <1>3, GoingKeeps

\* The thread is made, or fails.
LEMMA ThreadKeeps == NotifierIInv /\ ThreadIsMade => NotifierIInv'
<1> SUFFICES ASSUME NotifierIInv, ThreadIsMade PROVE NotifierIInv'
  OBVIOUS
<1>1. PICK s \in desk.sends, thread \in {"made", "failed"} :
        /\ s.call = "thread"
        /\ Handled(world, [desk EXCEPT !.sends = desk.sends \ {s}, !.thread = thread])
  BY DEF ThreadIsMade
<1> DEFINE S == desk.sends \ {s}
           e == [desk EXCEPT !.sends = S, !.thread = thread]
<1>2. WorldOK(world) /\ InOrder(desk, posts)
  BY Before
<1>3. S \in SUBSET Call /\ S \subseteq desk.sends
      /\ \A r \in desk.sends : r.call = "goodbye" => r \in S
  BY <1>1, <1>2 DEF InOrder, Desk
<1>4. e = [desk EXCEPT !.sends = S, !.thread = thread]
  OBVIOUS
<1>5. Handled(world, e)
  BY <1>1
<1> HIDE DEF e, S
<1>6. e = [queues |-> desk.queues, log |-> desk.log, sends |-> S, thread |-> thread,
           known |-> desk.known, forced |-> desk.forced, annotations |-> desk.annotations]
  BY <1>2, <1>4 DEF InOrder, Desk
<1>7. Desked(e, desk) /\ e.sends = S /\ e.forced = desk.forced
  BY <1>2, <1>3, <1>6 DEF InOrder, Desk, Desked
<1>8. InOrder(e, posts) /\ (Unended(desk, posts) => Unended(e, posts))
  BY <1>2, <1>3, <1>7, DeskedOrder
<1>9. Awaited(desk) => Awaited(e)
  BY <1>3, <1>7 DEF Awaited, Awaits
<1>10. Goes(e, desk, posts)
  BY <1>8, <1>9 DEF Goes
<1> QED
  BY <1>2, <1>5, <1>10, GoingKeeps

\* A handler goes on after a yield or a renaming.
LEMMA GoesOnKeeps == NotifierIInv /\ HandlerGoesOn => NotifierIInv'
<1> SUFFICES ASSUME NotifierIInv, HandlerGoesOn PROVE NotifierIInv'
  OBVIOUS
<1>1. PICK s \in desk.sends :
        /\ s.call # "goodbye"
        /\ Handled(world, performed([desk EXCEPT !.sends = @ \ {s}], world, s.rest))
  BY Zenon DEF HandlerGoesOn
<1> DEFINE f == [desk EXCEPT !.sends = @ \ {s}]
           e == performed(f, world, s.rest)
<1>2. WorldOK(world) /\ InOrder(desk, posts)
  BY Before
<1>3. s.rest \in Seq(AnyStep) /\ (Unended(desk, posts) => s.rest \in Seq(AgentStep))
  BY <1>2 DEF InOrder, Desk, Call, Unended
<1>4. Goes(f, desk, posts)
  BY <1>1, <1>2, OtherEnds
<1> HIDE DEF f
<1>5. InOrder(f, posts)
  BY <1>4 DEF Goes
<1>6. /\ InOrder(e, posts) /\ (Awaited(f) => Awaited(e))
      /\ s.rest \in Seq(AgentStep) => Goes(e, f, posts)
  BY <1>2, <1>3, <1>5, PerformedGoes
<1>7. Handled(world, e)
  BY <1>1 DEF f
<1> HIDE DEF e
<1>8. Goes(e, desk, posts)
  BY <1>3, <1>4, <1>6 DEF Goes
<1> QED
  BY <1>2, <1>7, <1>8, GoingKeeps

\* A goodbye ends.
LEMMA GoodbyeKeeps == NotifierIInv /\ GoodbyeEnds => NotifierIInv'
<1> SUFFICES ASSUME NotifierIInv, GoodbyeEnds PROVE NotifierIInv'
  OBVIOUS
<1>1. PICK s \in desk.sends, ok \in BOOLEAN :
        s.call = "goodbye" /\ Handled(world, goodbyeEnds(desk, world, s.of, ok))
  BY DEF GoodbyeEnds, Outcomes
<1> DEFINE a == s.of
           S == {r \in desk.sends : r.call # "goodbye" \/ r.of # a}
           d == [desk EXCEPT !.sends = S]
           e == afterGoodbye(d, world, a)
<1>2. WorldOK(world) /\ InOrder(desk, posts) /\ Awaited(desk)
  BY Before
<1>3. Handled(world, e)
  BY <1>1, Zenon DEF goodbyeEnds
<1>4. a \in NotifiedAgents
  BY <1>2 DEF InOrder, Desk, Call
<1>5. S \subseteq desk.sends
      /\ \A r \in desk.sends : r.of # a => r \in S
  OBVIOUS
<1> HIDE DEF a, S, e
<1>6. /\ InOrder(d, posts) /\ (Unended(desk, posts) => Unended(d, posts))
      /\ d.sends = S /\ d.forced = desk.forced
  BY <1>2, <1>5, CallEnds
<1> HIDE DEF d
<1>7. CASE a \notin ToSet(d.forced)
  <2>1. e = d
    BY <1>7, Zenon DEF afterGoodbye, e
  <2>2. Awaited(d)
    BY <1>2, <1>5, <1>6, <1>7 DEF Awaited, Awaits
  <2>3. Goes(d, desk, posts)
    BY <1>6, <2>2 DEF Goes
  <2> QED
    BY <1>2, <1>3, <2>1, <2>3, GoingKeeps
<1>8. CASE a \in ToSet(d.forced)
  <2> DEFINE f == [d EXCEPT !.forced = <<>>]
             o == Others(d.forced, a)
             told == [i \in DOMAIN o |-> Notify(o[i], "followUp", TRUE)]
             last == <<Step("logout", a)>>
             steps == told \o last
  <2>1. e = performed(f, world, steps)
    BY <1>8, Zenon DEF afterGoodbye, consumeForcedConversationPartners, ForEach, e
  <2>2. o \in Seq(NotifiedAgents)
    <3>1. d.forced \in Seq(NotifiedAgents)
      BY <1>6 DEF InOrder, Desk
    <3> QED
      BY <3>1, OthersType
  <2> HIDE DEF o
  <2>3. told \in Seq(AgentStep)
    BY <2>2, NotifyAll
  <2>4. last \in Seq(AgentStep)
    <3>1. Step("logout", a) \in AgentStep
      BY <1>4, StepIs
    <3> HIDE DEF Step
    <3> QED
      BY <3>1
  <2> HIDE DEF told, last
  <2>5. steps \in Seq(AgentStep)
    BY <2>3, <2>4
  <2>6. Desked(f, d) /\ f.sends = d.sends /\ f.forced = <<>>
    <3>1. f = [d EXCEPT !.forced = <<>>]
      OBVIOUS
    <3> HIDE DEF f
    <3>2. f = [queues |-> d.queues, log |-> d.log, sends |-> d.sends, thread |-> d.thread,
               known |-> d.known, forced |-> <<>>, annotations |-> d.annotations]
      BY <1>6, <3>1 DEF InOrder, Desk
    <3> QED
      BY <1>6, <3>2 DEF InOrder, Desk, Desked
  <2> HIDE DEF f, steps
  <2>7. InOrder(f, posts) /\ (Unended(d, posts) => Unended(f, posts))
    BY <1>6, <2>6, DeskedOrder
  <2>8. Awaited(f)
    BY <2>6 DEF Awaited, Awaits
  <2>9. Goes(f, desk, posts)
    BY <1>6, <2>7, <2>8 DEF Goes
  <2>10. Goes(performed(f, world, steps), f, posts)
    BY <1>2, <2>5, <2>7, StepsGo
  <2>11. Goes(performed(f, world, steps), desk, posts)
    BY <2>9, <2>10, GoesTwice
  <2> QED
    BY <1>2, <1>3, <2>1, <2>11, GoingKeeps
<1> QED
  BY <1>7, <1>8

(***************************************************************************)
(* What is posted.                                                         *)
(***************************************************************************)
\* One more post.
LEMMA OnePost ==
  ASSUME NEW p \in Seq(Post), NEW x \in Post
  PROVE  /\ Append(p, x) \in Seq(Post)
         /\ \A what : Has(Append(p, x), what) <=> Has(p, what) \/ x.what = what
         /\ \A i, j \in DOMAIN Append(p, x) : i < j =>
              /\ i \in DOMAIN p /\ Append(p, x)[i] = p[i]
              /\ \/ j \in DOMAIN p /\ Append(p, x)[j] = p[j]
                 \/ j = Len(p) + 1 /\ Append(p, x)[j] = x
<1> DEFINE q == Append(p, x)
           n == Len(p)
<1>1. /\ q \in Seq(Post) /\ n \in Nat /\ DOMAIN p = 1 .. n /\ DOMAIN q = 1 .. n + 1
      /\ \A i \in 1 .. n : q[i] = p[i]
      /\ q[n + 1] = x
  OBVIOUS
<1> HIDE DEF q, n
<1>2. ASSUME NEW what PROVE Has(q, what) <=> Has(p, what) \/ x.what = what
  <2>1. Has(q, what) => Has(p, what) \/ x.what = what
    <3>1. ASSUME NEW i \in 1 .. n + 1, q[i].what = what PROVE Has(p, what) \/ x.what = what
      <4>1. i \in 1 .. n \/ i = n + 1
        BY <1>1
      <4> QED
        BY <1>1, <3>1, <4>1 DEF Has
    <3> QED
      BY <1>1, <3>1 DEF Has
  <2>2. Has(p, what) => Has(q, what)
    <3>1. \A i \in 1 .. n : i \in 1 .. n + 1
      BY <1>1
    <3> QED
      BY <1>1, <3>1 DEF Has
  <2>3. x.what = what => Has(q, what)
    <3>1. n + 1 \in 1 .. n + 1
      BY <1>1
    <3> QED
      BY <1>1, <3>1 DEF Has
  <2> QED
    BY <2>1, <2>2, <2>3
<1>3. \A i, j \in 1 .. n + 1 : i < j => i \in 1 .. n /\ (j \in 1 .. n \/ j = n + 1)
  BY <1>1
<1> QED
  BY <1>1, <1>2, <1>3 DEF q, n

\* The log changes.
LEMMA LogChanges ==
  ASSUME NEW d, Desk(d), NEW M \in Seq(LogEntry)
  PROVE  /\ Desk([d EXCEPT !.log = M]) /\ [d EXCEPT !.log = M].queues = d.queues
         /\ [d EXCEPT !.log = M].log = M /\ [d EXCEPT !.log = M].sends = d.sends
         /\ [d EXCEPT !.log = M].known = d.known /\ [d EXCEPT !.log = M].forced = d.forced
<1> DEFINE e == [d EXCEPT !.log = M]
<1>1. e = [d EXCEPT !.log = M]
  OBVIOUS
<1> HIDE DEF e
<1>2. e = [queues |-> d.queues, log |-> M, sends |-> d.sends, thread |-> d.thread,
           known |-> d.known, forced |-> d.forced, annotations |-> d.annotations]
  BY <1>1 DEF Desk
<1>3. /\ Desk(e) /\ e.queues = d.queues /\ e.log = M /\ e.sends = d.sends
      /\ e.known = d.known /\ e.forced = d.forced
  BY <1>2 DEF Desk
<1> QED
  BY <1>3 DEF e

\* The first of the log is taken off it, with the post x or without one.
Taken(e, q, d, p, x) ==
  /\ d.log # <<>> /\ x \in Post
  /\ x.what = "end" => Head(d.log).what = "end"
  /\ x.what = "archive" => Head(d.log).archiving
  /\ x.where = "thread" => ~Has(p, "archive")
  /\ x.what = "message" => ~Has(p, "end")
  /\ q = p \/ q = Append(p, x)
  /\ e = [d EXCEPT !.log = Tail(d.log)]

\* The next entry of the log is then the first.
LEMMA LogGoesOn ==
  ASSUME NEW d, NEW p, InOrder(d, p), NEW x, NEW q, NEW e, Taken(e, q, d, p, x)
  PROVE  /\ InOrder(e, q)
         /\ Awaited(d) => Awaited(e)
         /\ Unended(d, p) => Unended(e, q)
<1> DEFINE L == d.log
           M == Tail(L)
           n == Len(L)
<1>1. L \in Seq(LogEntry) /\ L # <<>>
  BY DEF InOrder, Desk, Taken
<1>2. /\ n \in Nat \ {0} /\ DOMAIN L = 1 .. n /\ Head(L) = L[1]
      /\ M \in Seq(LogEntry) /\ DOMAIN M = 1 .. n - 1
      /\ \A i \in 1 .. n - 1 : M[i] = L[i + 1]
  BY <1>1
<1>3. /\ Desk(e) /\ e.queues = d.queues /\ e.log = M /\ e.sends = d.sends
      /\ e.known = d.known /\ e.forced = d.forced
  <2>1. e = [d EXCEPT !.log = M]
    BY DEF Taken
  <2>2. M \in Seq(LogEntry) /\ Desk(d)
    BY <1>2 DEF InOrder
  <2> HIDE DEF M
  <2> QED
    BY <2>1, <2>2, LogChanges
<1>4. /\ Has(L, "end") => ~d.known
      /\ \A i, j \in 1 .. n : i < j /\ L[i].what = "end" =>
           ~L[j].known /\ L[j].what # "message"
      /\ \A i \in 1 .. n : L[i].archiving =>
           i = 1 /\ L[i].known /\ L[i].what = "end"
  BY <1>2 DEF InOrder, LogInOrder
<1>5. /\ p \in Seq(Post)
      /\ Has(p, "end") =>
           /\ ~d.known
           /\ \A i \in 1 .. n : /\ L[i].what # "message"
                                /\ L[i].known => L[i].archiving
      /\ (\E i \in 1 .. n : L[i].archiving) => Has(p, "end")
      /\ Has(p, "archive") => Has(p, "end") /\ \A i \in 1 .. n : ~L[i].archiving
      /\ \A i, j \in DOMAIN p : i < j =>
           /\ p[i].what = "archive" => p[j].where = "world-log"
           /\ p[i].what = "end" => p[j].what # "message"
  BY <1>2 DEF InOrder, PostsInOrder
<1>6. /\ x.what = "end" => L[1].what = "end"
      /\ x.what = "archive" => L[1].archiving
      /\ x.where = "thread" => ~Has(p, "archive")
      /\ x.what = "message" => ~Has(p, "end")
      /\ x \in Post
  BY <1>2 DEF Taken
<1>7. 1 \in 1 .. n /\ \A i \in 1 .. n - 1 : i + 1 \in 1 .. n /\ 1 < i + 1 /\ i + 1 # 1
  BY <1>2
<1>8. \A i, j \in 1 .. n - 1 : i < j => i + 1 < j + 1
  BY <1>2
<1>9. Has(L, "end") <=> \E i \in 1 .. n : L[i].what = "end"
  BY <1>2 DEF Has
<1>10. Has(M, "end") <=> \E i \in 1 .. n - 1 : M[i].what = "end"
  BY <1>2 DEF Has
<1> HIDE DEF L, M, n
<1>12. Has(M, "end") => Has(L, "end")
  BY <1>2, <1>7, <1>9, <1>10
<1>13. \A i \in 1 .. n - 1 : ~M[i].archiving
  BY <1>2, <1>4, <1>7
<1>14. LogInOrder(e)
  <2>1. \A i, j \in 1 .. n - 1 : i < j /\ M[i].what = "end" =>
          ~M[j].known /\ M[j].what # "message"
    BY <1>2, <1>4, <1>7, <1>8
  <2> QED
    BY <1>2, <1>3, <1>4, <1>12, <1>13, <2>1 DEF LogInOrder
<1>0. q = p \/ q = Append(p, x)
  BY DEF Taken
<1>15. \A what : Has(Append(p, x), what) <=> Has(p, what) \/ x.what = what
  BY <1>5, <1>6, OnePost
<1>16. \A what : /\ Has(q, what) => Has(p, what) \/ x.what = what
                 /\ Has(p, what) => Has(q, what)
  BY <1>0, <1>15
<1>17. q \in Seq(Post)
  BY <1>0, <1>5, <1>6, OnePost
<1>18. ASSUME NEW i \in DOMAIN q, NEW j \in DOMAIN q, i < j
       PROVE  /\ q[i].what = "archive" => q[j].where = "world-log"
              /\ q[i].what = "end" => q[j].what # "message"
  <2>1. CASE q = p
    BY <1>5, <1>18, <2>1
  <2>2. CASE q = Append(p, x)
    <3>1. /\ i \in DOMAIN p /\ q[i] = p[i]
          /\ (j \in DOMAIN p /\ q[j] = p[j]) \/ q[j] = x
      BY <1>5, <1>6, <1>18, <2>2, OnePost
    <3>2. CASE j \in DOMAIN p /\ q[j] = p[j]
      BY <1>5, <1>18, <3>1, <3>2
    <3>3. CASE q[j] = x
      <4>1. p[i].what = "archive" => x.where = "world-log"
        BY <1>6, <3>1 DEF Has, Post
      <4>2. p[i].what = "end" => x.what # "message"
        BY <1>6, <3>1 DEF Has
      <4> QED
        BY <3>1, <3>3, <4>1, <4>2
    <3> QED
      BY <3>1, <3>2, <3>3
  <2> QED
    BY <1>0, <2>1, <2>2
<1>19. PostsInOrder(e, q)
  <2>1. Has(q, "end") => Has(p, "end") \/ L[1].what = "end"
    BY <1>6, <1>16
  <2>2. Has(q, "end") => ~e.known
    BY <1>3, <1>4, <1>5, <1>7, <1>9, <2>1
  <2>3. ASSUME Has(q, "end"), NEW i \in 1 .. n - 1
        PROVE  M[i].what # "message" /\ (M[i].known => M[i].archiving)
    <3>1. CASE Has(p, "end")
      BY <1>2, <1>5, <1>7, <3>1
    <3>2. CASE L[1].what = "end"
      BY <1>2, <1>4, <1>7, <3>2
    <3> QED
      BY <2>1, <2>3, <3>1, <3>2
  <2>4. Has(q, "archive") => Has(q, "end")
    BY <1>5, <1>6, <1>7, <1>16
  <2> QED
    BY <1>2, <1>3, <1>13, <1>17, <1>18, <2>2, <2>3, <2>4 DEF PostsInOrder
<1>20. Unended(d, p) => Unended(e, q)
  <2> SUFFICES ASSUME Unended(d, p) PROVE Unended(e, q)
    OBVIOUS
  <2>1. ~Has(L, "end") /\ ~Has(p, "end")
    BY DEF Unended, L
  <2>2. ~Has(M, "end") /\ ~Has(q, "end")
    BY <1>6, <1>7, <1>9, <1>12, <1>16, <2>1
  <2> QED
    BY <1>3, <2>2 DEF Unended
<1>21. Awaited(d) => Awaited(e)
  BY <1>3 DEF Awaited, Awaits
<1> QED
  BY <1>3, <1>14, <1>19, <1>20, <1>21 DEF InOrder

\* The end is posted to its thread, which is archived next.
LEMMA EndIsPosted ==
  ASSUME NEW d, NEW p, InOrder(d, p), d.log # <<>>, Head(d.log).known,
         ~Head(d.log).archiving, Head(d.log).what = "end"
  PROVE  /\ InOrder([d EXCEPT !.log[1].archiving = TRUE],
                    Append(p, [what |-> "end", where |-> "thread"]))
         /\ Awaited(d) => Awaited([d EXCEPT !.log[1].archiving = TRUE])
<1> DEFINE L == d.log
           h == [what |-> "end", known |-> TRUE, archiving |-> TRUE]
           M == [L EXCEPT ![1] = h]
           n == Len(L)
           e == [d EXCEPT !.log = M]
           x == [what |-> "end", where |-> "thread"]
           q == Append(p, x)
<1>1. L \in Seq(LogEntry) /\ L # <<>>
  BY DEF InOrder, Desk
<1>2. n \in Nat \ {0} /\ DOMAIN L = 1 .. n /\ Head(L) = L[1] /\ L[1] \in LogEntry
  BY <1>1
<1>3. h \in LogEntry
  BY DEF LogEntry
<1>4. [L[1] EXCEPT !.archiving = TRUE] = h
  <2> DEFINE o == L[1]
  <2>1. o \in LogEntry /\ o.what = "end" /\ o.known = TRUE
    BY <1>2 DEF LogEntry
  <2> DEFINE u == [o EXCEPT !.archiving = TRUE]
  <2>2. u = [o EXCEPT !.archiving = TRUE]
    OBVIOUS
  <2> HIDE DEF o, u
  <2>3. u = h
    BY <2>1, <2>2 DEF LogEntry
  <2> QED
    BY <2>3 DEF o, u
<1>5. [d EXCEPT !.log[1].archiving = TRUE] = e
  BY <1>4
<1> HIDE DEF h
<1>6. /\ M \in Seq(LogEntry) /\ DOMAIN M = 1 .. n /\ M[1] = h
      /\ \A i \in 1 .. n : i # 1 => M[i] = L[i]
  BY <1>1, <1>2, <1>3
<1>7. h.what = "end" /\ h.known /\ h.archiving
  BY DEF h
<1>8. /\ Desk(e) /\ e.queues = d.queues /\ e.log = M /\ e.sends = d.sends
      /\ e.known = d.known /\ e.forced = d.forced
  <2>1. e = [d EXCEPT !.log = M]
    OBVIOUS
  <2> HIDE DEF e, M
  <2>2. e = [queues |-> d.queues, log |-> M, sends |-> d.sends, thread |-> d.thread,
             known |-> d.known, forced |-> d.forced, annotations |-> d.annotations]
    BY <2>1 DEF InOrder, Desk
  <2> QED
    BY <1>6, <2>2 DEF InOrder, Desk
<1>9. /\ Has(L, "end") => ~d.known
      /\ \A i, j \in 1 .. n : i < j /\ L[i].what = "end" =>
           ~L[j].known /\ L[j].what # "message"
      /\ \A i \in 1 .. n : L[i].archiving =>
           i = 1 /\ L[i].known /\ L[i].what = "end"
  BY <1>2 DEF InOrder, LogInOrder
<1>10. L[1].what = "end" /\ L[1].known /\ ~L[1].archiving
  BY <1>2
<1>11. 1 \in 1 .. n /\ \A i \in 1 .. n : i = 1 \/ 1 < i
  BY <1>2
<1>12. ~d.known
  BY <1>2, <1>9, <1>10, <1>11 DEF Has
<1>13. p \in Seq(Post) /\ ~Has(p, "end") /\ ~Has(p, "archive")
  BY <1>2, <1>10, <1>11 DEF InOrder, PostsInOrder
<1>14. x \in Post /\ x.what = "end"
  BY DEF Post
<1> HIDE DEF L, M, n, e, x
<1>15. \A i, j \in 1 .. n : i < j /\ M[i].what = "end" => ~M[j].known /\ M[j].what # "message"
  <2> SUFFICES ASSUME NEW i \in 1 .. n, NEW j \in 1 .. n, i < j, M[i].what = "end"
               PROVE  ~M[j].known /\ M[j].what # "message"
    OBVIOUS
  <2>1. j # 1 /\ 1 < j /\ 1 \in 1 .. n
    BY <1>2, <1>11
  <2> QED
    BY <1>6, <1>9, <1>10, <2>1
<1>16. \A i \in 1 .. n : M[i].archiving => i = 1 /\ M[i].known /\ M[i].what = "end"
  BY <1>6, <1>7, <1>9
<1>17. LogInOrder(e)
  BY <1>6, <1>8, <1>12, <1>15, <1>16 DEF LogInOrder
<1>18. q \in Seq(Post) /\ Has(q, "end") /\ ~Has(q, "archive")
  BY <1>13, <1>14, OnePost
<1>19. \A i \in 1 .. n : M[i].what # "message" /\ (M[i].known => M[i].archiving)
  <2> TAKE i \in 1 .. n
  <2>1. CASE i = 1
    BY <1>6, <1>7, <2>1
  <2>2. CASE i # 1
    <3>1. 1 < i /\ 1 \in 1 .. n
      BY <1>11, <2>2
    <3> QED
      BY <1>6, <1>9, <1>10, <2>2, <3>1
  <2> QED
    BY <2>1, <2>2
<1>20. ASSUME NEW i \in DOMAIN q, NEW j \in DOMAIN q, i < j
       PROVE  q[i].what # "archive" /\ q[i].what # "end"
  <2>1. i \in DOMAIN p /\ q[i] = p[i]
    BY <1>13, <1>14, <1>20, OnePost
  <2> QED
    BY <1>13, <2>1 DEF Has
<1> HIDE DEF q
<1>21. PostsInOrder(e, q)
  BY <1>6, <1>8, <1>12, <1>18, <1>19, <1>20 DEF PostsInOrder
<1>22. Awaited(d) => Awaited(e)
  BY <1>8 DEF Awaited, Awaits
<1> QED
  BY <1>5, <1>8, <1>17, <1>21, <1>22 DEF InOrder, q, x

\* A change of the log and the posts alone.
LEMMA PostKeeps ==
  ASSUME NotifierIInv, InOrder(desk', posts'), Awaits(desk', unsaved), unsaved' = unsaved,
         world' = world,
         Unended(desk, posts) => Unended(desk', posts')
  PROVE  NotifierIInv'
BY DEF NotifierIInv, InOrder, Awaits, ForcedEndsAreConsumed

\* The first of the log is posted.
LEMMA PostedKeeps == NotifierIInv /\ LogIsPosted => NotifierIInv'
<1> SUFFICES ASSUME NotifierIInv, LogIsPosted PROVE NotifierIInv'
  OBVIOUS
<1> DEFINE h == Head(desk.log)
           toThread == [what |-> h.what, where |-> "thread"]
           toWorld == [what |-> h.what, where |-> "world-log"]
           next == [desk EXCEPT !.log = Tail(@)]
           ending == [desk EXCEPT !.log[1].archiving = TRUE]
<1>1. /\ desk.log # <<>> /\ ~h.archiving /\ world' = world /\ unsaved' = unsaved
      /\ \/ /\ h.known
            /\ posts' = Append(posts, toThread)
            /\ desk' = IF h.what = "end" THEN ending ELSE next
         \/ desk' = next /\ posts' = Append(posts, toWorld)
         \/ desk' = next /\ UNCHANGED posts
  BY Zenon DEF LogIsPosted, Posting, ToThread
<1>2. InOrder(desk, posts) /\ Awaited(desk)
  BY Before
<1>3. h \in LogEntry
  BY <1>1, <1>2 DEF InOrder, Desk
<1>4. toWorld \in Post /\ toWorld.what = h.what /\ toWorld.where # "thread"
      /\ toThread \in Post /\ toThread.what = h.what
  BY <1>3 DEF LogEntry, Post
<1>5. h.what # "archive"
  BY <1>3 DEF LogEntry
<1>6. h.what = "message" \/ h.known => ~Has(posts, "end")
  <2>1. desk.log \in Seq(LogEntry) /\ 1 \in DOMAIN desk.log /\ h = desk.log[1]
    BY <1>1, <1>2 DEF InOrder, Desk
  <2> QED
    BY <1>1, <1>2, <2>1 DEF InOrder, PostsInOrder
<1>7. ~Has(posts, "end") => ~Has(posts, "archive")
  BY <1>2 DEF InOrder, PostsInOrder
<1>8. CASE h.known /\ h.what = "end" /\ desk' = ending /\ posts' = Append(posts, toThread)
  <2>1. toThread = [what |-> "end", where |-> "thread"]
    BY <1>8
  <2>2. InOrder(ending, Append(posts, toThread)) /\ Awaited(ending)
    BY <1>1, <1>2, <1>8, <2>1, EndIsPosted
  <2>3. ~Unended(desk, posts)
    <3>1. Has(desk.log, "end")
      <4>1. 1 \in DOMAIN desk.log /\ h = desk.log[1]
        BY <1>1, <1>2 DEF InOrder, Desk
      <4> QED
        BY <1>8, <4>1 DEF Has
    <3> QED
      BY <3>1 DEF Unended
  <2> QED
    BY <1>1, <1>8, <2>2, <2>3, PostKeeps DEF Awaited
<1>9. CASE h.known /\ h.what # "end" /\ desk' = next /\ posts' = Append(posts, toThread)
  <2>0. next = [desk EXCEPT !.log = Tail(desk.log)]
    OBVIOUS
  <2> DEFINE q == Append(posts, toThread)
  <2> HIDE DEF toThread, h, next
  <2>a. q = Append(posts, toThread)
    OBVIOUS
  <2> HIDE DEF q
  <2>1. /\ InOrder(next, q) /\ Awaited(next)
        /\ Unended(desk, posts) => Unended(next, q)
    <3>1. desk.log # <<>> /\ InOrder(desk, posts)
      BY <1>1, <1>2
    <3>2. /\ toThread \in Post
          /\ toThread.what = "end" => Head(desk.log).what = "end"
          /\ toThread.what = "archive" => Head(desk.log).archiving
          /\ toThread.where = "thread" => ~Has(posts, "archive")
          /\ toThread.what = "message" => ~Has(posts, "end")
      BY <1>4, <1>5, <1>6, <1>7, <1>9 DEF h
    <3>3. Taken(next, q, desk, posts, toThread)
      BY <2>0, <2>a, <3>1, <3>2 DEF Taken
    <3> QED
      BY <1>2, <3>1, <3>3, LogGoesOn
  <2> QED
    BY <1>1, <1>9, <2>1, PostKeeps DEF Awaited, q
<1>10. CASE desk' = next /\ posts' \in {posts, Append(posts, toWorld)}
  <2>0. next = [desk EXCEPT !.log = Tail(desk.log)]
    OBVIOUS
  <2> HIDE DEF toWorld, h, next
  <2> DEFINE q == posts'
  <2>1. q \in {posts, Append(posts, toWorld)}
    BY <1>10
  <2> HIDE DEF q
  <2>2. /\ InOrder(next, q) /\ Awaited(next)
        /\ Unended(desk, posts) => Unended(next, q)
    <3>1. desk.log # <<>> /\ InOrder(desk, posts)
      BY <1>1, <1>2
    <3>2. /\ toWorld \in Post
          /\ toWorld.what = "end" => Head(desk.log).what = "end"
          /\ toWorld.what = "archive" => Head(desk.log).archiving
          /\ toWorld.where = "thread" => ~Has(posts, "archive")
          /\ toWorld.what = "message" => ~Has(posts, "end")
      BY <1>4, <1>5, <1>6 DEF h
    <3>3. Taken(next, q, desk, posts, toWorld)
      BY <2>0, <2>1, <3>1, <3>2 DEF Taken
    <3> QED
      BY <1>2, <3>1, <3>3, LogGoesOn
  <2> QED
    BY <1>1, <1>10, <2>2, PostKeeps DEF Awaited, q
<1> QED
  BY <1>1, <1>8, <1>9, <1>10

\* The thread is archived.
LEMMA ArchivedKeeps == NotifierIInv /\ ThreadIsArchived => NotifierIInv'
<1> SUFFICES ASSUME NotifierIInv, ThreadIsArchived PROVE NotifierIInv'
  OBVIOUS
<1> DEFINE x == [what |-> "archive", where |-> "thread"]
           next == [desk EXCEPT !.log = Tail(@)]
           q == posts'
<1>1. /\ desk.log # <<>> /\ Head(desk.log).archiving /\ world' = world /\ unsaved' = unsaved
      /\ desk' = next /\ q \in {posts, Append(posts, x)}
  BY DEF ThreadIsArchived
<1>2. InOrder(desk, posts) /\ Awaited(desk)
  BY Before
<1>3. ~Has(posts, "archive")
  <2>1. 1 \in DOMAIN desk.log /\ Head(desk.log) = desk.log[1]
    BY <1>1, <1>2 DEF InOrder, Desk
  <2> QED
    BY <1>1, <1>2, <2>1 DEF InOrder, PostsInOrder
<1>4. x \in Post /\ x.what = "archive"
  BY DEF Post
<1>0. next = [desk EXCEPT !.log = Tail(desk.log)]
  OBVIOUS
<1> HIDE DEF x, q, next
<1>5. /\ InOrder(next, q) /\ Awaited(next)
      /\ Unended(desk, posts) => Unended(next, q)
  <2>1. desk.log # <<>> /\ InOrder(desk, posts) /\ q \in {posts, Append(posts, x)}
    BY <1>1, <1>2
  <2>2. /\ x \in Post
        /\ x.what = "end" => Head(desk.log).what = "end"
        /\ x.what = "archive" => Head(desk.log).archiving
        /\ x.where = "thread" => ~Has(posts, "archive")
        /\ x.what = "message" => ~Has(posts, "end")
    BY <1>1, <1>3, <1>4
  <2>3. Taken(next, q, desk, posts, x)
    BY <1>0, <2>1, <2>2 DEF Taken
  <2> QED
    BY <1>2, <2>1, <2>3, LogGoesOn
<1> QED
  BY <1>1, <1>5, PostKeeps DEF Awaited, q

(***************************************************************************)
(* Theorems.                                                               *)
(***************************************************************************)
\* The invariant holds at first.
LEMMA NotifierInit == InitNotifier => NotifierIInv
<1> SUFFICES ASSUME InitNotifier PROVE NotifierIInv
  OBVIOUS
<1> DEFINE r == [in |-> TRUE, window |-> FALSE, rejected |-> None]
           P == [a \in NotifiedAgents |-> r]
<1>1. world = [people |-> P, phase |-> "none", members |-> <<>>]
  <2>1. world = [emptyWorld EXCEPT !.people =
                   [a \in NotifiedAgents |-> [emptyWorld.people[a] EXCEPT !.in = TRUE]]]
    BY Zenon DEF InitNotifier
  <2>2. \A a \in NotifiedAgents : [emptyWorld.people[a] EXCEPT !.in = TRUE] = r
    <3> DEFINE o == [in |-> FALSE, window |-> FALSE, rejected |-> None]
    <3>1. \A a \in NotifiedAgents : emptyWorld.people[a] = o
      BY DEF emptyWorld
    <3>2. o = [in |-> o.in, window |-> o.window, rejected |-> o.rejected]
          /\ o.window = FALSE /\ o.rejected = None
      OBVIOUS
    <3> HIDE DEF o
    <3>3. [o EXCEPT !.in = TRUE] = r
      BY <3>2, PersonIs
    <3> QED
      BY <3>1, <3>3
  <2> DEFINE Q == [a \in NotifiedAgents |-> [emptyWorld.people[a] EXCEPT !.in = TRUE]]
  <2>3. Q = P
    BY <2>2
  <2> HIDE DEF Q, P
  <2>4. world = [emptyWorld EXCEPT !.people = P]
    BY <2>1, <2>3 DEF Q
  <2> QED
    BY <2>4 DEF emptyWorld
<1>2. WorldOK(world)
  <2>1. r \in People /\ r.in
    BY DEF People, Rejected
  <2> HIDE DEF r
  <2> QED
    BY <1>1, <2>1 DEF WorldOK
<1>3. desk = newDesk /\ posts = <<>>
  BY DEF InitNotifier
<1>4. Desk(desk) /\ desk.log = <<>> /\ desk.sends = {} /\ desk.forced = <<>>
      /\ \A a \in NotifiedAgents : desk.queues[a] = <<>>
  BY <1>3 DEF newDesk, Desk
<1>5. InOrder(desk, posts)
  BY <1>3, <1>4 DEF InOrder, LogInOrder, PostsInOrder, Has
<1>6. Unended(desk, posts)
  BY <1>3, <1>4 DEF Unended, Has
<1> QED
  BY <1>2, <1>4, <1>5, <1>6 DEF NotifierIInv, InOrder, ForcedEndsAreConsumed

\* Every step keeps the invariant.
LEMMA NotifierStep == NotifierIInv /\ [NotifierNext]_notifierVars => NotifierIInv'
<1> SUFFICES ASSUME NotifierIInv, [NotifierNext]_notifierVars PROVE NotifierIInv'
  OBVIOUS
<1>1. CASE UNCHANGED notifierVars
  BY <1>1 DEF notifierVars, NotifierIInv, ForcedEndsAreConsumed
<1>2. CASE NotifierNext
  BY <1>2, LogsInKeeps, ToldKeeps, RejectedKeeps, FiresKeeps, TransferKeeps, AcceptedKeeps,
     SpeaksKeeps, IntervalKeeps, TurnKeeps, AskedKeeps, CachedKeeps, JoinKeeps, LeavesKeeps,
     EndsKeeps, LogsOutKeeps, DeliveryKeeps, SkippedKeeps, ThreadKeeps, GoodbyeKeeps,
     GoesOnKeeps, PostedKeeps, ArchivedKeeps, Zenon DEF NotifierNext
<1> QED
  BY <1>1, <1>2

\* Whatever order Discord's calls end in, whichever fail and whichever logouts
\* cannot be written back, the handlers that wait, the log and the posts of a
\* conversation stay in order.
THEOREM NotifierInvariant == NotifierSpec => []NotifierIInv
BY NotifierInit, NotifierStep, PTL DEF NotifierSpec

\* Nothing is posted to an archived thread, and no message after the end of its
\* conversation.
THEOREM LogAlwaysEndsWithTheEnd == NotifierSpec => []LogEndsWithTheEnd
<1>1. NotifierIInv => LogEndsWithTheEnd
  BY DEF NotifierIInv, PostsInOrder, LogEndsWithTheEnd
<1> QED
  BY <1>1, NotifierInvariant, PTL

\* The partners of a logout that ended a conversation are kept for a handler
\* that is under way and will take them; only a logout that could not be written
\* back leaves them, for the next logout of a member.
THEOREM ForcedEndsAlwaysConsumed == NotifierSpec => []ForcedEndsAreConsumed
<1>1. NotifierIInv => ForcedEndsAreConsumed
  BY DEF NotifierIInv
<1> QED
  BY <1>1, NotifierInvariant, PTL

\* A rejected action stays left out until a message without it was delivered.
KeptUntilShown ==
  \A a \in NotifiedAgents :
    LET then == world.people[a].rejected
    IN  then # None /\ world'.people[a].in /\ world'.people[a].rejected = None =>
          desk.queues[a] # <<>> /\ Head(desk.queues[a]).hides = then

\* Who was rejected what is left alone.
LEMMA RejectionsAlone ==
  ASSUME \A a \in NotifiedAgents : world'.people[a].rejected = world.people[a].rejected
  PROVE  KeptUntilShown
BY DEF KeptUntilShown

\* No step forgets a rejection that was not shown.
LEMMA RejectionStep == NotifierIInv /\ [NotifierNext]_notifierVars => KeptUntilShown
<1> SUFFICES ASSUME NotifierIInv, [NotifierNext]_notifierVars PROVE KeptUntilShown
  OBVIOUS
<1>1. WorldOK(world)
  BY Before
<1>2. CASE world' = world
  BY <1>2, RejectionsAlone
<1> DEFINE Talked(f, m) == \/ world' = [world EXCEPT !.members = m]
                           \/ world' = [world EXCEPT !.phase = f, !.members = m]
                           \/ world' = [world EXCEPT !.members = m, !.phase = f]
<1>3. ASSUME NEW f, NEW m, Talked(f, m) PROVE KeptUntilShown
  <2>1. world'.people = world.people
    BY <1>1, <1>3 DEF WorldOK
  <2> QED
    BY <2>1, RejectionsAlone
<1>4. CASE AgentLogsIn
  <2> DEFINE r == [in |-> TRUE, window |-> FALSE, rejected |-> None]
  <2>1. PICK a \in NotifiedAgents \ Present : world' = [world EXCEPT !.people[a] = r]
    BY <1>4 DEF AgentLogsIn, Noticed, Handled
  <2>2. r \in People /\ r.in
    BY DEF People, Rejected
  <2> HIDE DEF r
  <2>3. world'.people = [world.people EXCEPT ![a] = r]
    BY <1>1, <2>1, <2>2, PersonChanges
  <2>4. world.people[a].rejected = None
    BY <1>1, <2>1 DEF WorldOK, Present
  <2>5. \A b \in NotifiedAgents : b # a => world'.people[b] = world.people[b]
    BY <1>1, <2>3 DEF WorldOK
  <2> QED
    BY <2>4, <2>5 DEF KeptUntilShown
<1>5. CASE ActionIsRejected
  <2>1. PICK a \in Present, x \in RejectedActions :
          world' = [[world EXCEPT !.people[a].rejected = x] EXCEPT !.people[a].window = FALSE]
    BY <1>5 DEF ActionIsRejected, Noticed, Handled
  <2> DEFINE P == world.people
             n == [P[a] EXCEPT !.rejected = x]
             Q == [P EXCEPT ![a] = n]
             v == [world EXCEPT !.people = Q]
  <2>2. P \in [NotifiedAgents -> People] /\ a \in NotifiedAgents
    BY <1>1 DEF WorldOK, Present
  <2>3. n.rejected = x /\ n \in People
    <3>1. P[a] \in People
      BY <2>2
    <3>2. x \in Rejected
      BY DEF Rejected
    <3> QED
      BY <3>1, <3>2 DEF People
  <2>4. world' = [v EXCEPT !.people[a].window = FALSE]
    BY <2>1
  <2> DEFINE R == [v.people EXCEPT ![a] = [v.people[a] EXCEPT !.window = FALSE]]
  <2>5. world'.people = R
    BY <1>1, <2>4 DEF WorldOK
  <2>6. v.people = Q
    BY <1>1 DEF WorldOK
  <2> HIDE DEF v, P, n
  <2>7. Q[a] = n /\ DOMAIN Q = NotifiedAgents
        /\ \A b \in NotifiedAgents : b # a => Q[b] = P[b]
    BY <2>2
  <2>8. [n EXCEPT !.window = FALSE].rejected = x
    BY <2>3 DEF People
  <2> HIDE DEF Q
  <2>9. R[a] = [n EXCEPT !.window = FALSE]
        /\ \A b \in NotifiedAgents : b # a => R[b] = P[b]
    BY <2>2, <2>6, <2>7
  <2>10. x # None
    BY DiscordAssumption
  <2> HIDE DEF R
  <2> QED
    BY <2>5, <2>8, <2>9, <2>10 DEF KeptUntilShown, P
<1>6. CASE AnnouncementFires
  <2> DEFINE P(p) == [a \in NotifiedAgents |->
                        [world.people[a] EXCEPT !.window = world.people[a].window \/ a \in ToSet(p)]]
  <2>1. PICK p : world' = [world EXCEPT !.people = P(p)]
    BY <1>6, Zenon DEF AnnouncementFires, Noticed, Handled
  <2>2. world'.people = P(p)
    BY <1>1, <2>1 DEF WorldOK
  <2>3. ASSUME NEW a \in NotifiedAgents PROVE P(p)[a].rejected = world.people[a].rejected
    <3>1. world.people[a] \in People
      BY <1>1 DEF WorldOK
    <3> DEFINE b == world.people[a].window \/ a \in ToSet(p)
    <3> HIDE DEF b
    <3>2. [world.people[a] EXCEPT !.window = b].rejected = world.people[a].rejected
      BY <3>1 DEF People
    <3>3. P(p)[a] = [world.people[a] EXCEPT !.window = b]
      BY DEF b
    <3> QED
      BY <3>2, <3>3
  <2> QED
    BY <2>2, <2>3, RejectionsAlone
<1>7. CASE AgentLogsOut
  <2> DEFINE gone == [in |-> FALSE, window |-> FALSE, rejected |-> None]
  <2>0. PICK a \in Present : \E left \in forceEndConversation(a) :
          world' \in {left.world, [left.world EXCEPT !.people[a] = gone]}
    BY <1>7 DEF AgentLogsOut
  <2>1. PICK left \in forceEndConversation(a) :
          world' \in {left.world, [left.world EXCEPT !.people[a] = gone]}
    BY <2>0
  <2> DEFINE w == left.world
  <2>2. WorldOK(w) /\ w.people = world.people /\ a \in NotifiedAgents
    BY ConversationLeft DEF Present
  <2>3. gone \in People /\ ~gone.in /\ gone.rejected = None
    BY DEF People, Rejected
  <2>4. CASE world' = w
    BY <2>2, <2>4, RejectionsAlone
  <2>5. CASE world' = [w EXCEPT !.people[a] = gone]
    <3> HIDE DEF gone, w
    <3>1. world'.people = [w.people EXCEPT ![a] = gone]
      BY <2>2, <2>3, <2>5, PersonChanges
    <3>2. /\ ~world'.people[a].in
          /\ \A b \in NotifiedAgents : b # a => world'.people[b] = world.people[b]
      BY <1>1, <2>2, <2>3, <3>1 DEF WorldOK
    <3> QED
      BY <3>2 DEF KeptUntilShown
  <2> QED
    BY <2>1, <2>4, <2>5
<1>8. CASE DeliveryEnds
  <2>1. PICK a \in NotifiedAgents, ok \in Outcomes, listed \in BOOLEAN :
          /\ desk.queues[a] # <<>> /\ a \in Present
          /\ world' = [world EXCEPT !.people[a] =
                         sent(world.people[a], Head(desk.queues[a]), ok, listed)]
    BY <1>8, Zenon DEF DeliveryEnds
  <2> DEFINE p == world.people[a]
             t == Head(desk.queues[a])
             r == sent(p, t, ok, listed)
  <2>2. p \in People
    BY <1>1 DEF WorldOK
  <2>3. r.rejected = p.rejected \/ p.rejected = t.hides
    <3>1. [p EXCEPT !.window = FALSE].rejected = p.rejected
      BY <2>2 DEF People
    <3>2. \A q \in {p, [p EXCEPT !.window = FALSE]} :
            \/ clearChoicesPromptSuppressionsIfCurrent(q, t.hides) = q
            \/ q.rejected = t.hides
      BY DEF clearChoicesPromptSuppressionsIfCurrent
    <3> QED
      BY <3>1, <3>2 DEF sent
  <2>4. world' = [world EXCEPT !.people[a] = r]
    BY <2>1
  <2> HIDE DEF r
  <2>5. world'.people = [world.people EXCEPT ![a] = r]
    BY <1>1, <2>4 DEF WorldOK
  <2>6. /\ world'.people[a] = r
        /\ \A b \in NotifiedAgents : b # a => world'.people[b] = world.people[b]
    BY <1>1, <2>5 DEF WorldOK
  <2> QED
    BY <2>1, <2>3, <2>6 DEF KeptUntilShown
<1>9. CASE UNCHANGED notifierVars
  BY <1>2, <1>9 DEF notifierVars
<1>10. AgentIsTold \/ TransferIsTold => world' = world
  BY DEF AgentIsTold, TransferIsTold, Noticed, Handled
<1>11. ParticipantSpeaks \/ IntervalIsOver \/ TurnStarts \/ MembersAreAsked \/ OutcomeIsCached
         => world' = world
  BY DEF ParticipantSpeaks, IntervalIsOver, TurnStarts, MembersAreAsked, OutcomeIsCached,
     Talks, Handled
<1>12. DeliveryIsSkipped \/ ThreadIsMade \/ GoodbyeEnds \/ HandlerGoesOn \/ LogIsPosted
         \/ ThreadIsArchived => world' = world
  BY DEF DeliveryIsSkipped, ThreadIsMade, GoodbyeEnds, HandlerGoesOn, LogIsPosted,
     ThreadIsArchived, Handled
<1>13. CASE ConversationIsAccepted \/ AgentJoins \/ AgentLeaves \/ ConversationEnds
  <2>1. PICK f, m : Talked(f, m)
    BY <1>13 DEF ConversationIsAccepted, AgentJoins, AgentLeaves, ConversationEnds, Talks, Handled
  <2> HIDE DEF Talked
  <2> QED
    BY <1>3, <2>1
<1>14. CASE NotifierNext
  BY <1>2, <1>4, <1>5, <1>6, <1>7, <1>8, <1>10, <1>11, <1>12, <1>13, <1>14, Zenon
     DEF NotifierNext
<1> QED
  BY <1>9, <1>14

\* The choices leave out the action rejected last until a message without it
\* was delivered, however deliveries and rejections interleave.
THEOREM RejectionsAlwaysKept == NotifierSpec => RejectionIsKeptUntilShown
<1>1. NotifierIInv /\ [NotifierNext]_notifierVars => [KeptUntilShown]_notifierVars
  BY RejectionStep
<1>2. NotifierSpec => [][KeptUntilShown]_notifierVars
  BY <1>1, NotifierInvariant, PTL DEF NotifierSpec
<1> QED
  BY <1>2 DEF RejectionIsKeptUntilShown, KeptUntilShown

(***************************************************************************)
(* What a spectator sees, for every number of agents, conversations,       *)
(* versions of the object, polls and requests, and the histories it reads, *)
(* for any number of events and faults and any limits.                     *)
(***************************************************************************)

Snapshots ==
  [generated_at : Nat, published_at : Nat, last_publish_error_at : {0},
   agents : SUBSET ShownAgents]

Polls == [lifecycle : Nat \cup {Manual}, aborted : BOOLEAN]

Statuses == {"idle", "loading", "ready", "error", "incompatible"}

Viewers ==
  [snapshot : Snapshots \cup {None}, snapshot_status : Statuses, is_stale : BOOLEAN,
   selected_agent_id : ShownAgents \cup {None}, mobile_sheet_mode : {"list", "detail"},
   expanded : SUBSET ShownConversations,
   pollingStarted : BOOLEAN, currentPollingLifecycleId : Nat,
   pollingInterval : Nat \cup {None}, poll : Polls \cup {None},
   pollQueued : BOOLEAN, queuedLifecycleId : Nat \cup {None}, queuedManualPoll : BOOLEAN]

Histories ==
  [cache : [Scopes -> [status : Statuses, response : Nat]], active : [Scopes -> Nat],
   sent : SUBSET [scope : Scopes, id : Nat \ {0}], historyRequestId : Nat]

(***************************************************************************)
(* The inductive invariant.                                                *)
(***************************************************************************)
\* What the screen shows agrees: the mark that the world is stale is that of
\* the snapshot shown.
MarkIsOfTheSnapshot(v) == v.snapshot # None => v.is_stale = IsStale(v.snapshot)

SelectionShown(v) ==
  /\ v.selected_agent_id # None => v.snapshot # None /\ v.selected_agent_id \in v.snapshot.agents
  /\ v.mobile_sheet_mode = "detail" <=> v.selected_agent_id # None

\* A poll belongs to a lifecycle that has begun, and one that was aborted to a
\* lifecycle that is over.
PollIsOfItsLifecycle(v) ==
  v.poll # None /\ v.poll.lifecycle # Manual =>
    /\ v.poll.lifecycle <= v.currentPollingLifecycleId
    /\ v.poll.aborted => v.poll.lifecycle < v.currentPollingLifecycleId

\* A poll that is queued may be made: the user asked for it, or the lifecycle
\* that did goes on.
QueuedPollMayBeMade(v) ==
  v.pollQueued =>
    \/ v.queuedManualPoll
    \/ v.queuedLifecycleId # None /\ isPollingLifecycleActive(v, v.queuedLifecycleId)

ViewerOK(v) ==
  /\ v \in Viewers /\ IsFiniteSet(v.expanded)
  /\ MarkIsOfTheSnapshot(v) /\ SelectionShown(v)
  /\ PollIsOfItsLifecycle(v) /\ QueuedPollMayBeMade(v)

\* The request a scope waits for was made after the one whose answer it shows.
RequestsFollow(h) ==
  \A s \in Scopes :
    /\ h.cache[s].response <= h.historyRequestId /\ h.active[s] <= h.historyRequestId
    /\ h.active[s] # 0 => h.cache[s].response < h.active[s]

HistoriesOK(h) == h \in Histories /\ RequestsFollow(h)

SpectatorsIInv ==
  /\ published \subseteq Snapshots /\ None \notin published
  /\ ViewerOK(viewer)
  /\ HistoriesOK(histories)

(***************************************************************************)
(* The viewer.                                                             *)
(***************************************************************************)
\* A poll that starts, or is queued, changes nothing on the screen.
SameScreen(v, w) ==
  /\ w.snapshot = v.snapshot /\ w.is_stale = v.is_stale
  /\ w.selected_agent_id = v.selected_agent_id /\ w.mobile_sheet_mode = v.mobile_sheet_mode
  /\ w.expanded = v.expanded

SameLifecycle(v, w) ==
  /\ w.pollingStarted = v.pollingStarted
  /\ w.currentPollingLifecycleId = v.currentPollingLifecycleId

LEMMA QueueFacts ==
  ASSUME NEW v, ViewerOK(v), NEW id \in Nat \cup {Manual}, MaySet(v, id)
  PROVE  /\ ViewerOK(queuePoll(v, id)) /\ SameScreen(v, queuePoll(v, id))
         /\ SameLifecycle(v, queuePoll(v, id)) /\ queuePoll(v, id).poll = v.poll
         /\ queuePoll(v, id).pollQueued
<1> DEFINE w == queuePoll(v, id)
<1>0. None \notin Int /\ Manual \in Int /\ Manual \notin Nat
  BY NoneAssumption DEF Manual
<1> DEFINE l == IF id # Manual THEN id
                ELSE IF v.pollingStarted THEN v.currentPollingLifecycleId ELSE None
           q == IF l = None THEN v.queuedLifecycleId ELSE l
           m == v.queuedManualPoll \/ l = None
<1>1. w \in Viewers
  <2>1. w = [v EXCEPT !.pollQueued = TRUE, !.queuedLifecycleId = q, !.queuedManualPoll = m]
    BY Zenon DEF queuePoll
  <2>2. q \in Nat \cup {None}
    BY DEF ViewerOK, Viewers
  <2>3. m \in BOOLEAN
    BY Zenon
  <2> HIDE DEF w, q, m
  <2> QED
    BY <2>1, <2>2, <2>3 DEF ViewerOK, Viewers
<1>2. /\ SameScreen(v, w) /\ SameLifecycle(v, w) /\ w.poll = v.poll /\ w.pollQueued
  BY DEF queuePoll, ViewerOK, Viewers, SameScreen, SameLifecycle
<1>3. QueuedPollMayBeMade(w)
  BY <1>0 DEF queuePoll, ViewerOK, Viewers, QueuedPollMayBeMade, isPollingLifecycleActive, MaySet
<1> QED
  BY <1>1, <1>2, <1>3 DEF ViewerOK, SameScreen, SameLifecycle, MarkIsOfTheSnapshot,
     SelectionShown, PollIsOfItsLifecycle

LEMMA PollFacts ==
  ASSUME NEW v, ViewerOK(v), NEW id \in Nat \cup {Manual}
  PROVE  /\ ViewerOK(pollSnapshot(v, id)) /\ SameScreen(v, pollSnapshot(v, id))
         /\ SameLifecycle(v, pollSnapshot(v, id))
         /\ v.pollQueued => pollSnapshot(v, id).pollQueued
         /\ v.poll # None => pollSnapshot(v, id).poll = v.poll
         /\ MaySet(v, id) /\ v.poll = None =>
              pollSnapshot(v, id).poll = [lifecycle |-> id, aborted |-> FALSE]
<1> DEFINE w == pollSnapshot(v, id)
           status == IF v.snapshot = None /\ v.snapshot_status # "incompatible"
                     THEN "loading" ELSE v.snapshot_status
           poll == [lifecycle |-> id, aborted |-> FALSE]
<1>0. None \notin Int /\ Manual \in Int /\ Manual \notin Nat
  BY NoneAssumption DEF Manual
<1>1. CASE ~MaySet(v, id)
  <2>1. w = v
    BY <1>1 DEF pollSnapshot
  <2> HIDE DEF w
  <2> QED
    BY <2>1, <1>1 DEF w, SameScreen, SameLifecycle
<1>2. CASE MaySet(v, id) /\ v.poll # None
  <2>1. w = queuePoll(v, id)
    BY <1>2 DEF pollSnapshot
  <2> HIDE DEF w
  <2> QED
    BY <2>1, <1>2, QueueFacts DEF w
<1>3. CASE MaySet(v, id) /\ v.poll = None
  <2>1. w = [v EXCEPT !.poll = poll, !.snapshot_status = status]
    BY <1>3, Zenon DEF pollSnapshot
  <2>2. poll \in Polls /\ poll.lifecycle = id /\ poll.aborted = FALSE
    BY DEF Polls
  <2>3. status \in Statuses
    BY DEF ViewerOK, Viewers, Statuses
  <2> HIDE DEF w, poll, status
  <2>4. w \in Viewers
    BY <2>1, <2>2, <2>3 DEF ViewerOK, Viewers
  <2>5. /\ SameScreen(v, w) /\ SameLifecycle(v, w) /\ w.poll = poll
        /\ w.pollQueued = v.pollQueued /\ w.queuedLifecycleId = v.queuedLifecycleId
        /\ w.queuedManualPoll = v.queuedManualPoll
    BY <2>1 DEF ViewerOK, Viewers, SameScreen, SameLifecycle
  <2>6. PollIsOfItsLifecycle(w)
    BY <2>2, <2>5, <1>0, <1>3 DEF PollIsOfItsLifecycle, SameLifecycle, MaySet,
       isPollingLifecycleActive, ViewerOK, Viewers
  <2>7. QueuedPollMayBeMade(w)
    BY <2>5 DEF QueuedPollMayBeMade, SameLifecycle, isPollingLifecycleActive, ViewerOK
  <2>8. ViewerOK(w)
    BY <2>4, <2>5, <2>6, <2>7 DEF ViewerOK, SameScreen, MarkIsOfTheSnapshot, SelectionShown
  <2> QED
    BY <2>5, <2>8, <1>3 DEF w, poll
<1> QED
  BY <1>1, <1>2, <1>3

\* When a poll ends, the one that was queued behind it is made, if any.
LEMMA EndFacts ==
  ASSUME NEW v, ViewerOK(v)
  PROVE  /\ ViewerOK(endPoll(v)) /\ SameScreen(v, endPoll(v)) /\ SameLifecycle(v, endPoll(v))
         /\ v.pollQueued => endPoll(v).poll # None /\ ~endPoll(v).poll.aborted
<1> DEFINE ended == [v EXCEPT !.poll = None, !.pollQueued = FALSE,
                              !.queuedLifecycleId = None, !.queuedManualPoll = FALSE]
           w == endPoll(v)
           id == v.queuedLifecycleId
<1>0. None \notin Int /\ Manual \in Int /\ Manual \notin Nat
  BY NoneAssumption DEF Manual
<1>1. /\ ended \in Viewers /\ SameScreen(v, ended) /\ SameLifecycle(v, ended)
      /\ ended.poll = None /\ ended.pollQueued = FALSE
  BY DEF ViewerOK, Viewers, SameScreen, SameLifecycle
<1>2. \/ w = ended /\ ~v.pollQueued
      \/ /\ id # None /\ isPollingLifecycleActive(v, id) /\ w = pollSnapshot(ended, id)
      \/ w = pollSnapshot(ended, Manual)
  BY Zenon DEF endPoll, ViewerOK, QueuedPollMayBeMade
<1> HIDE DEF ended, w
<1>3. ViewerOK(ended)
  BY <1>1 DEF ViewerOK, SameScreen, MarkIsOfTheSnapshot, SelectionShown,
     PollIsOfItsLifecycle, QueuedPollMayBeMade
<1>4. ASSUME NEW i \in Nat \cup {Manual}, MaySet(v, i), w = pollSnapshot(ended, i)
      PROVE  /\ ViewerOK(w) /\ SameScreen(v, w) /\ SameLifecycle(v, w)
             /\ w.poll # None /\ ~w.poll.aborted
  <2>1. MaySet(ended, i)
    BY <1>1, <1>4 DEF MaySet, isPollingLifecycleActive, SameLifecycle
  <2>2. /\ ViewerOK(w) /\ SameScreen(ended, w) /\ SameLifecycle(ended, w)
        /\ w.poll = [lifecycle |-> i, aborted |-> FALSE]
    BY <1>1, <1>3, <1>4, <2>1, PollFacts
  <2>3. w.poll \in [lifecycle : Int, aborted : BOOLEAN] /\ ~w.poll.aborted
    BY <2>2, <1>0
  <2> QED
    BY <2>2, <2>3, <1>1, SnapshotStoreAssumption DEF SameScreen, SameLifecycle
<1>5. CASE w = ended /\ ~v.pollQueued
  BY <1>5, <1>1, <1>3 DEF w
<1>6. CASE id # None /\ isPollingLifecycleActive(v, id) /\ w = pollSnapshot(ended, id)
  <2>1. id \in Nat
    BY <1>6 DEF ViewerOK, Viewers
  <2> HIDE DEF id
  <2> QED
    BY <2>1, <1>6, <1>4 DEF MaySet, w
<1>7. CASE w = pollSnapshot(ended, Manual)
  BY <1>7, <1>4 DEF MaySet, w
<1> QED
  BY <1>2, <1>5, <1>6, <1>7 DEF w

SamePolls(v, w) ==
  /\ SameLifecycle(v, w) /\ w.poll = v.poll /\ w.pollQueued = v.pollQueued
  /\ w.queuedLifecycleId = v.queuedLifecycleId /\ w.queuedManualPoll = v.queuedManualPoll

LEMMA SamePollsStay ==
  ASSUME NEW v, NEW w, ViewerOK(v), w \in Viewers, SamePolls(v, w)
  PROVE  PollIsOfItsLifecycle(w) /\ QueuedPollMayBeMade(w)
BY DEF SamePolls, SameLifecycle, ViewerOK, PollIsOfItsLifecycle, QueuedPollMayBeMade,
   isPollingLifecycleActive

NotOlder(v, w) ==
  v.snapshot # None => w.snapshot # None /\ compareSnapshotVersion(w.snapshot, v.snapshot) >= 0

LEMMA NotOlderSame ==
  ASSUME NEW v, NEW w, v \in Viewers, w.snapshot = v.snapshot
  PROVE  NotOlder(v, w)
BY DEF NotOlder, Viewers, Snapshots, compareSnapshotVersion

LEMMA StaleFacts ==
  ASSUME NEW v, v \in Viewers, NEW s
  PROVE  /\ applyStaleState(v, s) = [v EXCEPT !.is_stale = IsStale(s)]
         /\ applyStaleState(v, s) \in Viewers /\ SamePolls(v, applyStaleState(v, s))
         /\ applyStaleState(v, s).snapshot = v.snapshot
         /\ applyStaleState(v, s).is_stale = IsStale(s)
         /\ applyStaleState(v, s).selected_agent_id = v.selected_agent_id
         /\ applyStaleState(v, s).mobile_sheet_mode = v.mobile_sheet_mode
         /\ applyStaleState(v, s).expanded = v.expanded
<1> DEFINE stale == IsStale(s)
<1>1. applyStaleState(v, s) = [v EXCEPT !.is_stale = stale]
  BY Zenon DEF applyStaleState
<1>2. stale \in BOOLEAN
  BY Zenon DEF IsStale
<1> HIDE DEF stale
<1>3. /\ applyStaleState(v, s) \in Viewers /\ SamePolls(v, applyStaleState(v, s))
      /\ applyStaleState(v, s).snapshot = v.snapshot
      /\ applyStaleState(v, s).is_stale = stale
      /\ applyStaleState(v, s).selected_agent_id = v.selected_agent_id
      /\ applyStaleState(v, s).mobile_sheet_mode = v.mobile_sheet_mode
      /\ applyStaleState(v, s).expanded = v.expanded
  BY <1>1, <1>2 DEF Viewers, SamePolls, SameLifecycle
<1> QED
  BY <1>1, <1>3 DEF stale

\* The agent that is selected stays so when the snapshot shows it.
LEMMA ReconcileFacts ==
  ASSUME NEW v, v \in Viewers, NEW s \in Snapshots, s # None, v.snapshot = s,
         v.mobile_sheet_mode = "detail" <=> v.selected_agent_id # None
  PROVE  LET w == reconcileSelectionState(v, s)
         IN  /\ w \in Viewers /\ SamePolls(v, w) /\ SelectionShown(w)
             /\ w.snapshot = s /\ w.expanded = v.expanded
<1> DEFINE w == reconcileSelectionState(v, s)
           mode == IF v.mobile_sheet_mode = "detail" THEN "list" ELSE v.mobile_sheet_mode
<1>1. CASE v.selected_agent_id \in s.agents
  BY <1>1, SnapshotStoreAssumption DEF reconcileSelectionState, SamePolls, SameLifecycle,
     SelectionShown, Viewers, Snapshots
<1>2. CASE v.selected_agent_id \notin s.agents
  <2>1. w = [v EXCEPT !.selected_agent_id = None, !.mobile_sheet_mode = mode]
    BY <1>2, Zenon DEF reconcileSelectionState
  <2>2. mode = "list"
    BY DEF Viewers
  <2> HIDE DEF w, mode
  <2>3. w \in Viewers /\ SamePolls(v, w) /\ w.snapshot = s /\ w.expanded = v.expanded
    BY <2>1, <2>2 DEF Viewers, SamePolls, SameLifecycle
  <2>4. w.selected_agent_id = None /\ w.mobile_sheet_mode = "list"
    BY <2>1, <2>2 DEF Viewers
  <2> QED
    BY <2>3, <2>4 DEF SelectionShown, w
<1> QED
  BY <1>1, <1>2

\* A snapshot that arrives is shown unless it is older than the one shown.
LEMMA ShowFacts ==
  ASSUME NEW v, ViewerOK(v), NEW s \in Snapshots, s # None
  PROVE  /\ ViewerOK(showSnapshot(v, s)) /\ SamePolls(v, showSnapshot(v, s))
         /\ NotOlder(v, showSnapshot(v, s))
<1> DEFINE w == showSnapshot(v, s)
           ready == [v EXCEPT !.snapshot_status = "ready"]
           order == IF v.snapshot = None THEN 1 ELSE compareSnapshotVersion(s, v.snapshot)
           shown == [ready EXCEPT !.snapshot = s]
           chosen == reconcileSelectionState(shown, s)
<1>0. v \in Viewers
  BY DEF ViewerOK
<1>1. /\ ready \in Viewers /\ SamePolls(v, ready) /\ SameScreen(v, ready)
  BY DEF ViewerOK, Viewers, Statuses, SamePolls, SameLifecycle, SameScreen
<1>2. CASE order < 0
  <2>1. w = v
    BY <1>2, Zenon DEF showSnapshot
  <2> HIDE DEF w
  <2> QED
    BY <2>1, NotOlderSame, <1>0 DEF w, SamePolls, SameLifecycle
<1>3. CASE ~(order < 0) /\ order = 0
  <2>1. w = applyStaleState(ready, v.snapshot)
    BY <1>3, Zenon DEF showSnapshot
  <2>2. v.snapshot # None
    BY <1>3
  <2> HIDE DEF w, ready
  <2>3. /\ w \in Viewers /\ SamePolls(ready, w) /\ w.snapshot = ready.snapshot
        /\ w.is_stale = IsStale(v.snapshot)
        /\ w.selected_agent_id = ready.selected_agent_id
        /\ w.mobile_sheet_mode = ready.mobile_sheet_mode /\ w.expanded = ready.expanded
    BY <1>1, <2>1, StaleFacts
  <2>4. SamePolls(v, w) /\ SameScreen(v, w)
    BY <2>2, <2>3, <1>1 DEF SamePolls, SameLifecycle, SameScreen, ViewerOK, MarkIsOfTheSnapshot
  <2>5. ViewerOK(w)
    BY <2>3, <2>4, SamePollsStay DEF ViewerOK, SameScreen, MarkIsOfTheSnapshot, SelectionShown
  <2> QED
    BY <2>4, <2>5, NotOlderSame, <1>0 DEF w, SameScreen
<1>4. CASE ~(order < 0) /\ order # 0
  <2>1. w = applyStaleState(chosen, s)
    BY <1>4, Zenon DEF showSnapshot
  <2>2. shown \in Viewers /\ SamePolls(v, shown) /\ shown.snapshot = s
        /\ shown.expanded = v.expanded /\ shown.mobile_sheet_mode = v.mobile_sheet_mode
        /\ shown.selected_agent_id = v.selected_agent_id
    <3> HIDE DEF ready
    <3> QED
      BY <1>1 DEF Viewers, SamePolls, SameLifecycle, SameScreen
  <2>3. shown.mobile_sheet_mode = "detail" <=> shown.selected_agent_id # None
    BY <2>2 DEF ViewerOK, SelectionShown
  <2>4. NotOlder(v, shown)
    <3> HIDE DEF shown
    <3>1. CASE v.snapshot = None
      BY <3>1 DEF NotOlder
    <3>2. CASE v.snapshot # None
      <4>1. compareSnapshotVersion(s, v.snapshot) \in Int
        BY <3>2 DEF compareSnapshotVersion, ViewerOK, Viewers, Snapshots
      <4>2. compareSnapshotVersion(s, v.snapshot) >= 0
        BY <4>1, <3>2, <1>4
      <4> QED
        BY <4>2, <2>2 DEF NotOlder
    <3> QED
      BY <3>1, <3>2
  <2> HIDE DEF shown, w
  <2>5. /\ chosen \in Viewers /\ SamePolls(shown, chosen) /\ SelectionShown(chosen)
        /\ chosen.snapshot = s /\ chosen.expanded = shown.expanded
    BY <2>2, <2>3, ReconcileFacts
  <2> HIDE DEF chosen
  <2>6. /\ w \in Viewers /\ SamePolls(chosen, w) /\ w.snapshot = s
        /\ w.is_stale = IsStale(s)
        /\ w.selected_agent_id = chosen.selected_agent_id
        /\ w.mobile_sheet_mode = chosen.mobile_sheet_mode /\ w.expanded = chosen.expanded
    BY <2>1, <2>5, StaleFacts
  <2>7. SamePolls(v, w)
    BY <2>2, <2>5, <2>6 DEF SamePolls, SameLifecycle
  <2>8. ViewerOK(w)
    BY <2>2, <2>5, <2>6, <2>7, SamePollsStay DEF ViewerOK, MarkIsOfTheSnapshot, SelectionShown
  <2>9. NotOlder(v, w)
    BY <2>2, <2>4, <2>6 DEF NotOlder
  <2> QED
    BY <2>7, <2>8, <2>9 DEF w
<1> QED
  BY <1>2, <1>3, <1>4

\* An answer is shown only while the lifecycle of its poll goes on, or when the
\* user asked for it.
LEMMA AnswerFacts ==
  ASSUME NEW v, ViewerOK(v), v.poll # None, NEW s \in Snapshots, s # None
  PROVE  /\ ViewerOK(pollAnswered(v, s)) /\ SameLifecycle(v, pollAnswered(v, s))
         /\ NotOlder(v, pollAnswered(v, s))
         /\ v.pollQueued => pollAnswered(v, s).poll # None /\ ~pollAnswered(v, s).poll.aborted
         /\ ~MaySet(v, v.poll.lifecycle) => SameScreen(v, pollAnswered(v, s))
<1> DEFINE w == pollAnswered(v, s)
           shown == showSnapshot(v, s)
<1>0. v \in Viewers
  BY DEF ViewerOK
<1>1. CASE MaySet(v, v.poll.lifecycle)
  <2>1. w = endPoll(shown)
    BY <1>1, Zenon DEF pollAnswered
  <2>2. ViewerOK(shown) /\ SamePolls(v, shown) /\ NotOlder(v, shown)
    BY ShowFacts
  <2> HIDE DEF shown, w
  <2>3. /\ ViewerOK(w) /\ SameScreen(shown, w) /\ SameLifecycle(shown, w)
        /\ shown.pollQueued => w.poll # None /\ ~w.poll.aborted
    BY <2>1, <2>2, EndFacts
  <2> QED
    BY <2>2, <2>3, <1>1 DEF w, SamePolls, SameLifecycle, SameScreen, NotOlder
<1>2. CASE ~MaySet(v, v.poll.lifecycle)
  <2>1. w = endPoll(v)
    BY <1>2, Zenon DEF pollAnswered
  <2> HIDE DEF w
  <2>2. /\ ViewerOK(w) /\ SameScreen(v, w) /\ SameLifecycle(v, w)
        /\ v.pollQueued => w.poll # None /\ ~w.poll.aborted
    BY <2>1, EndFacts
  <2>3. NotOlder(v, w)
    BY <2>2, <1>0, NotOlderSame DEF SameScreen
  <2> QED
    BY <2>2, <2>3 DEF w
<1> QED
  BY <1>1, <1>2

LEMMA FailureFacts ==
  ASSUME NEW v, ViewerOK(v), NEW incompatible \in BOOLEAN
  PROVE  LET w == pollFailed(v, incompatible)
         IN  /\ ViewerOK(w) /\ SameLifecycle(v, w) /\ SameScreen(v, w)
             /\ v.pollQueued => w.poll # None /\ ~w.poll.aborted
<1> DEFINE w == pollFailed(v, incompatible)
           status == IF incompatible THEN "incompatible"
                     ELSE IF v.snapshot_status = "incompatible" THEN "incompatible" ELSE "error"
           failed == [v EXCEPT !.snapshot_status = status]
<1>1. w = endPoll(v) \/ w = endPoll(failed)
  BY Zenon DEF pollFailed
<1>2. status \in Statuses
  BY DEF Statuses
<1> HIDE DEF status
<1>3. failed \in Viewers /\ SamePolls(v, failed) /\ SameScreen(v, failed)
  BY <1>2 DEF ViewerOK, Viewers, SamePolls, SameLifecycle, SameScreen
<1> HIDE DEF failed, w
<1>4. ViewerOK(failed)
  BY <1>3, SamePollsStay DEF ViewerOK, SameScreen, MarkIsOfTheSnapshot, SelectionShown
<1> SUFFICES /\ ViewerOK(w) /\ SameLifecycle(v, w) /\ SameScreen(v, w)
             /\ v.pollQueued => w.poll # None /\ ~w.poll.aborted
  BY DEF w
<1>5. CASE w = endPoll(v)
  BY <1>5, EndFacts
<1>6. CASE w = endPoll(failed)
  <2>1. /\ ViewerOK(w) /\ SameLifecycle(failed, w) /\ SameScreen(failed, w)
        /\ failed.pollQueued => w.poll # None /\ ~w.poll.aborted
    BY <1>6, <1>4, EndFacts
  <2> QED
    BY <2>1, <1>3 DEF SamePolls, SameLifecycle, SameScreen
<1> QED
  BY <1>1, <1>5, <1>6

LEMMA StartFacts ==
  ASSUME NEW v, ViewerOK(v)
  PROVE  /\ ViewerOK(startPolling(v)) /\ SameScreen(v, startPolling(v))
         /\ v.pollQueued => startPolling(v).pollQueued
<1> DEFINE w == startPolling(v)
           id == v.currentPollingLifecycleId + 1
           started == [v EXCEPT !.pollingStarted = TRUE, !.currentPollingLifecycleId = id,
                                !.pollingInterval = id]
           marked == IF v.snapshot = None THEN started ELSE applyStaleState(started, v.snapshot)
<1> SUFFICES ViewerOK(w) /\ SameScreen(v, w) /\ (v.pollQueued => w.pollQueued)
  BY DEF w
<1>0. None \notin Int /\ id \in Nat /\ v.currentPollingLifecycleId < id
  BY NoneAssumption DEF ViewerOK, Viewers
<1>1. CASE v.pollingStarted
  BY <1>1 DEF startPolling, SameScreen
<1>2. CASE ~v.pollingStarted
  <2>1. w = pollSnapshot(marked, id)
    BY <1>2, Zenon DEF startPolling
  <2> HIDE DEF w, id
  <2>2. /\ started \in Viewers /\ SameScreen(v, started)
        /\ started.pollingStarted /\ started.currentPollingLifecycleId = id
        /\ started.poll = v.poll /\ started.pollQueued = v.pollQueued
        /\ started.queuedManualPoll = v.queuedManualPoll
    BY <1>0 DEF ViewerOK, Viewers, SameScreen
  <2> HIDE DEF started
  <2>3. /\ marked \in Viewers /\ SamePolls(started, marked) /\ SameScreen(started, marked)
    <3>1. CASE v.snapshot = None
      BY <3>1, <2>2 DEF SamePolls, SameLifecycle, SameScreen
    <3>2. CASE v.snapshot # None
      <4>1. marked = applyStaleState(started, v.snapshot)
        BY <3>2
      <4>2. started.is_stale = IsStale(v.snapshot)
        BY <3>2, <2>2 DEF SameScreen, ViewerOK, MarkIsOfTheSnapshot
      <4> HIDE DEF marked
      <4> DEFINE m == applyStaleState(started, v.snapshot)
      <4>3. /\ m \in Viewers /\ SamePolls(started, m) /\ m.snapshot = started.snapshot
            /\ m.is_stale = IsStale(v.snapshot)
            /\ m.selected_agent_id = started.selected_agent_id
            /\ m.mobile_sheet_mode = started.mobile_sheet_mode
            /\ m.expanded = started.expanded
        BY <2>2, StaleFacts
      <4>4. m.is_stale = started.is_stale
        BY <4>2, <4>3, Zenon
      <4> HIDE DEF m
      <4> QED
        BY <4>1, <4>3, <4>4 DEF SameScreen, m
    <3> QED
      BY <3>1, <3>2
  <2> HIDE DEF marked
  <2>4. SameScreen(v, marked) /\ marked.poll = v.poll /\ marked.pollQueued = v.pollQueued
    BY <2>2, <2>3 DEF SameScreen, SamePolls
  <2>5. marked.currentPollingLifecycleId = id /\ marked.queuedManualPoll = v.queuedManualPoll
    BY <2>2, <2>3 DEF SamePolls, SameLifecycle
  <2>6. PollIsOfItsLifecycle(marked)
    <3>1. v.poll # None /\ v.poll.lifecycle # Manual => v.poll.lifecycle \in Nat
      BY DEF ViewerOK, Viewers, Polls
    <3> QED
      BY <3>1, <2>4, <2>5, <1>0 DEF PollIsOfItsLifecycle, ViewerOK, Viewers
  <2>7. QueuedPollMayBeMade(marked)
    BY <1>2, <2>4, <2>5 DEF QueuedPollMayBeMade, isPollingLifecycleActive, ViewerOK
  <2>8. ViewerOK(marked)
    BY <2>3, <2>4, <2>6, <2>7 DEF ViewerOK, SameScreen, MarkIsOfTheSnapshot, SelectionShown
  <2>9. ViewerOK(w) /\ SameScreen(marked, w) /\ (marked.pollQueued => w.pollQueued)
    BY <2>1, <2>8, <1>0, PollFacts
  <2> QED
    BY <2>4, <2>9 DEF SameScreen
<1> QED
  BY <1>1, <1>2

LEMMA StopFacts ==
  ASSUME NEW v, ViewerOK(v)
  PROVE  /\ ViewerOK(stopPolling(v)) /\ SameScreen(v, stopPolling(v))
         /\ ~stopPolling(v).pollingStarted
<1> DEFINE w == stopPolling(v)
           poll == IF v.poll = None THEN None ELSE [v.poll EXCEPT !.aborted = TRUE]
           id == v.currentPollingLifecycleId + 1
<1> SUFFICES ViewerOK(w) /\ SameScreen(v, w) /\ ~w.pollingStarted
  BY DEF w
<1>1. w = [v EXCEPT !.pollingStarted = FALSE, !.currentPollingLifecycleId = id,
                    !.pollQueued = FALSE, !.queuedLifecycleId = None,
                    !.queuedManualPoll = FALSE, !.poll = poll, !.pollingInterval = None]
  BY Zenon DEF stopPolling
<1>2. id \in Nat /\ v.currentPollingLifecycleId < id
  BY DEF ViewerOK, Viewers
<1>3. poll \in Polls \cup {None} /\ (poll # None => v.poll # None /\ poll.lifecycle = v.poll.lifecycle)
  BY DEF ViewerOK, Viewers, Polls
<1> HIDE DEF w, poll, id
<1>4. w \in Viewers
  BY <1>1, <1>2, <1>3 DEF ViewerOK, Viewers
<1>5. /\ SameScreen(v, w) /\ ~w.pollingStarted /\ ~w.pollQueued
      /\ w.poll = poll /\ w.currentPollingLifecycleId = id
  BY <1>1 DEF ViewerOK, Viewers, SameScreen
<1>6. PollIsOfItsLifecycle(w)
  <2>1. poll # None /\ poll.lifecycle # Manual => poll.lifecycle \in Nat
    BY <1>3 DEF Polls
  <2> QED
    BY <2>1, <1>2, <1>3, <1>5 DEF PollIsOfItsLifecycle, ViewerOK, Viewers
<1> QED
  BY <1>4, <1>5, <1>6 DEF ViewerOK, SameScreen, MarkIsOfTheSnapshot, SelectionShown,
     QueuedPollMayBeMade

\* What the user does changes the selection, the sheet and what is expanded.
UserOnly(v, w) == SamePolls(v, w) /\ w.snapshot = v.snapshot /\ w.is_stale = v.is_stale

LEMMA UserOnlyIsOK ==
  ASSUME NEW v, NEW w, ViewerOK(v), w \in Viewers, UserOnly(v, w), SelectionShown(w),
         IsFiniteSet(w.expanded)
  PROVE  ViewerOK(w)
BY SamePollsStay DEF ViewerOK, UserOnly, MarkIsOfTheSnapshot

LEMMA SelectFacts ==
  ASSUME NEW v, ViewerOK(v), v.snapshot # None, NEW a \in v.snapshot.agents \cup {None}
  PROVE  ViewerOK(setSelectedAgentId(v, a)) /\ UserOnly(v, setSelectedAgentId(v, a))
<1> DEFINE w == setSelectedAgentId(v, a)
           mode == resolveMobileSheetModeOnSelection(a, v.mobile_sheet_mode)
<1>1. w = [v EXCEPT !.selected_agent_id = a, !.mobile_sheet_mode = mode]
  BY Zenon DEF setSelectedAgentId
<1>2. mode \in {"list", "detail"} /\ (mode = "detail" <=> a # None)
  BY DEF resolveMobileSheetModeOnSelection, ViewerOK, Viewers
<1>3. a \in ShownAgents \cup {None} /\ (a # None => a \in v.snapshot.agents)
  BY DEF ViewerOK, Viewers, Snapshots
<1> HIDE DEF w, mode
<1>4. /\ w \in Viewers /\ UserOnly(v, w) /\ w.expanded = v.expanded
      /\ w.selected_agent_id = a /\ w.mobile_sheet_mode = mode
  BY <1>1, <1>2, <1>3 DEF ViewerOK, Viewers, UserOnly, SamePolls, SameLifecycle
<1>5. SelectionShown(w) /\ IsFiniteSet(w.expanded)
  BY <1>2, <1>3, <1>4 DEF SelectionShown, ViewerOK, UserOnly
<1> QED
  BY <1>4, <1>5, UserOnlyIsOK DEF w

LEMMA SheetFacts ==
  ASSUME NEW v, ViewerOK(v), NEW mode \in {"list", "detail"}
  PROVE  ViewerOK(setMobileSheetMode(v, mode)) /\ UserOnly(v, setMobileSheetMode(v, mode))
<1> DEFINE w == setMobileSheetMode(v, mode)
           a == IF v.mobile_sheet_mode = "detail" /\ mode # "detail" THEN None
                ELSE v.selected_agent_id
<1>1. CASE mode = "detail" /\ v.selected_agent_id = None
  BY <1>1 DEF setMobileSheetMode, UserOnly, SamePolls, SameLifecycle
<1>2. CASE ~(mode = "detail" /\ v.selected_agent_id = None)
  <2>1. w = [v EXCEPT !.mobile_sheet_mode = mode, !.selected_agent_id = a]
    BY <1>2, Zenon DEF setMobileSheetMode
  <2>2. /\ a \in ShownAgents \cup {None} /\ (mode = "detail" <=> a # None)
        /\ a # None => a = v.selected_agent_id
    BY <1>2 DEF ViewerOK, Viewers, SelectionShown
  <2> HIDE DEF w, a
  <2>3. /\ w \in Viewers /\ UserOnly(v, w) /\ w.expanded = v.expanded
        /\ w.selected_agent_id = a /\ w.mobile_sheet_mode = mode
    BY <2>1, <2>2 DEF ViewerOK, Viewers, UserOnly, SamePolls, SameLifecycle
  <2>4. SelectionShown(w) /\ IsFiniteSet(w.expanded)
    BY <2>2, <2>3 DEF SelectionShown, ViewerOK, UserOnly
  <2> QED
    BY <2>3, <2>4, UserOnlyIsOK DEF w
<1> QED
  BY <1>1, <1>2

LEMMA ToggleFacts ==
  ASSUME NEW v, ViewerOK(v), NEW c \in ShownConversations
  PROVE  /\ ViewerOK(toggleConversationExpanded(v, c))
         /\ UserOnly(v, toggleConversationExpanded(v, c))
<1> DEFINE w == toggleConversationExpanded(v, c)
           toggled == IF c \in v.expanded THEN v.expanded \ {c} ELSE v.expanded \cup {c}
<1>1. w = [v EXCEPT !.expanded = toggled]
  BY Zenon DEF toggleConversationExpanded
<1>2. toggled \in SUBSET ShownConversations
  BY DEF ViewerOK, Viewers
<1>3. IsFiniteSet(toggled)
  BY FS_AddElement, FS_RemoveElement DEF ViewerOK
<1> HIDE DEF w, toggled
<1>4. /\ w \in Viewers /\ UserOnly(v, w) /\ w.expanded = toggled
      /\ w.selected_agent_id = v.selected_agent_id /\ w.mobile_sheet_mode = v.mobile_sheet_mode
  BY <1>1, <1>2 DEF ViewerOK, Viewers, UserOnly, SamePolls, SameLifecycle
<1>5. SelectionShown(w) /\ IsFiniteSet(w.expanded)
  BY <1>3, <1>4 DEF SelectionShown, ViewerOK, UserOnly
<1> QED
  BY <1>4, <1>5, UserOnlyIsOK DEF w

(***************************************************************************)
(* The histories.                                                          *)
(***************************************************************************)
NeverBack(h, g) == \A s \in Scopes : g.cache[s].response >= h.cache[s].response

LEMMA NeverBackSame ==
  ASSUME NEW h, NEW g, h \in Histories, g.cache = h.cache
  PROVE  NeverBack(h, g)
BY DEF NeverBack, Histories

\* One request more for each of some scopes, with numbers beyond the last one.
Requested(h, g, scopes, ids, last) ==
  /\ g \in Histories /\ g.historyRequestId = last
  /\ \A s \in Scopes :
       /\ g.active[s] = IF s \in scopes THEN ids[s] ELSE h.active[s]
       /\ g.cache[s].response = h.cache[s].response

LEMMA RequestedIsOK ==
  ASSUME NEW h, NEW g, NEW scopes, NEW ids, NEW last \in Nat, HistoriesOK(h),
         Requested(h, g, scopes, ids, last), h.historyRequestId <= last,
         \A s \in scopes : ids[s] \in h.historyRequestId + 1 .. last
  PROVE  HistoriesOK(g) /\ NeverBack(h, g)
<1>1. ASSUME NEW s \in Scopes
      PROVE  /\ g.cache[s].response <= g.historyRequestId /\ g.active[s] <= g.historyRequestId
             /\ g.active[s] # 0 => g.cache[s].response < g.active[s]
             /\ g.cache[s].response >= h.cache[s].response
  <2>1. /\ h.cache[s].response \in Nat /\ h.active[s] \in Nat /\ h.historyRequestId \in Nat
        /\ h.cache[s].response <= h.historyRequestId /\ h.active[s] <= h.historyRequestId
        /\ h.active[s] # 0 => h.cache[s].response < h.active[s]
    BY DEF HistoriesOK, Histories, RequestsFollow
  <2>2. /\ g.active[s] = IF s \in scopes THEN ids[s] ELSE h.active[s]
        /\ g.cache[s].response = h.cache[s].response /\ g.historyRequestId = last
    BY DEF Requested
  <2>3. CASE s \in scopes
    <3>1. ids[s] \in Int /\ h.historyRequestId + 1 <= ids[s] /\ ids[s] <= last
      BY <2>1, <2>3
    <3> QED
      BY <2>1, <2>2, <2>3, <3>1
  <2>4. CASE s \notin scopes
    BY <2>1, <2>2, <2>4
  <2> QED
    BY <2>3, <2>4
<1> QED
  BY <1>1 DEF HistoriesOK, RequestsFollow, NeverBack, Requested

LEMMA FetchFacts ==
  ASSUME NEW h, HistoriesOK(h), NEW s \in Scopes
  PROVE  HistoriesOK(fetchHistory(h, s)) /\ NeverBack(h, fetchHistory(h, s))
<1> DEFINE id == h.historyRequestId + 1
           g == fetchHistory(h, s)
           active == [h.active EXCEPT ![s] = id]
           cache == [h.cache EXCEPT ![s] = [h.cache[s] EXCEPT !.status = "loading"]]
           requested == h.sent \cup {[scope |-> s, id |-> id]}
<1>1. g = [h EXCEPT !.historyRequestId = id, !.active = active, !.sent = requested, !.cache = cache]
  BY DEF fetchHistory, HistoriesOK, Histories
<1>2. id \in Nat /\ h.historyRequestId <= id /\ id # 0
  BY DEF HistoriesOK, Histories
<1>3. cache \in [Scopes -> [status : Statuses, response : Nat]]
  BY DEF HistoriesOK, Histories, Statuses
<1>4. \A t \in Scopes : cache[t].response = h.cache[t].response
  BY DEF HistoriesOK, Histories
<1>5. active \in [Scopes -> Nat] /\ requested \in SUBSET [scope : Scopes, id : Nat \ {0}]
  BY <1>2 DEF HistoriesOK, Histories
<1>6. \A t \in Scopes : active[t] = IF t \in {s} THEN [x \in {s} |-> id][t] ELSE h.active[t]
  BY DEF HistoriesOK, Histories
<1>7. \A t \in {s} : [x \in {s} |-> id][t] \in h.historyRequestId + 1 .. id
  BY <1>2
<1> HIDE DEF g, active, cache, requested, id
<1>8. g \in Histories /\ g.historyRequestId = id /\ g.active = active /\ g.cache = cache
  BY <1>1, <1>2, <1>3, <1>5 DEF HistoriesOK, Histories
<1>9. Requested(h, g, {s}, [x \in {s} |-> id], id)
  BY <1>4, <1>6, <1>8 DEF Requested
<1> QED
  BY <1>2, <1>7, <1>9, RequestedIsOK DEF g

LEMMA HistoryAnswerFacts ==
  ASSUME NEW h, HistoriesOK(h), NEW r \in h.sent, NEW ok \in BOOLEAN
  PROVE  HistoriesOK(historyAnswered(h, r, ok)) /\ NeverBack(h, historyAnswered(h, r, ok))
<1> DEFINE settled == [h EXCEPT !.sent = @ \ {r}]
           g == historyAnswered(h, r, ok)
           entry == [status |-> IF ok THEN "ready" ELSE "error",
                     response |-> IF ok THEN r.id ELSE h.cache[r.scope].response]
           active == [h.active EXCEPT ![r.scope] = 0]
           cache == [h.cache EXCEPT ![r.scope] = entry]
           requested == h.sent \ {r}
<1>1. r.scope \in Scopes /\ r.id \in Nat \ {0}
  BY DEF HistoriesOK, Histories
<1>2. /\ settled \in Histories /\ settled.cache = h.cache /\ settled.active = h.active
      /\ settled.historyRequestId = h.historyRequestId /\ settled.sent = requested
  BY DEF HistoriesOK, Histories
<1>3. CASE h.active[r.scope] # r.id
  <2>1. g = settled
    BY <1>3, Zenon DEF historyAnswered
  <2> HIDE DEF settled, g
  <2> QED
    BY <1>2, <2>1, NeverBackSame DEF g, HistoriesOK, RequestsFollow
<1>4. CASE h.active[r.scope] = r.id
  <2>1. g = showHistory(settled, r, ok)
    BY <1>4, Zenon DEF historyAnswered
  <2>2. g = [settled EXCEPT !.active = active, !.cache = cache]
    <3> HIDE DEF settled, requested
    <3> QED
      BY <2>1, <1>1, <1>2 DEF showHistory, Histories
  <2>3. /\ h.cache[r.scope].response \in Nat
        /\ h.cache[r.scope].response < r.id /\ r.id <= h.historyRequestId
    BY <1>1, <1>4 DEF HistoriesOK, Histories, RequestsFollow
  <2>4. /\ entry \in [status : Statuses, response : Nat]
        /\ entry.response >= h.cache[r.scope].response
        /\ entry.response <= h.historyRequestId
    BY <1>1, <2>3 DEF Statuses, HistoriesOK, Histories
  <2> HIDE DEF entry
  <2>5. /\ active \in [Scopes -> Nat] /\ cache \in [Scopes -> [status : Statuses, response : Nat]]
        /\ \A t \in Scopes :
             /\ active[t] = IF t = r.scope THEN 0 ELSE h.active[t]
             /\ cache[t] = IF t = r.scope THEN entry ELSE h.cache[t]
    BY <2>4 DEF HistoriesOK, Histories
  <2> HIDE DEF settled, g, active, cache
  <2>6. /\ g \in Histories /\ g.active = active /\ g.cache = cache
        /\ g.historyRequestId = h.historyRequestId
    BY <1>2, <2>2, <2>5 DEF Histories
  <2>7. RequestsFollow(g)
    BY <2>4, <2>5, <2>6 DEF RequestsFollow, HistoriesOK, Histories
  <2>8. NeverBack(h, g)
    BY <2>4, <2>5, <2>6 DEF NeverBack, HistoriesOK, Histories
  <2> QED
    BY <2>6, <2>7, <2>8 DEF HistoriesOK, g
<1> QED
  BY <1>3, <1>4

LEMMA AbortFacts ==
  ASSUME NEW h, HistoriesOK(h)
  PROVE  HistoriesOK(abortAllHistoryRequests(h)) /\ NeverBack(h, abortAllHistoryRequests(h))
<1> DEFINE g == abortAllHistoryRequests(h)
           active == [s \in Scopes |-> 0]
<1>1. g = [h EXCEPT !.active = active]
  BY Zenon DEF abortAllHistoryRequests
<1>2. active \in [Scopes -> Nat] /\ \A s \in Scopes : active[s] = 0
  OBVIOUS
<1> HIDE DEF g, active
<1>3. /\ g \in Histories /\ g.active = active /\ g.cache = h.cache
      /\ g.historyRequestId = h.historyRequestId
  BY <1>1, <1>2 DEF HistoriesOK, Histories
<1>4. RequestsFollow(g)
  BY <1>2, <1>3 DEF HistoriesOK, Histories, RequestsFollow
<1> QED
  BY <1>3, <1>4, NeverBackSame DEF g, HistoriesOK

\* There are as many numbers as scopes in view.
LEMMA RequestIdsExist ==
  ASSUME NEW h, h.historyRequestId \in Nat, NEW scopes, IsFiniteSet(scopes)
  PROVE  /\ Cardinality(scopes) \in Nat
         /\ RequestIds(h, scopes) \in
              [scopes -> h.historyRequestId + 1 .. h.historyRequestId + Cardinality(scopes)]
<1> DEFINE n == Cardinality(scopes)
           k == h.historyRequestId
<1>1. n \in Nat /\ ExistsBijection(1 .. n, scopes)
  BY FS_CardinalityType
<1>2. PICK f \in [1 .. n -> scopes] :
        \A s \in scopes : \E i \in 1 .. n : f[i] = s
  BY <1>1, Zenon DEF ExistsBijection, Bijection, Injection, Surjection
<1> HIDE DEF n, k
<1> DEFINE g == [s \in scopes |-> k + CHOOSE i \in 1 .. n : f[i] = s]
<1>3. \A s \in scopes : /\ (CHOOSE i \in 1 .. n : f[i] = s) \in 1 .. n
                       /\ f[CHOOSE i \in 1 .. n : f[i] = s] = s
  BY <1>2
<1> DEFINE at(s) == CHOOSE i \in 1 .. n : f[i] = s
<1> HIDE DEF at
<1>4. \A s \in scopes : at(s) \in 1 .. n /\ f[at(s)] = s /\ k + at(s) \in k + 1 .. k + n
  BY <1>1, <1>3 DEF at, k
<1>5. g = [s \in scopes |-> k + at(s)]
  BY DEF at
<1> HIDE DEF g
<1>6. g \in [scopes -> k + 1 .. k + n]
  BY <1>4, <1>5
<1>7. ASSUME NEW s \in scopes, NEW t \in scopes, g[s] = g[t]
      PROVE  s = t
  <2>1. k + at(s) = k + at(t)
    BY <1>5, <1>7
  <2>2. at(s) = at(t)
    BY <1>4, <2>1 DEF k
  <2> QED
    BY <1>4, <2>2
<1>8. \E ids \in [scopes -> k + 1 .. k + n] : \A s, t \in scopes : ids[s] = ids[t] => s = t
  BY <1>6, <1>7
<1>9. RequestIds(h, scopes) \in [scopes -> k + 1 .. k + n]
  BY <1>8, Zenon DEF RequestIds, k, n
<1> QED
  BY <1>1, <1>9 DEF k, n

LEMMA RefreshFacts ==
  ASSUME NEW v, v.expanded \in SUBSET ShownConversations, IsFiniteSet(v.expanded),
         NEW h, HistoriesOK(h)
  PROVE  /\ HistoriesOK(refreshActiveHistoryScopes(v, h))
         /\ NeverBack(h, refreshActiveHistoryScopes(v, h))
<1> DEFINE scopes == ActiveScopes(v)
           ids == RequestIds(h, scopes)
           g == refreshActiveHistoryScopes(v, h)
           last == h.historyRequestId + Cardinality(scopes)
           active == [s \in Scopes |-> IF s \in scopes THEN ids[s] ELSE h.active[s]]
           requested == h.sent \cup {[scope |-> s, id |-> ids[s]] : s \in scopes}
           cache == [s \in Scopes |-> IF s \in scopes
                                      THEN [h.cache[s] EXCEPT !.status = "loading"]
                                      ELSE h.cache[s]]
<1>1. g = [h EXCEPT !.historyRequestId = last, !.active = active, !.sent = requested, !.cache = cache]
  BY Zenon DEF refreshActiveHistoryScopes
<1>2. scopes \subseteq Scopes
  BY DEF ActiveScopes, Scopes
<1>3. IsFiniteSet(scopes)
  <2>1. IsFiniteSet({v.selected_agent_id})
    BY FS_Singleton
  <2>2. IsFiniteSet({v.selected_agent_id} \cap ShownAgents)
    BY <2>1, FS_Intersection
  <2> QED
    BY <2>2, FS_Union DEF ActiveScopes
<1>4. h \in Histories /\ h.historyRequestId \in Nat
  BY DEF HistoriesOK, Histories
<1> HIDE DEF scopes
<1>5. /\ Cardinality(scopes) \in Nat
      /\ ids \in [scopes -> h.historyRequestId + 1 .. h.historyRequestId + Cardinality(scopes)]
  BY <1>3, <1>4, RequestIdsExist
<1>6. last \in Nat /\ h.historyRequestId <= last
  BY <1>4, <1>5
<1> HIDE DEF ids
<1>7. \A s \in scopes : ids[s] \in h.historyRequestId + 1 .. last
  BY <1>5
<1>8. \A s \in scopes : ids[s] \in Nat \ {0}
  BY <1>4, <1>6, <1>7
<1> HIDE DEF last
<1>9. active \in [Scopes -> Nat]
  BY <1>4, <1>8 DEF Histories
<1>10. requested \in SUBSET [scope : Scopes, id : Nat \ {0}]
  BY <1>2, <1>4, <1>8 DEF Histories
<1>11. /\ cache \in [Scopes -> [status : Statuses, response : Nat]]
       /\ \A s \in Scopes : cache[s].response = h.cache[s].response
  BY <1>4 DEF Histories, Statuses
<1>12. \A s \in Scopes : active[s] = IF s \in scopes THEN ids[s] ELSE h.active[s]
  OBVIOUS
<1> HIDE DEF g, active, requested, cache
<1>13. g \in Histories /\ g.historyRequestId = last /\ g.active = active /\ g.cache = cache
  BY <1>1, <1>4, <1>6, <1>9, <1>10, <1>11 DEF Histories
<1>14. Requested(h, g, scopes, ids, last)
  BY <1>11, <1>12, <1>13 DEF Requested
<1> QED
  BY <1>6, <1>7, <1>14, RequestedIsOK DEF g

(***************************************************************************)
(* The invariant is inductive.                                             *)
(***************************************************************************)
LEMMA SpectatorsInit == InitSpectators => SpectatorsIInv
<1> SUFFICES ASSUME InitSpectators PROVE SpectatorsIInv
  OBVIOUS
<1>1. viewer \in Viewers /\ viewer.expanded = {}
  BY DEF InitSpectators, newViewer, Viewers, Statuses
<1>2. IsFiniteSet(viewer.expanded)
  BY <1>1, FS_EmptySet
<1>3. MarkIsOfTheSnapshot(viewer) /\ SelectionShown(viewer)
  BY DEF InitSpectators, newViewer, MarkIsOfTheSnapshot, SelectionShown
<1>4. PollIsOfItsLifecycle(viewer) /\ QueuedPollMayBeMade(viewer)
  BY DEF InitSpectators, newViewer, PollIsOfItsLifecycle, QueuedPollMayBeMade
<1>5. HistoriesOK(histories)
  BY DEF InitSpectators, noHistories, HistoriesOK, Histories, RequestsFollow, Statuses
<1> QED
  BY <1>1, <1>2, <1>3, <1>4, <1>5 DEF SpectatorsIInv, ViewerOK, InitSpectators

\* What a step may do to the screen, and to a poll that is queued.
NoPollGoesOn(v) ==
  ~v.queuedManualPoll /\ (v.poll # None => v.poll.lifecycle # Manual /\ v.poll.aborted)

ViewerStep(v, w) ==
  /\ ViewerOK(w) /\ NotOlder(v, w)
  /\ NoPollGoesOn(v) => w.snapshot = v.snapshot /\ w.is_stale = v.is_stale
  /\ v.pollQueued /\ ~w.pollQueued => (w.poll # None /\ ~w.poll.aborted) \/ ~w.pollingStarted

LEMMA SameScreenSteps ==
  ASSUME NEW v, NEW w, ViewerOK(v), ViewerOK(w), w.snapshot = v.snapshot, w.is_stale = v.is_stale,
         \/ v.pollQueued => w.pollQueued
         \/ v.pollQueued => w.poll # None /\ ~w.poll.aborted
         \/ ~w.pollingStarted
  PROVE  ViewerStep(v, w)
BY NotOlderSame DEF ViewerStep, ViewerOK

LEMMA AnswerSteps ==
  ASSUME NEW v, ViewerOK(v), v.poll # None, NEW s \in Snapshots, s # None
  PROVE  ViewerStep(v, pollAnswered(v, s))
<1> DEFINE w == pollAnswered(v, s)
<1>1. /\ ViewerOK(w) /\ NotOlder(v, w)
      /\ v.pollQueued => w.poll # None /\ ~w.poll.aborted
      /\ ~MaySet(v, v.poll.lifecycle) => SameScreen(v, w)
  BY AnswerFacts
<1>2. ASSUME NoPollGoesOn(v) PROVE ~MaySet(v, v.poll.lifecycle)
  <2>1. v.poll.lifecycle \in Nat /\ v.poll.lifecycle # Manual
    BY <1>2 DEF NoPollGoesOn, ViewerOK, Viewers, Polls
  <2>2. v.poll.lifecycle < v.currentPollingLifecycleId
    BY <1>2, <2>1 DEF NoPollGoesOn, ViewerOK, PollIsOfItsLifecycle
  <2> QED
    BY <2>1, <2>2 DEF MaySet, isPollingLifecycleActive, ViewerOK, Viewers
<1> HIDE DEF w
<1>3. ViewerStep(v, w)
  BY <1>1, <1>2 DEF ViewerStep, SameScreen
<1> QED
  BY <1>3 DEF w

SpectatorStep ==
  /\ ViewerStep(viewer, viewer')
  /\ HistoriesOK(histories') /\ NeverBack(histories, histories')

LEMMA SpectatorSteps ==
  SpectatorsIInv /\ [SpectatorsNext]_spectatorVars =>
    SpectatorStep /\ published' \subseteq Snapshots /\ None \notin published'
<1> SUFFICES ASSUME SpectatorsIInv, [SpectatorsNext]_spectatorVars
             PROVE  SpectatorStep /\ published' \subseteq Snapshots /\ None \notin published'
  OBVIOUS
<1> USE DEF SpectatorsIInv
<1>0. /\ ViewerOK(viewer) /\ HistoriesOK(histories)
      /\ viewer \in Viewers /\ histories \in Histories
  BY DEF ViewerOK, HistoriesOK
<1>1. viewer' = viewer => ViewerStep(viewer, viewer')
  BY <1>0, SameScreenSteps
<1>2. histories' = histories => HistoriesOK(histories') /\ NeverBack(histories, histories')
  BY <1>0, NeverBackSame
<1>3. CASE ObjectIsPublished
  <2>1. object' \in Snapshots /\ object' # None
    <3>1. 1 .. MaxVersions \subseteq Nat
      BY SpectatorBounds
    <3>2. object' \in [generated_at : 1 .. MaxVersions, published_at : 1 .. MaxVersions,
                       last_publish_error_at : {0}, agents : SUBSET ShownAgents]
      BY <1>3, Zenon DEF ObjectIsPublished
    <3> QED
      BY <1>3, <3>1, <3>2 DEF ObjectIsPublished, Published, Snapshots
  <2>2. published' = published \cup {object'} /\ viewer' = viewer /\ histories' = histories
    BY <1>3 DEF ObjectIsPublished
  <2> QED
    BY <2>1, <2>2, <1>1, <1>2 DEF SpectatorStep
<1>4. CASE PollingStarts
  <2>1. viewer' = startPolling(viewer) /\ UNCHANGED <<published, histories>>
    BY <1>4 DEF PollingStarts, ViewerBecomes
  <2> QED
    BY <2>1, <1>0, <1>2, StartFacts, SameScreenSteps DEF SpectatorStep, SameScreen
<1>5. CASE PollingStops
  <2>1. /\ viewer' = stopPolling(viewer) /\ UNCHANGED published
        /\ histories' = abortAllHistoryRequests(histories)
    BY <1>5 DEF PollingStops
  <2> QED
    BY <2>1, <1>0, AbortFacts, StopFacts, SameScreenSteps DEF SpectatorStep, SameScreen
<1>6. CASE IntervalFires \/ PollIsAskedFor
  <2>1. PICK id \in Nat \cup {Manual} :
          viewer' = pollSnapshot(viewer, id) /\ UNCHANGED <<published, histories>>
    BY <1>0, <1>6 DEF IntervalFires, PollIsAskedFor, ViewerBecomes, Viewers
  <2>2. ViewerStep(viewer, viewer')
    BY <2>1, <1>0, PollFacts, SameScreenSteps DEF SameScreen
  <2> QED
    BY <2>1, <2>2, <1>2 DEF SpectatorStep
<1>7. CASE PollIsAnswered
  <2>1. PICK s \in published :
          /\ viewer.poll # None /\ viewer' = pollAnswered(viewer, s) /\ UNCHANGED published
          /\ \/ histories' = refreshActiveHistoryScopes(viewer', histories)
             \/ histories' = histories
    BY <1>7, Zenon DEF PollIsAnswered
  <2>2. ViewerStep(viewer, viewer')
    BY <2>1, <1>0, AnswerSteps
  <2>3. viewer'.expanded \in SUBSET ShownConversations /\ IsFiniteSet(viewer'.expanded)
    BY <2>2 DEF ViewerStep, ViewerOK, Viewers
  <2>4. HistoriesOK(histories') /\ NeverBack(histories, histories')
    BY <2>1, <2>3, <1>0, <1>2, RefreshFacts
  <2> QED
    BY <2>1, <2>2, <2>4 DEF SpectatorStep
<1>8. CASE PollFails
  <2>1. PICK incompatible \in BOOLEAN :
          viewer' = pollFailed(viewer, incompatible) /\ UNCHANGED <<published, histories>>
    BY <1>8, Zenon DEF PollFails, ViewerBecomes
  <2>2. ViewerStep(viewer, viewer')
    BY <2>1, <1>0, FailureFacts, SameScreenSteps DEF SameScreen
  <2> QED
    BY <2>1, <2>2, <1>2 DEF SpectatorStep
<1>9. CASE AgentIsSelected \/ SheetIsMoved \/ ConversationIsToggled
  <2>1. ViewerOK(viewer') /\ UserOnly(viewer, viewer') /\ UNCHANGED <<published, histories>>
    <3>1. CASE AgentIsSelected
      BY <3>1, <1>0, SelectFacts DEF AgentIsSelected, ViewerBecomes
    <3>2. CASE SheetIsMoved
      BY <3>2, <1>0, SheetFacts DEF SheetIsMoved, ViewerBecomes
    <3>3. CASE ConversationIsToggled
      BY <3>3, <1>0, ToggleFacts DEF ConversationIsToggled, ViewerBecomes
    <3> QED
      BY <1>9, <3>1, <3>2, <3>3
  <2>2. ViewerStep(viewer, viewer')
    BY <2>1, <1>0, SameScreenSteps DEF UserOnly, SamePolls
  <2> QED
    BY <2>1, <2>2, <1>2 DEF SpectatorStep
<1>10. CASE HistoryIsFetched
  <2>1. PICK s \in ActiveScopes(viewer) :
          histories' = fetchHistory(histories, s) /\ UNCHANGED <<published, viewer>>
    BY <1>10, Zenon DEF HistoryIsFetched
  <2>2. s \in Scopes
    BY <1>0 DEF ActiveScopes, Scopes, Viewers
  <2> QED
    BY <2>1, <2>2, <1>0, <1>1, FetchFacts DEF SpectatorStep
<1>11. CASE HistoryIsAnswered
  <2>1. PICK r \in histories.sent, ok \in BOOLEAN :
          histories' = historyAnswered(histories, r, ok) /\ UNCHANGED <<published, viewer>>
    BY <1>11, Zenon DEF HistoryIsAnswered
  <2> QED
    BY <2>1, <1>0, <1>1, HistoryAnswerFacts DEF SpectatorStep
<1>12. CASE UNCHANGED spectatorVars
  BY <1>1, <1>2, <1>12 DEF SpectatorStep, spectatorVars
<1> QED
  BY <1>3, <1>4, <1>5, <1>6, <1>7, <1>8, <1>9, <1>10, <1>11, <1>12 DEF SpectatorsNext

\* The inductive invariant, for every number of agents, conversations, versions
\* of the object, polls and requests.
THEOREM SpectatorsInvariant == SpectatorsSpec => []SpectatorsIInv
<1>1. SpectatorsIInv /\ [SpectatorsNext]_spectatorVars => SpectatorsIInv'
  BY SpectatorSteps DEF SpectatorStep, ViewerStep, SpectatorsIInv
<1> QED
  BY <1>1, SpectatorsInit, PTL DEF SpectatorsSpec

\* The agent that is selected is always one of the snapshot on the screen,
\* whatever worlds the polls bring, and its detail sheet is open just then.
THEOREM SelectionAlwaysOnScreen == SpectatorsSpec => []SelectionIsOnScreen
<1>1. SpectatorsIInv => SelectionIsOnScreen
  BY DEF SpectatorsIInv, ViewerOK, SelectionShown, SelectionIsOnScreen
<1> QED
  BY <1>1, SpectatorsInvariant, PTL

\* Whatever versions caches and the network answer with, and in whatever order
\* polling is stopped and started, the screen never shows an older world.
THEOREM ScreenGoesForward == SpectatorsSpec => ScreenNeverGoesBack
<1>1. SpectatorsIInv /\ [SpectatorsNext]_spectatorVars =>
        [viewer.snapshot # None =>
           viewer'.snapshot # None
           /\ compareSnapshotVersion(viewer'.snapshot, viewer.snapshot) >= 0]_spectatorVars
  BY SpectatorSteps DEF SpectatorStep, ViewerStep, NotOlder
<1> QED
  BY <1>1, SpectatorsInvariant, PTL DEF SpectatorsSpec, ScreenNeverGoesBack

\* The late answer to a poll of a lifecycle that was stopped changes nothing
\* on the screen, also when polling has been started again since.
THEOREM StoppedPollsAreDropped == SpectatorsSpec => StoppedScreenStays
<1>1. SpectatorsIInv /\ [SpectatorsNext]_spectatorVars =>
        [/\ ~ManualPolling
         /\ viewer.poll # None => viewer.poll.aborted
         => viewer'.snapshot = viewer.snapshot /\ viewer'.is_stale = viewer.is_stale]_spectatorVars
  BY SpectatorSteps DEF SpectatorStep, ViewerStep, NoPollGoesOn, ManualPolling
<1> QED
  BY <1>1, SpectatorsInvariant, PTL DEF SpectatorsSpec, StoppedScreenStays

\* A poll that is queued is made as soon as the one before it has ended, unless
\* polling was stopped meanwhile.
THEOREM QueuedPollsAreMade == SpectatorsSpec => QueuedPollsFollow
<1>1. SpectatorsIInv /\ [SpectatorsNext]_spectatorVars =>
        [viewer.pollQueued /\ ~viewer'.pollQueued =>
           (viewer'.poll # None /\ ~viewer'.poll.aborted) \/ ~viewer'.pollingStarted]_spectatorVars
  BY SpectatorSteps DEF SpectatorStep, ViewerStep
<1> QED
  BY <1>1, SpectatorsInvariant, PTL DEF SpectatorsSpec, QueuedPollsFollow

\* Of the answers to the requests for a history, in whatever order they come,
\* an earlier one never replaces a later one.
THEOREM HistoriesGoForward == SpectatorsSpec => HistoriesInOrder
<1>1. SpectatorsIInv /\ [SpectatorsNext]_spectatorVars =>
        [\A s \in Scopes :
           histories'.cache[s].response >= histories.cache[s].response]_spectatorVars
  BY SpectatorSteps DEF SpectatorStep, NeverBack
<1> QED
  BY <1>1, SpectatorsInvariant, PTL DEF SpectatorsSpec, HistoriesInOrder

(***************************************************************************)
(* Histories: the documents.                                               *)
(***************************************************************************)
\* What Stored says, of any set of entries.
Since(entries, e) == {f \in entries : ListOf(f) = ListOf(e) /\ f.event_id >= e.event_id}

StoredIn(e, entries) ==
  Cardinality(Since(entries, e)) >= IF e \in entries THEN 1 ELSE DocumentLimit

LEMMA StoredIsIn ==
  ASSUME NEW e, NEW d
  PROVE  Stored(e, d) <=> StoredIn(e, documents[d])
BY Zenon DEF Stored, StoredIn, Since

\* Finitely many entries with numbers up to n.
Numbered(entries, n) ==
  IsFiniteSet(entries) /\ \A e \in entries : e.event_id \in Nat /\ e.event_id <= n

\* Some of several entries is the newest.
LEMMA NewestExists ==
  ASSUME NEW n \in Nat, NEW entries, Numbered(entries, n), entries # {}
  PROVE  \E e \in entries : \A f \in entries : f.event_id <= e.event_id
<1> DEFINE S == {n - e.event_id : e \in entries}
<1>1. S \in SUBSET Nat /\ S # {}
  BY DEF Numbered
<1>2. PICK m \in S : \A k \in S : m <= k
  <2> HIDE DEF S
  <2>1. PICK k \in S : TRUE
    BY <1>1
  <2> QED
    BY <1>1, <2>1, LeastOf
<1>3. PICK e \in entries : m = n - e.event_id
  BY <1>2
<1>4. ASSUME NEW f \in entries PROVE f.event_id <= e.event_id
  <2>1. n - e.event_id <= n - f.event_id
    BY <1>2, <1>3
  <2> QED
    BY <2>1 DEF Numbered
<1> QED
  BY <1>4

\* What is stored stays so when newer entries are merged in, and what is merged in
\* is stored: what NewestOf leaves out has been pushed out by newer entries.
LEMMA NewestAreStored ==
  ASSUME NEW n \in Nat, NEW X, Numbered(X, n), NEW e, e.event_id \in Nat,
         e \in X \/ Cardinality(Since(X, e)) >= DocumentLimit
  PROVE  StoredIn(e, NewestOf(X))
<1> DEFINE K == NewestOf(X)
           Y == Since(X, e)
           After(f) == {g \in X : ListOf(g) = ListOf(f) /\ g.event_id > f.event_id}
<1>0. DocumentLimit \in Nat /\ 1 <= DocumentLimit
  BY DocumentLimitAssumption
<1>1. K \subseteq X /\ \A f \in X \ K : ~(Cardinality(After(f)) < DocumentLimit)
  BY Zenon DEF NewestOf
<1>2. IsFiniteSet(K) /\ IsFiniteSet(Y) /\ IsFiniteSet(Since(K, e))
  <2>1. Y \subseteq X /\ Since(K, e) \subseteq X
    BY <1>1 DEF Since
  <2> QED
    BY <1>1, <2>1, FS_Subset DEF Numbered
<1>3. \A f \in X : After(f) \subseteq X /\ IsFiniteSet(After(f)) /\ Cardinality(After(f)) \in Nat
  BY FS_Subset, FS_CardinalityType DEF Numbered
<1>4. \A f \in X \ K : Cardinality(After(f)) >= DocumentLimit
  <2> HIDE DEF After, K
  <2> QED
    BY <1>0, <1>1, <1>3
<1> HIDE DEF K, Y
<1>5. CASE e \in K
  <2>1. e \in Since(K, e)
    BY <1>5 DEF Since
  <2>2. Cardinality({e}) = 1 /\ {e} \subseteq Since(K, e)
    BY <2>1, FS_Singleton
  <2>3. Cardinality({e}) <= Cardinality(Since(K, e))
    BY <1>2, <2>2, FS_Subset
  <2> QED
    BY <1>5, <2>2, <2>3 DEF StoredIn, K
<1>6. CASE e \notin K
  <2>1. Cardinality(Since(K, e)) \in Nat
    BY <1>2, FS_CardinalityType
  <2>2. Cardinality(Y) \in Nat /\ Cardinality(Y) >= DocumentLimit
    <3>1. CASE e \in X
      <4>1. After(e) \subseteq Y
        BY DEF Since, Numbered, Y
      <4>2. Cardinality(After(e)) <= Cardinality(Y) /\ Cardinality(Y) \in Nat
        BY <1>2, <4>1, FS_Subset, FS_CardinalityType
      <4>3. Cardinality(After(e)) >= DocumentLimit /\ Cardinality(After(e)) \in Nat
        BY <1>3, <1>4, <1>6, <3>1
      <4> HIDE DEF After
      <4> QED
        BY <4>2, <4>3, <1>0
    <3>2. CASE e \notin X
      BY <3>2, <1>2, FS_CardinalityType DEF Y
    <3> QED
      BY <3>1, <3>2
  <2>3. Cardinality(Since(K, e)) >= DocumentLimit
    <3>1. CASE Y \subseteq K
      <4>1. Y \subseteq Since(K, e)
        BY <3>1 DEF Y, Since
      <4>2. Cardinality(Y) <= Cardinality(Since(K, e))
        BY <1>2, <4>1, FS_Subset
      <4> QED
        BY <2>1, <2>2, <4>2, <1>0
    <3>2. CASE ~(Y \subseteq K)
      <4>1. Numbered(Y \ K, n) /\ Y \ K # {}
        <5>1. Y \ K \subseteq X
          BY DEF Y, Since
        <5>2. IsFiniteSet(Y \ K)
          BY <5>1, FS_Subset DEF Numbered
        <5> QED
          BY <5>1, <5>2, <3>2 DEF Numbered
      <4>2. PICK y \in Y \ K : \A f \in Y \ K : f.event_id <= y.event_id
        BY <4>1, NewestExists
      <4>3. y \in X /\ ListOf(y) = ListOf(e) /\ y.event_id >= e.event_id /\ y.event_id \in Nat
        BY <4>2 DEF Y, Since, Numbered
      <4>4. ASSUME NEW z \in After(y) PROVE z \in Since(K, e)
        <5>1. z \in X /\ ListOf(z) = ListOf(y) /\ z.event_id > y.event_id /\ z.event_id \in Nat
          BY <4>4 DEF Numbered
        <5>2. z.event_id >= e.event_id
          BY <5>1, <4>3
        <5>3. z \in Y
          BY <5>1, <5>2, <4>3 DEF Y, Since
        <5>4. z \in K
          BY <5>1, <5>3, <4>2, <4>3
        <5> QED
          BY <5>1, <5>2, <5>4, <4>3 DEF Since
      <4>5. Cardinality(After(y)) <= Cardinality(Since(K, e))
        BY <4>4, <1>2, FS_Subset
      <4>6. Cardinality(After(y)) >= DocumentLimit /\ Cardinality(After(y)) \in Nat
        BY <4>2, <4>3, <1>3, <1>4
      <4> HIDE DEF After
      <4> QED
        BY <4>5, <4>6, <2>1, <1>0
    <3> QED
      BY <3>1, <3>2
  <2> QED
    BY <1>6, <2>3 DEF StoredIn, K
<1> QED
  BY <1>5, <1>6

LEMMA MergeKeeps ==
  ASSUME NEW n \in Nat, NEW X, NEW N, Numbered(X \cup N, n), NEW e, e.event_id \in Nat,
         e \in N \/ StoredIn(e, X)
  PROVE  StoredIn(e, mergeHistoryEntryList(X, N))
<1>1. e \in X \cup N \/ Cardinality(Since(X \cup N, e)) >= DocumentLimit
  <2>1. CASE e \in X \cup N
    BY <2>1
  <2>2. CASE e \notin X \cup N
    <3>1. Cardinality(Since(X, e)) >= DocumentLimit
      BY <2>2 DEF StoredIn
    <3>2. Since(X, e) \subseteq Since(X \cup N, e) /\ Since(X \cup N, e) \subseteq X \cup N
      BY DEF Since
    <3>3. IsFiniteSet(Since(X \cup N, e)) /\ IsFiniteSet(Since(X, e))
      BY <3>2, FS_Subset DEF Numbered
    <3>4. Cardinality(Since(X, e)) <= Cardinality(Since(X \cup N, e))
      BY <3>2, <3>3, FS_Subset
    <3>5. Cardinality(Since(X, e)) \in Nat /\ Cardinality(Since(X \cup N, e)) \in Nat
      BY <3>3, FS_CardinalityType
    <3> QED
      BY <3>1, <3>4, <3>5, DocumentLimitAssumption
  <2> QED
    BY <2>1, <2>2
<1> QED
  BY <1>1, NewestAreStored DEF mergeHistoryEntryList

(***************************************************************************)
(* The inductive invariant of the histories.                               *)
(***************************************************************************)
Entries(R) ==
  /\ R \subseteq HistoryEntry /\ IsFiniteSet(R)
  /\ \A e \in R : e.event_id <= Cardinality(R)
  /\ \A e, f \in R : e.event_id = f.event_id => e = f

Posts(R) == [agent_id : Agents, events : SUBSET R]
Callers == {"server", "nobody"}

Managers(R) ==
  [pending : [Agents -> SUBSET R], flushTimer : BOOLEAN,
   flush : [running : BOOLEAN, post : Posts(R) \cup {None}, left : SUBSET Posts(R),
            hadFailure : BOOLEAN, newer : BOOLEAN],
   consecutiveFailures : Nat, gaveUp : BOOLEAN, disposed : BOOLEAN]

Calls(R) == [post : Posts(R), by : Callers]

Operations(R) ==
  [post : Posts(R), by : Callers, left : SUBSET Documents, at : Documents \cup {None},
   current : SUBSET R]

\* The posts of a flush that the manager has no answer to.
Unanswered(flush) == flush.left \cup ({flush.post} \ {None})

OnePerAgent(batch) == \A p, q \in batch : p.agent_id = q.agent_id => p = q

\* The posts carry all that is buffered, no more and no less.
Carries(batch, h) ==
  /\ \A p \in batch : h.pending[p.agent_id] = p.events
  /\ \A a \in Buffering(h) : \E p \in batch : p.agent_id = a

\* While a flush has met no failure and no new entry, its posts carry what is
\* buffered: when they are answered nothing is.
Flushing(h) ==
  /\ OnePerAgent(Unanswered(h.flush)) /\ h.flush.post \notin h.flush.left
  /\ h.flush.post = None => h.flush.left = {}
  /\ h.flush.running /\ ~h.flush.hadFailure /\ ~h.flush.newer =>
       Carries(Unanswered(h.flush), h)

\* The timer is set for a flush that has something to post.
Scheduled(h) ==
  /\ ~h.flush.running => h.flush = noFlush
  /\ h.flush.running => h.flush.post # None \/ h.disposed
  /\ h.flushTimer => ~h.flush.running /\ ~h.disposed /\ Buffering(h) # {}
  /\ Buffering(h) # {} /\ ~h.gaveUp /\ ~h.disposed => h.flushTimer \/ h.flush.running

Waits(x) == x.by = "server"

\* One post at most is awaited, on its way to the relay or an operation there.
OneIsAwaited(h, calls, ops) ==
  /\ \A c \in calls : Waits(c) =>
       /\ c.post = h.flush.post
       /\ \A i \in DOMAIN ops : ~Waits(ops[i])
  /\ \A i \in DOMAIN ops : Waits(ops[i]) =>
       /\ ops[i].post = h.flush.post
       /\ \A j \in DOMAIN ops : Waits(ops[j]) => i = j

PostingInOrder(R, h, calls, ops) ==
  /\ h \in Managers(R) /\ Flushing(h) /\ Scheduled(h)
  /\ calls \subseteq Calls(R) /\ OneIsAwaited(h, calls, ops)

\* What an operation has left to do, and what it has read, which nobody else
\* changes before it writes.
InProgress(o, i, docs) ==
  /\ \A d \in documentsOf(o.post) \ o.left : \A e \in entriesFor(o.post, d) : StoredIn(e, docs[d])
  /\ o.left \subseteq documentsOf(o.post)
  /\ o.at # None => i = 1 /\ o.at \in o.left /\ o.current = docs[o.at]

Writing(R, ops, docs) ==
  /\ ops \in Seq(Operations(R)) /\ docs \in [Documents -> SUBSET R]
  /\ \A i \in DOMAIN ops : InProgress(ops[i], i, docs)

HistoryIInv ==
  /\ Entries(recorded)
  /\ PostingInOrder(recorded, history, coming, operations)
  /\ Writing(recorded, operations, documents)
  /\ RecordedIsKept

(***************************************************************************)
(* The manager.                                                            *)
(***************************************************************************)
LEMMA NoFlushIsFlush ==
  ASSUME NEW R
  PROVE  /\ noFlush \in [running : BOOLEAN, post : Posts(R) \cup {None}, left : SUBSET Posts(R),
                         hadFailure : BOOLEAN, newer : BOOLEAN]
         /\ noFlush.running = FALSE /\ noFlush.post = None /\ noFlush.left = {}
BY DEF noFlush

\* What a manager that has a post to make, or none any more, is left with.
ToPost(g) ==
  IF g.flush.left = {} THEN Flushing(g) /\ Scheduled(g)
  ELSE /\ g.flush.running /\ ~g.flushTimer /\ OnePerAgent(g.flush.left)
       /\ ~g.flush.hadFailure /\ ~g.flush.newer => Carries(g.flush.left, g)

LEMMA EndFlushFacts ==
  ASSUME NEW R, NEW h \in Managers(R), ~h.flushTimer,
         ~h.flush.hadFailure /\ ~h.flush.newer => Buffering(h) = {}
  PROVE  /\ endFlush(h) \in Managers(R) /\ endFlush(h).pending = h.pending
         /\ endFlush(h).disposed = h.disposed /\ endFlush(h).flush = noFlush
         /\ Buffering(h) = {} => ~endFlush(h).flushTimer
         /\ Flushing(endFlush(h)) /\ Scheduled(endFlush(h))
<1> DEFINE failures == IF h.flush.hadFailure THEN h.consecutiveFailures + 1 ELSE 0
           gave == h.gaveUp \/ failures >= HistoryAttempts
           ended == [h EXCEPT !.flush = noFlush, !.consecutiveFailures = failures,
                              !.gaveUp = gave]
           again == h.flush.hadFailure \/ h.flush.newer
           more == ~ended.disposed /\ Buffering(ended) # {} /\ ~ended.gaveUp /\ again
           g == endFlush(h)
<1>1. g = IF more THEN scheduleFlush(ended) ELSE ended
  BY Zenon DEF endFlush, endFlushAnd
<1>2. failures \in Nat
  BY DEF Managers
<1>3. gave \in BOOLEAN
  BY Zenon
<1> HIDE DEF failures, gave
<1>4. /\ ended \in Managers(R) /\ ended.pending = h.pending /\ ended.disposed = h.disposed
      /\ ended.flush = noFlush /\ ended.flushTimer = h.flushTimer
  BY <1>2, <1>3, NoFlushIsFlush DEF Managers
<1> HIDE DEF ended
<1>5. Buffering(ended) = Buffering(h)
  BY <1>4 DEF Buffering
<1>6. CASE more
  <2>1. g = [ended EXCEPT !.flushTimer = TRUE]
    BY <1>1, <1>4, <1>6, NoFlushIsFlush, Zenon DEF scheduleFlush
  <2>2. /\ g \in Managers(R) /\ g.pending = h.pending /\ g.disposed = h.disposed
        /\ g.flush = noFlush /\ g.flushTimer
    BY <1>4, <2>1 DEF Managers
  <2>3. Buffering(g) = Buffering(h)
    BY <2>2 DEF Buffering
  <2> HIDE DEF g
  <2> QED
    BY <1>4, <1>5, <1>6, <2>2, <2>3, NoFlushIsFlush DEF Flushing, Scheduled, OnePerAgent, Unanswered, g
<1>7. CASE ~more
  <2>1. g = ended
    BY <1>1, <1>7
  <2> HIDE DEF g
  <2>2. Buffering(g) # {} /\ ~g.gaveUp /\ ~g.disposed => FALSE
    BY <2>1, <1>5, <1>7
  <2> QED
    BY <1>4, <1>5, <2>1, <2>2, NoFlushIsFlush DEF Flushing, Scheduled, OnePerAgent, Unanswered, g
<1> QED
  BY <1>6, <1>7

LEMMA NextPostFacts ==
  ASSUME NEW R, NEW h \in Managers(R), h.flush.running, ~h.flushTimer, OnePerAgent(h.flush.left),
         ~h.flush.hadFailure /\ ~h.flush.newer => Carries(h.flush.left, h)
  PROVE  nextPost(h) \in Managers(R) /\ nextPost(h).pending = h.pending /\ ToPost(nextPost(h))
<1>1. CASE h.flush.left = {}
  <2>1. ~h.flush.hadFailure /\ ~h.flush.newer => Buffering(h) = {}
    BY <1>1 DEF Carries
  <2> DEFINE g == endFlush(h)
  <2>2. /\ g \in Managers(R) /\ g.pending = h.pending /\ g.flush = noFlush
        /\ Flushing(g) /\ Scheduled(g)
    BY <2>1, EndFlushFacts
  <2> HIDE DEF g
  <2>3. nextPost(h) = g
    BY <1>1 DEF nextPost, g
  <2> QED
    BY <2>2, <2>3, NoFlushIsFlush DEF ToPost
<1>2. CASE h.flush.left # {}
  <2>1. nextPost(h) = h
    BY <1>2 DEF nextPost
  <2> QED
    BY <1>2, <2>1 DEF ToPost
<1> QED
  BY <1>1, <1>2

LEMMA FlushFacts ==
  ASSUME NEW R, NEW h \in Managers(R), h.flush = noFlush, ~h.flushTimer,
         h.disposed \/ Buffering(h) # {}
  PROVE  /\ flushPending(h) \in Managers(R) /\ flushPending(h).pending = h.pending
         /\ ToPost(flushPending(h))
<1> DEFINE g == flushPending(h)
           toPost == {[agent_id |-> a, events |-> h.pending[a]] : a \in Buffering(h)}
           flush == [noFlush EXCEPT !.running = TRUE, !.left = toPost]
           stuck == [noFlush EXCEPT !.running = TRUE]
           ended == endFlush(h)
<1>1. CASE Buffering(h) = {}
  <2>1. /\ ended \in Managers(R) /\ ended.pending = h.pending /\ ended.disposed = h.disposed
        /\ ended.flush = noFlush /\ ~ended.flushTimer
    BY <1>1, EndFlushFacts
  <2> HIDE DEF ended
  <2>2. g = [ended EXCEPT !.flush = [ended.flush EXCEPT !.running = TRUE]]
    BY <1>1, <2>1 DEF flushPending, ended, Managers
  <2>3. g = [ended EXCEPT !.flush = stuck]
    BY <2>1, <2>2
  <2>4. /\ stuck \in [running : BOOLEAN, post : Posts(R) \cup {None}, left : SUBSET Posts(R),
                     hadFailure : BOOLEAN, newer : BOOLEAN]
        /\ stuck.running /\ stuck.post = None /\ stuck.left = {}
    BY DEF noFlush
  <2> HIDE DEF g, stuck
  <2>5. /\ g \in Managers(R) /\ g.pending = h.pending /\ g.disposed = h.disposed
        /\ g.flush = stuck /\ ~g.flushTimer
    BY <2>1, <2>3, <2>4 DEF Managers
  <2>6. Buffering(g) = {}
    BY <1>1, <2>5 DEF Buffering
  <2>7. Flushing(g)
    BY <2>4, <2>5, <2>6 DEF Flushing, Unanswered, OnePerAgent, Carries
  <2>8. Scheduled(g)
    BY <1>1, <2>4, <2>5, <2>6 DEF Scheduled
  <2> QED
    BY <2>4, <2>5, <2>7, <2>8 DEF ToPost, g
<1>2. CASE Buffering(h) # {}
  <2>1. g = [h EXCEPT !.flush = flush]
    BY <1>2, Zenon DEF flushPending
  <2>2. toPost \in SUBSET Posts(R) /\ toPost # {}
    <3>1. \A a \in Buffering(h) : [agent_id |-> a, events |-> h.pending[a]] \in Posts(R)
      BY DEF Managers, Posts, Buffering
    <3> QED
      BY <1>2, <3>1
  <2>3. /\ OnePerAgent(toPost)
        /\ \A p \in toPost : h.pending[p.agent_id] = p.events
        /\ \A a \in Buffering(h) : \E p \in toPost : p.agent_id = a
    <3>1. ASSUME NEW p \in toPost
          PROVE  p = [agent_id |-> p.agent_id, events |-> h.pending[p.agent_id]]
      OBVIOUS
    <3>2. \A p \in toPost : h.pending[p.agent_id] = p.events
      BY <3>1
    <3>3. OnePerAgent(toPost)
      <4> HIDE DEF toPost
      <4> QED
        BY <3>1 DEF OnePerAgent
    <3>4. ASSUME NEW a \in Buffering(h) PROVE \E p \in toPost : p.agent_id = a
      <4>1. [agent_id |-> a, events |-> h.pending[a]] \in toPost
        OBVIOUS
      <4> HIDE DEF toPost
      <4> QED
        BY <4>1
    <3> QED
      BY <3>2, <3>3, <3>4
  <2> HIDE DEF toPost
  <2>4. /\ flush \in [running : BOOLEAN, post : Posts(R) \cup {None}, left : SUBSET Posts(R),
                     hadFailure : BOOLEAN, newer : BOOLEAN]
        /\ flush.running /\ flush.left = toPost
    BY <2>2 DEF noFlush
  <2> HIDE DEF g, flush
  <2>5. /\ g \in Managers(R) /\ g.pending = h.pending /\ g.flush = flush /\ ~g.flushTimer
    BY <2>1, <2>4 DEF Managers
  <2>6. Carries(toPost, g)
    BY <2>3, <2>5 DEF Carries, Buffering
  <2> QED
    BY <2>2, <2>3, <2>4, <2>5, <2>6 DEF ToPost, g
<1> QED
  BY <1>1, <1>2

LEMMA FireFacts ==
  ASSUME NEW R, NEW h \in Managers(R), h.flushTimer, Scheduled(h)
  PROVE  /\ fireFlushTimer(h) \in Managers(R) /\ fireFlushTimer(h).pending = h.pending
         /\ ToPost(fireFlushTimer(h))
<1> DEFINE fired == [h EXCEPT !.flushTimer = FALSE]
<1>1. ~h.flush.running /\ h.flush = noFlush /\ Buffering(h) # {}
  BY DEF Scheduled
<1>2. fireFlushTimer(h) = flushPending(fired)
  BY <1>1, Zenon DEF fireFlushTimer
<1>3. fired \in Managers(R) /\ fired.flush = h.flush /\ fired.pending = h.pending /\ ~fired.flushTimer
  BY DEF Managers
<1> HIDE DEF fired
<1>4. Buffering(fired) # {}
  BY <1>1, <1>3 DEF Buffering
<1> QED
  BY <1>1, <1>2, <1>3, <1>4, FlushFacts

LEMMA DisposeFacts ==
  ASSUME NEW R, NEW h \in Managers(R), Flushing(h), Scheduled(h)
  PROVE  /\ disposeHistory(h) \in Managers(R) /\ disposeHistory(h).pending = h.pending
         /\ h.flush.running => /\ disposeHistory(h).flush = h.flush
                              /\ Flushing(disposeHistory(h)) /\ Scheduled(disposeHistory(h))
         /\ ~h.flush.running => ToPost(disposeHistory(h))
<1> DEFINE disposed == [h EXCEPT !.disposed = TRUE, !.flushTimer = FALSE]
<1>1. /\ disposed \in Managers(R) /\ disposed.flush = h.flush /\ disposed.pending = h.pending
      /\ ~disposed.flushTimer /\ disposed.disposed
  BY DEF Managers
<1>2. disposeHistory(h) = IF h.flush.running THEN disposed ELSE flushPending(disposed)
  BY Zenon DEF disposeHistory
<1> HIDE DEF disposed
<1>3. Buffering(disposed) = Buffering(h)
  BY <1>1 DEF Buffering
<1>4. CASE h.flush.running
  <2>1. Flushing(disposed) /\ Scheduled(disposed)
    BY <1>1, <1>3, <1>4 DEF Flushing, Scheduled, Carries
  <2> QED
    BY <1>1, <1>2, <1>4, <2>1
<1>5. CASE ~h.flush.running
  <2>1. disposed.flush = noFlush
    BY <1>1, <1>5 DEF Scheduled
  <2> QED
    BY <1>1, <1>2, <1>5, <2>1, FlushFacts
<1> QED
  BY <1>4, <1>5

LEMMA FailedFacts ==
  ASSUME NEW R, NEW h \in Managers(R), Flushing(h), Scheduled(h), h.flush.post # None
  PROVE  /\ flushFailed(h) \in Managers(R) /\ flushFailed(h).pending = h.pending
         /\ ToPost(flushFailed(h))
<1> DEFINE flush == [h.flush EXCEPT !.hadFailure = TRUE]
           failed == [h EXCEPT !.flush = flush]
<1>1. flushFailed(h) = nextPost(failed)
  BY DEF flushFailed, Managers
<1>2. h.flush.running /\ ~h.flushTimer
  BY NoFlushIsFlush DEF Scheduled
<1>3. /\ flush \in [running : BOOLEAN, post : Posts(R) \cup {None}, left : SUBSET Posts(R),
                   hadFailure : BOOLEAN, newer : BOOLEAN]
      /\ flush.running /\ flush.left = h.flush.left /\ flush.hadFailure
  BY <1>2 DEF Managers
<1> HIDE DEF flush
<1>4. failed \in Managers(R) /\ failed.pending = h.pending /\ failed.flush = flush /\ ~failed.flushTimer
  BY <1>2, <1>3 DEF Managers
<1>5. OnePerAgent(h.flush.left)
  BY DEF Flushing, OnePerAgent, Unanswered
<1> HIDE DEF failed
<1> QED
  BY <1>1, <1>3, <1>4, <1>5, NextPostFacts

\* What an accepted post carried leaves the buffer of its agent, and no more.
LEMMA AcceptedFacts ==
  ASSUME NEW R, Entries(R), NEW h \in Managers(R), Flushing(h), Scheduled(h), h.flush.post # None
  PROVE  /\ flushAccepted(h) \in Managers(R) /\ ToPost(flushAccepted(h))
         /\ \A a \in Agents : flushAccepted(h).pending[a] =
              IF a = h.flush.post.agent_id THEN h.pending[a] \ h.flush.post.events ELSE h.pending[a]
<1> DEFINE posted == h.flush.post
           ids == {e.event_id : e \in posted.events}
           rest == {e \in h.pending[posted.agent_id] : e.event_id \notin ids}
           pending == [h.pending EXCEPT ![posted.agent_id] = rest]
           taken == [h EXCEPT !.pending = pending]
<1>0. h.flush.running /\ ~h.flushTimer
  BY NoFlushIsFlush DEF Scheduled
<1>1. posted \in Posts(R) /\ posted.agent_id \in Agents /\ posted.events \subseteq R
  BY DEF Managers, Posts
<1>2. flushAccepted(h) = nextPost(taken)
  BY DEF flushAccepted, Managers
<1>3. rest = h.pending[posted.agent_id] \ posted.events
  BY <1>1 DEF Entries, Managers
<1> HIDE DEF rest
<1>4. /\ pending \in [Agents -> SUBSET R]
      /\ \A a \in Agents : pending[a] =
           IF a = posted.agent_id THEN h.pending[a] \ posted.events ELSE h.pending[a]
  BY <1>1, <1>3 DEF Managers
<1> HIDE DEF pending
<1>5. taken \in Managers(R) /\ taken.pending = pending /\ taken.flush = h.flush /\ ~taken.flushTimer
  BY <1>0, <1>4 DEF Managers
<1>6. OnePerAgent(h.flush.left)
  BY DEF Flushing, OnePerAgent, Unanswered
<1> HIDE DEF taken
<1>7. ASSUME ~h.flush.hadFailure, ~h.flush.newer PROVE Carries(h.flush.left, taken)
  <2>1. Carries(Unanswered(h.flush), h)
    BY <1>0, <1>7 DEF Flushing
  <2>2. posted \in Unanswered(h.flush) /\ posted \notin h.flush.left
    BY DEF Unanswered, Flushing
  <2>3. ASSUME NEW p \in h.flush.left PROVE p.agent_id # posted.agent_id /\ p.agent_id \in Agents
    <3>1. p \in Posts(R)
      BY DEF Managers
    <3> QED
      BY <2>2, <3>1 DEF Flushing, OnePerAgent, Unanswered, Posts
  <2>4. ASSUME NEW p \in h.flush.left PROVE taken.pending[p.agent_id] = p.events
    BY <2>1, <2>3, <1>4, <1>5 DEF Carries, Unanswered
  <2>5. ASSUME NEW a \in Buffering(taken) PROVE \E p \in h.flush.left : p.agent_id = a
    <3>1. a \in Agents /\ pending[a] # {}
      BY <1>5 DEF Buffering
    <3>2. h.pending[posted.agent_id] = posted.events
      BY <2>1, <2>2 DEF Carries
    <3>3. a # posted.agent_id /\ h.pending[a] # {}
      BY <3>1, <3>2, <1>4
    <3>4. PICK p \in Unanswered(h.flush) : p.agent_id = a
      BY <2>1, <3>1, <3>3 DEF Carries, Buffering
    <3> QED
      BY <3>3, <3>4 DEF Unanswered
  <2> QED
    BY <2>4, <2>5 DEF Carries
<1> QED
  BY <1>0, <1>2, <1>4, <1>5, <1>6, <1>7, NextPostFacts

\* A new entry is buffered for each of its agents; what a full buffer drops is
\* older.
LEMMA RecordFacts ==
  ASSUME NEW R, NEW h \in Managers(R), Flushing(h), Scheduled(h), NEW entry, ~h.disposed,
         Entries(R \cup {entry}), entry.agent_ids \subseteq Agents, entry.agent_ids # {},
         \A f \in R : f.event_id <= entry.event_id
  PROVE  /\ recordEvent(h, entry) \in Managers(R \cup {entry})
         /\ Flushing(recordEvent(h, entry)) /\ Scheduled(recordEvent(h, entry))
         /\ recordEvent(h, entry).flush.post = h.flush.post
         /\ \A a \in entry.agent_ids : entry \in recordEvent(h, entry).pending[a]
<1> DEFINE S == R \cup {entry}
           g == recordEvent(h, entry)
           pending == addPending(h.pending, entry)
           failures == IF h.gaveUp THEN 0 ELSE h.consecutiveFailures
           flush == [h.flush EXCEPT !.newer = h.flush.running]
           r == [h EXCEPT !.gaveUp = FALSE, !.consecutiveFailures = failures,
                          !.flush = flush, !.pending = pending]
<1>1. g = scheduleFlush(r)
  BY DEF recordEvent, Managers
<1>2. pending \in [Agents -> SUBSET S]
  BY DEF addPending, NewestEntries, Managers
<1>3. ASSUME NEW a \in entry.agent_ids PROVE a \in Agents /\ entry \in pending[a]
  <2>1. \A f \in h.pending[a] \cup {entry} : f.event_id \in Nat /\ entry.event_id \in Nat
                                             /\ f.event_id <= entry.event_id
    BY DEF Entries, HistoryEntry, Managers
  <2>2. {f \in h.pending[a] \cup {entry} : f.event_id > entry.event_id} = {}
    BY <2>1
  <2>3. Cardinality({f \in h.pending[a] \cup {entry} : f.event_id > entry.event_id}) < MaxBuffered
    <3>1. Cardinality({}) < MaxBuffered
      BY FS_EmptySet, HistoryAssumption
    <3> QED
      BY <2>2, <3>1, Zenon
  <2>4. entry \in NewestEntries(h.pending[a] \cup {entry})
    BY <2>3, Zenon DEF NewestEntries
  <2> QED
    BY <2>4 DEF addPending
<1> HIDE DEF pending
<1>4. failures \in Nat
  BY DEF Managers
<1>5. Posts(R) \subseteq Posts(S)
  BY DEF Posts
<1>6. /\ flush \in [running : BOOLEAN, post : Posts(S) \cup {None}, left : SUBSET Posts(S),
                   hadFailure : BOOLEAN, newer : BOOLEAN]
      /\ flush.post = h.flush.post /\ flush.left = h.flush.left
      /\ flush.running = h.flush.running /\ flush.newer = h.flush.running
  BY <1>5 DEF Managers
<1>7. ~h.flush.running => flush = noFlush
  BY NoFlushIsFlush DEF Scheduled, noFlush
<1> HIDE DEF failures, flush
<1>8. /\ r \in Managers(S) /\ r.pending = pending /\ r.flush = flush
      /\ r.disposed = h.disposed /\ r.flushTimer = h.flushTimer
  BY <1>2, <1>4, <1>6 DEF Managers
<1> HIDE DEF r, S
<1>9. CASE h.flush.running
  <2>1. g = r
    BY <1>1, <1>6, <1>8, <1>9 DEF scheduleFlush
  <2> HIDE DEF g
  <2>2. Flushing(g)
    BY <2>1, <1>6, <1>8, <1>9 DEF Flushing, Unanswered
  <2>3. Scheduled(g)
    BY <2>1, <1>6, <1>8, <1>9 DEF Scheduled
  <2> QED
    BY <2>1, <2>2, <2>3, <1>3, <1>6, <1>8 DEF g, S
<1>10. CASE ~h.flush.running
  <2>1. g = [r EXCEPT !.flushTimer = TRUE]
    BY <1>1, <1>6, <1>8, <1>10 DEF scheduleFlush
  <2> HIDE DEF g
  <2>2. /\ g \in Managers(S) /\ g.pending = pending /\ g.flush = noFlush
        /\ g.disposed = h.disposed /\ g.flushTimer
    BY <2>1, <1>7, <1>8, <1>10 DEF Managers
  <2>3. Buffering(g) # {}
    BY <2>2, <1>3 DEF Buffering
  <2>4. Flushing(g) /\ Scheduled(g)
    BY <2>2, <2>3, NoFlushIsFlush DEF Flushing, Scheduled, Unanswered, OnePerAgent
  <2> QED
    BY <2>2, <2>4, <1>3, <1>6, <1>7, <1>10, NoFlushIsFlush DEF g, S
<1> QED
  BY <1>9, <1>10

(***************************************************************************)
(* What is awaited.                                                        *)
(***************************************************************************)
LEMMA PostIsNotNone ==
  ASSUME NEW R, Entries(R)
  PROVE  None \notin Posts(R)
<1>1. Posts(R) \subseteq HistoryPost
  BY DEF Posts, HistoryPost, Entries
<1> QED
  BY <1>1, HistoryAssumption

\* A manager with a post to make makes it, and awaits this one.
LEMMA MakesPost ==
  ASSUME NEW R, Entries(R), NEW g \in Managers(R), ToPost(g),
         NEW waiting, waiting \subseteq Calls(R), ManagerBecomes(g, waiting, TRUE),
         NEW ops, \A c \in waiting : ~Waits(c), \A i \in DOMAIN ops : ~Waits(ops[i])
  PROVE  PostingInOrder(R, history', coming', ops) /\ history'.pending = g.pending
<1>1. CASE g.flush.left = {}
  <2>1. history' = g /\ coming' = waiting
    BY <1>1, Zenon DEF ManagerBecomes
  <2> QED
    BY <1>1, <2>1 DEF ToPost, PostingInOrder, OneIsAwaited
<1>2. CASE g.flush.left # {}
  <2>1. PICK p \in g.flush.left :
          /\ history' = [g EXCEPT !.flush.post = p, !.flush.left = g.flush.left \ {p}]
          /\ coming' = waiting \cup {[post |-> p, by |-> "server"]}
    BY <1>2 DEF ManagerBecomes, Managers
  <2> DEFINE flush == [g.flush EXCEPT !.post = p, !.left = g.flush.left \ {p}]
  <2>2. p \in Posts(R) /\ p # None
    BY PostIsNotNone DEF Managers
  <2>3. /\ flush \in [running : BOOLEAN, post : Posts(R) \cup {None}, left : SUBSET Posts(R),
                     hadFailure : BOOLEAN, newer : BOOLEAN]
        /\ flush.post = p /\ flush.left = g.flush.left \ {p} /\ flush.running = g.flush.running
        /\ flush.hadFailure = g.flush.hadFailure /\ flush.newer = g.flush.newer
    BY <2>2 DEF Managers
  <2>4. history' = [g EXCEPT !.flush = flush]
    BY <2>1 DEF Managers
  <2> HIDE DEF flush
  <2>5. /\ history' \in Managers(R) /\ history'.flush = flush /\ history'.pending = g.pending
        /\ history'.flushTimer = g.flushTimer /\ history'.disposed = g.disposed
    BY <2>3, <2>4 DEF Managers
  <2>6. Unanswered(flush) = g.flush.left
    BY <2>2, <2>3 DEF Unanswered
  <2>7. Buffering(history') = Buffering(g)
    BY <2>5 DEF Buffering
  <2>8. Flushing(history')
    BY <1>2, <2>2, <2>3, <2>5, <2>6, <2>7 DEF Flushing, ToPost, Carries
  <2>9. Scheduled(history')
    BY <1>2, <2>2, <2>3, <2>5, <2>7 DEF Scheduled, ToPost
  <2>10. coming' \subseteq Calls(R)
    BY <2>1, <2>2 DEF Calls, Callers
  <2>11. OneIsAwaited(history', coming', ops)
    BY <2>1, <2>3, <2>5 DEF OneIsAwaited
  <2> QED
    BY <2>5, <2>8, <2>9, <2>10, <2>11 DEF PostingInOrder
<1> QED
  BY <1>1, <1>2

\* The awaited post returns: only what was accepted leaves the buffer.
LEMMA ReturnFacts ==
  ASSUME NEW R, Entries(R), history \in Managers(R), Flushing(history), Scheduled(history),
         history.flush.post # None, NEW ok \in BOOLEAN,
         NEW waiting, waiting \subseteq Calls(R), PostReturns(ok, waiting),
         NEW ops, \A c \in waiting : ~Waits(c), \A i \in DOMAIN ops : ~Waits(ops[i])
  PROVE  /\ PostingInOrder(R, history', coming', ops)
         /\ \A a \in Agents : history'.pending[a] =
              IF ok /\ a = history.flush.post.agent_id
              THEN history.pending[a] \ history.flush.post.events ELSE history.pending[a]
<1> DEFINE g == IF ok THEN flushAccepted(history) ELSE flushFailed(history)
<1>1. /\ g \in Managers(R) /\ ToPost(g)
      /\ \A a \in Agents : g.pending[a] =
           IF ok /\ a = history.flush.post.agent_id
           THEN history.pending[a] \ history.flush.post.events ELSE history.pending[a]
  BY AcceptedFacts, FailedFacts
<1>2. ManagerBecomes(g, waiting, TRUE)
  BY Zenon DEF PostReturns
<1> HIDE DEF g
<1> QED
  BY <1>1, <1>2, MakesPost

\* A call that is awaited is the only one, and no operation is.
LEMMA AwaitedCall ==
  ASSUME NEW R, Entries(R), NEW h, NEW calls, NEW ops, PostingInOrder(R, h, calls, ops),
         NEW call \in calls, Waits(call)
  PROVE  /\ h.flush.post # None /\ call.post = h.flush.post
         /\ \A c \in calls \ {call} : ~Waits(c)
         /\ \A i \in DOMAIN ops : ~Waits(ops[i])
<1>1. call \in Calls(R) /\ call.post = h.flush.post /\ \A i \in DOMAIN ops : ~Waits(ops[i])
  BY DEF PostingInOrder, OneIsAwaited
<1>2. call.post # None
  BY <1>1, PostIsNotNone DEF Calls
<1>3. ASSUME NEW c \in calls, Waits(c) PROVE c = call
  BY <1>1, <1>3 DEF PostingInOrder, OneIsAwaited, Calls, Waits
<1> QED
  BY <1>1, <1>2, <1>3

LEMMA AwaitedOperation ==
  ASSUME NEW R, Entries(R), NEW h, NEW calls, NEW ops, PostingInOrder(R, h, calls, ops),
         ops \in Seq(Operations(R)), NEW i \in DOMAIN ops, Waits(ops[i])
  PROVE  /\ h.flush.post # None /\ ops[i].post = h.flush.post
         /\ \A c \in calls : ~Waits(c)
         /\ \A j \in DOMAIN ops \ {i} : ~Waits(ops[j])
<1>1. ops[i] \in Operations(R) /\ ops[i].post = h.flush.post
  BY DEF PostingInOrder, OneIsAwaited
<1>2. ops[i].post # None
  BY <1>1, PostIsNotNone DEF Operations
<1> QED
  BY <1>1, <1>2 DEF PostingInOrder, OneIsAwaited

(***************************************************************************)
(* The operations of the relay.                                            *)
(***************************************************************************)
LEMMA WhatRunsIsFirst ==
  ASSUME NEW R, NEW ops \in Seq(Operations(R)), NEW i \in runsNow(ops)
  PROVE  i = 1 /\ 1 \in DOMAIN ops /\ Len(ops) >= 1 /\ ops[1] \in Operations(R)
BY DEF runsNow

LEMMA FirstIsRemoved ==
  ASSUME NEW S, NEW s \in Seq(S), 1 \in DOMAIN s
  PROVE  /\ RemoveAt(s, 1) \in Seq(S)
         /\ \A i \in DOMAIN RemoveAt(s, 1) :
              i + 1 \in DOMAIN s /\ i + 1 # 1 /\ RemoveAt(s, 1)[i] = s[i + 1]
BY DEF RemoveAt

\* An operation writes the document it has read.
Writes(o, docs, new) ==
  /\ o.at # None /\ o.current = docs[o.at]
  /\ new = [docs EXCEPT ![o.at] = Merged(o)]

\* What a document stores it keeps, and what is merged into it it stores.
LEMMA WriteKeeps ==
  ASSUME NEW R, Entries(R), NEW docs \in [Documents -> SUBSET R], NEW o \in Operations(R),
         NEW new, Writes(o, docs, new)
  PROVE  /\ new \in [Documents -> SUBSET R]
         /\ \A e \in R, d \in Documents : StoredIn(e, docs[d]) => StoredIn(e, new[d])
         /\ \A e \in entriesFor(o.post, o.at) : StoredIn(e, new[o.at])
<1> DEFINE n == Cardinality(R)
           X == docs[o.at]
           N == entriesFor(o.post, o.at)
<1>1. o.at \in Documents /\ X \subseteq R /\ N \subseteq R
  BY DEF Operations, Posts, entriesFor, Writes
<1>2. n \in Nat
  BY FS_CardinalityType DEF Entries
<1>3. \A e \in R : e.event_id \in Nat /\ e.event_id <= n
  BY DEF Entries, HistoryEntry
<1> HIDE DEF n, X, N
<1>4. Numbered(X \cup N, n)
  <2>1. X \cup N \subseteq R /\ IsFiniteSet(X \cup N)
    BY <1>1, FS_Subset DEF Entries
  <2> QED
    BY <2>1, <1>3 DEF Numbered
<1>5. Merged(o) = mergeHistoryEntryList(X, N)
  BY Zenon DEF Merged, Writes, X, N
<1>6. \A e \in R : e \in N \/ StoredIn(e, X) => StoredIn(e, Merged(o))
  BY <1>2, <1>3, <1>4, <1>5, MergeKeeps
<1>7. Merged(o) \subseteq R
  BY <1>1, <1>5 DEF mergeHistoryEntryList, NewestOf
<1>8. /\ new \in [Documents -> SUBSET R]
      /\ \A d \in Documents : new[d] = IF d = o.at THEN Merged(o) ELSE docs[d]
  BY <1>1, <1>7 DEF Writes
<1>9. ASSUME NEW e \in R, NEW d \in Documents, StoredIn(e, docs[d]) PROVE StoredIn(e, new[d])
  <2>1. CASE d = o.at
    BY <1>6, <1>8, <1>9, <2>1, Zenon DEF X
  <2>2. CASE d # o.at
    BY <1>8, <1>9, <2>2, Zenon
  <2> QED
    BY <2>1, <2>2
<1>10. ASSUME NEW e \in N PROVE StoredIn(e, new[o.at])
  <2>1. e \in R /\ new[o.at] = Merged(o)
    BY <1>1, <1>8
  <2> QED
    BY <2>1, <1>6, Zenon
<1> QED
  BY <1>8, <1>9, <1>10 DEF N

\* An operation goes on as the documents come to store more.  An entry of a
\* post belongs to the documents of this post.
LEMMA DocumentsOfPost ==
  ASSUME NEW R, NEW p \in Posts(R), Entries(R)
  PROVE  /\ documentsOf(p) \subseteq Documents
         /\ \A d \in documentsOf(p) : entriesFor(p, d) \subseteq R
         /\ \A e \in p.events :
              /\ p.agent_id \in documentsOf(p) /\ e \in entriesFor(p, p.agent_id)
              /\ e.conversation_id # None =>
                   /\ e.conversation_id \in documentsOf(p)
                   /\ e \in entriesFor(p, e.conversation_id)
<1>1. p.agent_id \in Agents /\ p.events \subseteq R /\ p.agent_id \notin Conversations
  BY DocumentsAreApart DEF Posts
<1>2. \A e \in p.events : e.conversation_id \in Conversations \cup {None}
  BY <1>1 DEF Entries, HistoryEntry
<1>3. documentsOf(p) \subseteq Documents
  BY <1>1, <1>2 DEF documentsOf, conversationsOf, Documents
<1>4. \A d : entriesFor(p, d) \subseteq p.events
  BY DEF entriesFor
<1>5. ASSUME NEW e \in p.events
      PROVE  /\ p.agent_id \in documentsOf(p) /\ e \in entriesFor(p, p.agent_id)
             /\ e.conversation_id # None =>
                  /\ e.conversation_id \in documentsOf(p)
                  /\ e \in entriesFor(p, e.conversation_id)
  BY <1>1 DEF documentsOf, conversationsOf, entriesFor
<1> QED
  BY <1>1, <1>3, <1>4, <1>5

LEMMA ProgressIsKept ==
  ASSUME NEW R, Entries(R), NEW o \in Operations(R), NEW i, NEW docs, NEW new,
         \A e \in R, d \in Documents : StoredIn(e, docs[d]) => StoredIn(e, new[d]),
         InProgress(o, i, docs), o.at = None, NEW j
  PROVE  InProgress(o, j, new)
<1>1. o.post \in Posts(R)
  BY DEF Operations
<1>2. ASSUME NEW d \in documentsOf(o.post) \ o.left, NEW e \in entriesFor(o.post, d)
      PROVE  StoredIn(e, new[d])
  <2>1. e \in R /\ d \in Documents /\ StoredIn(e, docs[d])
    BY <1>1, DocumentsOfPost DEF InProgress
  <2> QED
    BY <2>1
<1> QED
  BY <1>2 DEF InProgress

\* The first operation ends, and the documents store no less.
LEMMA FirstEnds ==
  ASSUME NEW R, Entries(R), NEW ops, NEW docs, Writing(R, ops, docs), 1 \in DOMAIN ops,
         NEW new \in [Documents -> SUBSET R],
         \A e \in R, d \in Documents : StoredIn(e, docs[d]) => StoredIn(e, new[d])
  PROVE  Writing(R, RemoveAt(ops, 1), new)
<1> DEFINE left == RemoveAt(ops, 1)
<1>1. /\ left \in Seq(Operations(R))
      /\ \A i \in DOMAIN left : i + 1 \in DOMAIN ops /\ i + 1 # 1 /\ left[i] = ops[i + 1]
  BY FirstIsRemoved DEF Writing
<1> HIDE DEF left
<1>2. ASSUME NEW i \in DOMAIN left PROVE InProgress(left[i], i, new)
  <2>1. left[i] \in Operations(R) /\ InProgress(left[i], i + 1, docs)
    BY <1>1 DEF Writing
  <2>2. left[i].at = None
    BY <1>1, <2>1 DEF InProgress
  <2> QED
    BY <2>1, <2>2, ProgressIsKept
<1> QED
  BY <1>1, <1>2 DEF Writing, left

\* The first operation goes on as o.
LEMMA FirstGoesOn ==
  ASSUME NEW R, Entries(R), NEW ops, NEW docs, Writing(R, ops, docs), 1 \in DOMAIN ops,
         NEW new \in [Documents -> SUBSET R],
         \A e \in R, d \in Documents : StoredIn(e, docs[d]) => StoredIn(e, new[d]),
         NEW o \in Operations(R), InProgress(o, 1, new)
  PROVE  Writing(R, [ops EXCEPT ![1] = o], new)
<1> DEFINE next == [ops EXCEPT ![1] = o]
<1>1. /\ next \in Seq(Operations(R)) /\ DOMAIN next = DOMAIN ops /\ next[1] = o
      /\ \A i \in DOMAIN ops : i # 1 => next[i] = ops[i]
  BY DEF Writing
<1> HIDE DEF next
<1>2. ASSUME NEW i \in DOMAIN next PROVE InProgress(next[i], i, new)
  <2>1. CASE i = 1
    BY <1>1, <2>1
  <2>2. CASE i # 1
    <3>1. i \in DOMAIN ops /\ next[i] = ops[i]
      BY <1>1, <2>2
    <3>2. ops[i] \in Operations(R) /\ InProgress(ops[i], i, docs)
      BY <3>1 DEF Writing
    <3>3. ops[i].at = None
      BY <2>2, <3>2, Zenon DEF InProgress
    <3> QED
      BY <3>1, <3>2, <3>3, ProgressIsKept
  <2> QED
    BY <2>1, <2>2
<1> QED
  BY <1>1, <1>2 DEF Writing, next

\* Who is awaited stays so while the first operation goes on, or when one ends
\* that nobody waits for.
LEMMA AwaitedStays ==
  ASSUME NEW R, NEW h, NEW calls, NEW ops \in Seq(Operations(R)), PostingInOrder(R, h, calls, ops),
         1 \in DOMAIN ops
  PROVE  /\ \A o : o.by = ops[1].by /\ o.post = ops[1].post =>
              PostingInOrder(R, h, calls, [ops EXCEPT ![1] = o])
         /\ ~Waits(ops[1]) => PostingInOrder(R, h, calls, RemoveAt(ops, 1))
<1>1. ASSUME NEW o, o.by = ops[1].by, o.post = ops[1].post
      PROVE  PostingInOrder(R, h, calls, [ops EXCEPT ![1] = o])
  <2> DEFINE next == [ops EXCEPT ![1] = o]
  <2>1. /\ DOMAIN next = DOMAIN ops
        /\ \A i \in DOMAIN ops : next[i].by = ops[i].by /\ next[i].post = ops[i].post
    BY <1>1
  <2> HIDE DEF next
  <2>2. OneIsAwaited(h, calls, next)
    BY <2>1 DEF PostingInOrder, OneIsAwaited, Waits
  <2> QED
    BY <2>2 DEF PostingInOrder, next
<1>2. ASSUME ~Waits(ops[1]) PROVE PostingInOrder(R, h, calls, RemoveAt(ops, 1))
  <2> DEFINE left == RemoveAt(ops, 1)
  <2>1. /\ left \in Seq(Operations(R))
        /\ \A i \in DOMAIN left : i + 1 \in DOMAIN ops /\ left[i] = ops[i + 1]
    BY FirstIsRemoved
  <2>2. \A i, j \in DOMAIN left : i + 1 = j + 1 => i = j
    BY <2>1
  <2> HIDE DEF left
  <2>3. OneIsAwaited(h, calls, left)
    BY <2>1, <2>2 DEF PostingInOrder, OneIsAwaited, Waits
  <2> QED
    BY <2>3 DEF PostingInOrder, left
<1> QED
  BY <1>1, <1>2

(***************************************************************************)
(* No entry is lost.                                                       *)
(***************************************************************************)
StoredBy(e, a, docs) ==
  StoredIn(e, docs[a]) /\ (e.conversation_id # None => StoredIn(e, docs[e.conversation_id]))

Kept(R, h, dropped, docs) ==
  \A e \in R : \A a \in e.agent_ids :
    e \in h.pending[a] \/ <<a, e>> \in dropped \/ StoredBy(e, a, docs)

LEMMA KeptIsKept ==
  /\ RecordedIsKept <=> Kept(recorded, history, overflowed, documents)
  /\ RecordedIsKept' <=> Kept(recorded', history', overflowed', documents')
BY Zenon DEF RecordedIsKept, Kept, StoredBy, Stored, StoredIn, Since

\* Entries leave a buffer for the documents only.
LEMMA KeptStays ==
  ASSUME NEW R, Entries(R), NEW h, NEW g, NEW dropped, NEW docs, NEW new,
         Kept(R, h, dropped, docs),
         \A e \in R, d \in Documents : StoredIn(e, docs[d]) => StoredIn(e, new[d]),
         \A a \in Agents : \A e \in h.pending[a] \ g.pending[a] : StoredBy(e, a, new)
  PROVE  Kept(R, g, dropped, new)
<1> SUFFICES ASSUME NEW e \in R, NEW a \in e.agent_ids
             PROVE  e \in g.pending[a] \/ <<a, e>> \in dropped \/ StoredBy(e, a, new)
  BY DEF Kept
<1>1. /\ a \in Agents /\ a \in Documents
      /\ e.conversation_id # None => e.conversation_id \in Documents
  BY DEF Entries, HistoryEntry, Documents
<1>2. e \in h.pending[a] \/ <<a, e>> \in dropped \/ StoredBy(e, a, docs)
  BY Zenon DEF Kept
<1>3. StoredBy(e, a, docs) => StoredBy(e, a, new)
  BY <1>1, Zenon DEF StoredBy
<1> QED
  BY <1>1, <1>2, <1>3, Zenon

\* When an operation has nothing left to write, all that its post carried is stored.
LEMMA WrittenIsStored ==
  ASSUME NEW R, Entries(R), NEW o \in Operations(R), NEW docs, InProgress(o, 1, docs), o.left = {},
         NEW e \in o.post.events
  PROVE  StoredBy(e, o.post.agent_id, docs)
<1>1. /\ o.post.agent_id \in documentsOf(o.post) /\ e \in entriesFor(o.post, o.post.agent_id)
      /\ e.conversation_id # None =>
           /\ e.conversation_id \in documentsOf(o.post)
           /\ e \in entriesFor(o.post, e.conversation_id)
  BY DocumentsOfPost DEF Operations
<1> QED
  BY <1>1 DEF InProgress, StoredBy

(***************************************************************************)
(* The histories keep their invariant.                                     *)
(***************************************************************************)
LEMMA HistoryInit ==
  InitHistory => HistoryIInv
<1> SUFFICES ASSUME InitHistory PROVE HistoryIInv
  OBVIOUS
<1>1. Entries(recorded)
  BY FS_EmptySet DEF InitHistory, Entries
<1>2. /\ history \in Managers(recorded) /\ history.flush = noFlush /\ ~history.flushTimer
      /\ Buffering(history) = {}
  BY NoFlushIsFlush DEF InitHistory, newHistoryManager, Managers, Buffering
<1>3. Flushing(history) /\ Scheduled(history)
  BY <1>2, NoFlushIsFlush DEF Flushing, Scheduled, Unanswered, OnePerAgent
<1>4. DOMAIN operations = {} /\ operations \in Seq(Operations(recorded))
  BY DEF InitHistory
<1>5. PostingInOrder(recorded, history, coming, operations)
  BY <1>2, <1>3, <1>4 DEF PostingInOrder, OneIsAwaited, InitHistory
<1>6. Writing(recorded, operations, documents)
  BY <1>4 DEF Writing, InitHistory
<1>7. RecordedIsKept
  BY DEF RecordedIsKept, InitHistory
<1> QED
  BY <1>1, <1>5, <1>6, <1>7 DEF HistoryIInv

LEMMA MoreIsRecorded ==
  ASSUME NEW R, NEW S, R \subseteq S
  PROVE  /\ Posts(R) \subseteq Posts(S) /\ Calls(R) \subseteq Calls(S)
         /\ Operations(R) \subseteq Operations(S)
         /\ Seq(Operations(R)) \subseteq Seq(Operations(S))
<1>1. Posts(R) \subseteq Posts(S)
  BY DEF Posts
<1>2. Operations(R) \subseteq Operations(S)
  BY <1>1 DEF Operations
<1>3. Seq(Operations(R)) \subseteq Seq(Operations(S))
  BY <1>2
<1> QED
  BY <1>1, <1>2, <1>3 DEF Calls

LEMMA RecordKeeps ==
  ASSUME HistoryIInv, RecordEvent
  PROVE  HistoryIInv'
<1>1. PICK agents \in (SUBSET Agents) \ {{}}, c \in Conversations \cup {None} :
        LET entry == [event_id |-> Cardinality(recorded) + 1, agent_ids |-> agents,
                      conversation_id |-> c]
        IN  /\ history' = recordEvent(history, entry)
            /\ recorded' = IF history.disposed THEN recorded ELSE recorded \cup {entry}
            /\ overflowed' = overflowed \cup
                 {p \in Agents \X recorded :
                    p[2] \in history.pending[p[1]] \ recordEvent(history, entry).pending[p[1]]}
  BY Zenon DEF RecordEvent
<1> DEFINE n == Cardinality(recorded)
           entry == [event_id |-> n + 1, agent_ids |-> agents, conversation_id |-> c]
           g == recordEvent(history, entry)
<1>2. /\ coming' = coming /\ operations' = operations /\ documents' = documents
      /\ history' = g
      /\ recorded' = IF history.disposed THEN recorded ELSE recorded \cup {entry}
  BY <1>1, Zenon DEF RecordEvent
<1>3. \A a \in Agents, e \in recorded :
        e \in history.pending[a] /\ e \notin g.pending[a] => <<a, e>> \in overflowed'
  BY <1>1
<1>4. overflowed \subseteq overflowed'
  BY <1>1
<1>5. CASE history.disposed
  <2>1. g = history
    BY <1>5, Zenon DEF recordEvent
  <2>2. history' = history /\ recorded' = recorded
    BY <1>2, <1>5, <2>1
  <2>3. Kept(recorded, history, overflowed', documents)
    BY <1>4, KeptIsKept DEF HistoryIInv, Kept
  <2> QED
    BY <1>2, <2>2, <2>3, KeptIsKept DEF HistoryIInv
<1>6. CASE ~history.disposed
  <2> DEFINE S == recorded \cup {entry}
  <2>1. n \in Nat
    BY FS_CardinalityType DEF HistoryIInv, Entries
  <2>2. /\ entry \in HistoryEntry /\ entry.event_id = n + 1 /\ entry.agent_ids = agents
        /\ agents \subseteq Agents /\ agents # {}
    BY <2>1 DEF HistoryEntry
  <2> HIDE DEF n, entry
  <2>3. \A f \in recorded : f.event_id \in Nat /\ f.event_id <= n
    BY DEF HistoryIInv, Entries, HistoryEntry, n
  <2>4. entry \notin recorded
    BY <2>1, <2>2, <2>3
  <2>5. IsFiniteSet(S) /\ Cardinality(S) = n + 1
    BY <2>4, FS_AddElement DEF HistoryIInv, Entries, n
  <2>6. Entries(S)
    <3>1. S \subseteq HistoryEntry
      BY <2>2 DEF HistoryIInv, Entries
    <3>2. \A e \in S : e.event_id <= Cardinality(S)
      BY <2>1, <2>2, <2>3, <2>5
    <3>3. ASSUME NEW e \in S, NEW f \in S, e.event_id = f.event_id PROVE e = f
      BY <2>1, <2>2, <2>3, <3>3 DEF HistoryIInv, Entries
    <3> HIDE DEF S
    <3> QED
      BY <2>5, <3>1, <3>2, <3>3 DEF Entries
  <2>7. \A f \in recorded : f.event_id <= entry.event_id
    BY <2>1, <2>2, <2>3
  <2>8. /\ g \in Managers(S) /\ Flushing(g) /\ Scheduled(g)
        /\ g.flush.post = history.flush.post
        /\ \A a \in agents : entry \in g.pending[a]
    BY <1>6, <2>2, <2>6, <2>7, RecordFacts DEF HistoryIInv, PostingInOrder
  <2> HIDE DEF g
  <2>9. /\ Calls(recorded) \subseteq Calls(S)
        /\ Seq(Operations(recorded)) \subseteq Seq(Operations(S))
    BY MoreIsRecorded
  <2>10. PostingInOrder(S, g, coming, operations)
    BY <2>8, <2>9 DEF HistoryIInv, PostingInOrder, OneIsAwaited
  <2>11. documents \in [Documents -> SUBSET S]
    BY DEF HistoryIInv, Writing
  <2>12. Writing(S, operations, documents)
    BY <2>9, <2>11 DEF HistoryIInv, Writing
  <2>13. ASSUME NEW e \in S, NEW a \in e.agent_ids
         PROVE  e \in g.pending[a] \/ <<a, e>> \in overflowed' \/ StoredBy(e, a, documents)
    <3>1. CASE e = entry
      BY <2>2, <2>8, <3>1
    <3>2. CASE e \in recorded
      <4>1. a \in Agents
        BY <3>2 DEF HistoryIInv, Entries, HistoryEntry
      <4>2. e \in history.pending[a] \/ <<a, e>> \in overflowed \/ StoredBy(e, a, documents)
        BY <3>2, KeptIsKept, Zenon DEF HistoryIInv, Kept
      <4> QED
        BY <1>3, <1>4, <3>2, <4>1, <4>2
    <3> QED
      BY <3>1, <3>2
  <2>14. Kept(S, g, overflowed', documents)
    BY <2>13, Zenon DEF Kept
  <2> QED
    BY <1>2, <1>6, <2>6, <2>10, <2>12, <2>14, KeptIsKept DEF HistoryIInv
<1> QED
  BY <1>5, <1>6

\* The manager steps by itself: nothing is awaited before, and nothing leaves a buffer.
LEMMA ManagerKeeps ==
  ASSUME HistoryIInv,
         UNCHANGED <<operations, documents, recorded, overflowed>>,
         PostingInOrder(recorded, history', coming', operations),
         history'.pending = history.pending
  PROVE  HistoryIInv'
<1>1. Kept(recorded, history', overflowed, documents)
  BY KeptIsKept, Zenon DEF HistoryIInv, Kept
<1> QED
  BY <1>1, KeptIsKept DEF HistoryIInv

LEMMA NobodyAwaited ==
  ASSUME NEW R, Entries(R), NEW h, NEW calls, NEW ops \in Seq(Operations(R)),
         PostingInOrder(R, h, calls, ops), ~h.flush.running
  PROVE  (\A c \in calls : ~Waits(c)) /\ (\A i \in DOMAIN ops : ~Waits(ops[i]))
<1>1. h.flush.post = None
  BY NoFlushIsFlush DEF PostingInOrder, Scheduled
<1> QED
  BY <1>1, AwaitedCall, AwaitedOperation

LEMMA TimerKeeps ==
  ASSUME HistoryIInv, FlushTimerFires
  PROVE  HistoryIInv'
<1> DEFINE g == fireFlushTimer(history)
<1>1. history.flushTimer /\ ~history.flush.running
  BY DEF FlushTimerFires, HistoryIInv, PostingInOrder, Scheduled
<1>2. g \in Managers(recorded) /\ g.pending = history.pending /\ ToPost(g)
  BY <1>1, FireFacts DEF HistoryIInv, PostingInOrder
<1>3. ManagerBecomes(g, coming, TRUE)
  BY <1>1 DEF FlushTimerFires, ManagerBecomes
<1>4. (\A c \in coming : ~Waits(c)) /\ (\A i \in DOMAIN operations : ~Waits(operations[i]))
  BY <1>1, NobodyAwaited DEF HistoryIInv, Writing
<1> HIDE DEF g
<1>5. coming \subseteq Calls(recorded)
  BY DEF HistoryIInv, PostingInOrder
<1>6. PostingInOrder(recorded, history', coming', operations) /\ history'.pending = g.pending
  BY <1>2, <1>3, <1>4, <1>5, MakesPost DEF HistoryIInv
<1> QED
  BY <1>2, <1>6, ManagerKeeps DEF FlushTimerFires

LEMMA DisposeKeeps ==
  ASSUME HistoryIInv, HistoryIsDisposed
  PROVE  HistoryIInv'
<1> DEFINE g == disposeHistory(history)
<1>1. /\ g \in Managers(recorded) /\ g.pending = history.pending
      /\ history.flush.running => g.flush = history.flush /\ Flushing(g) /\ Scheduled(g)
      /\ ~history.flush.running => ToPost(g)
  BY DisposeFacts DEF HistoryIInv, PostingInOrder
<1>2. ManagerBecomes(g, coming, ~history.flush.running)
  BY DEF HistoryIsDisposed
<1> HIDE DEF g
<1>3. CASE history.flush.running
  <2>1. history' = g /\ coming' = coming
    BY <1>2, <1>3 DEF ManagerBecomes
  <2>2. PostingInOrder(recorded, g, coming, operations)
    BY <1>1, <1>3 DEF HistoryIInv, PostingInOrder, OneIsAwaited
  <2> QED
    BY <1>1, <2>1, <2>2, ManagerKeeps DEF HistoryIsDisposed
<1>4. CASE ~history.flush.running
  <2>1. (\A c \in coming : ~Waits(c)) /\ (\A i \in DOMAIN operations : ~Waits(operations[i]))
    BY <1>4, NobodyAwaited DEF HistoryIInv, Writing
  <2>2. ManagerBecomes(g, coming, TRUE)
    BY <1>2, <1>4 DEF ManagerBecomes
  <2>3. coming \subseteq Calls(recorded)
    BY DEF HistoryIInv, PostingInOrder
  <2>4. PostingInOrder(recorded, history', coming', operations) /\ history'.pending = g.pending
    BY <1>1, <1>4, <2>1, <2>2, <2>3, MakesPost DEF HistoryIInv
  <2> QED
    BY <1>1, <2>4, ManagerKeeps DEF HistoryIsDisposed
<1> QED
  BY <1>3, <1>4

\* The relay steps, and what leaves a buffer it has stored.
LEMMA RelayKeeps ==
  ASSUME HistoryIInv, UNCHANGED <<recorded, overflowed>>,
         PostingInOrder(recorded, history', coming', operations'),
         Writing(recorded, operations', documents'),
         \A e \in recorded, d \in Documents :
           StoredIn(e, documents[d]) => StoredIn(e, documents'[d]),
         \A a \in Agents : \A e \in history.pending[a] \ history'.pending[a] :
           StoredBy(e, a, documents')
  PROVE  HistoryIInv'
<1>1. Kept(recorded, history', overflowed, documents')
  BY KeptIsKept, KeptStays DEF HistoryIInv
<1> QED
  BY <1>1, KeptIsKept DEF HistoryIInv

\* The awaited post has failed for the manager: nothing leaves a buffer.
LEMMA FailureKeeps ==
  ASSUME HistoryIInv, history.flush.post # None,
         NEW waiting, waiting \subseteq Calls(recorded), PostReturns(FALSE, waiting),
         \A c \in waiting : ~Waits(c), \A i \in DOMAIN operations' : ~Waits(operations'[i])
  PROVE  /\ PostingInOrder(recorded, history', coming', operations')
         /\ \A a \in Agents : history'.pending[a] = history.pending[a]
BY ReturnFacts DEF HistoryIInv, PostingInOrder

LEMMA TimeOutKeeps ==
  ASSUME HistoryIInv, HistoryPostTimesOut
  PROVE  HistoryIInv'
<1>1. /\ history.flush.post # None /\ PostReturns(FALSE, Abandoned(coming))
      /\ operations' = [i \in DOMAIN operations |-> [operations[i] EXCEPT !.by = "nobody"]]
      /\ UNCHANGED <<documents, recorded, overflowed>>
  BY DEF HistoryPostTimesOut
<1>2. Abandoned(coming) \subseteq Calls(recorded) /\ \A c \in Abandoned(coming) : ~Waits(c)
  <2>1. ASSUME NEW c \in coming
        PROVE  [c EXCEPT !.by = "nobody"] \in Calls(recorded) /\ ~Waits([c EXCEPT !.by = "nobody"])
    <3>1. c \in Calls(recorded)
      BY DEF HistoryIInv, PostingInOrder
    <3> QED
      BY <3>1 DEF Calls, Callers, Waits
  <2> QED
    BY <2>1 DEF Abandoned
<1>3. operations \in Seq(Operations(recorded))
  BY DEF HistoryIInv, Writing
<1>4. ASSUME NEW i \in DOMAIN operations
      PROVE  /\ operations'[i] \in Operations(recorded) /\ operations'[i].by = "nobody"
             /\ operations'[i].post = operations[i].post /\ operations'[i].left = operations[i].left
             /\ operations'[i].at = operations[i].at
             /\ operations'[i].current = operations[i].current
  <2>1. operations[i] \in Operations(recorded)
    BY <1>3
  <2>2. operations'[i] = [operations[i] EXCEPT !.by = "nobody"]
    BY <1>1
  <2> QED
    BY <2>1, <2>2 DEF Operations, Callers
<1>5. DOMAIN operations' = DOMAIN operations
  BY <1>1
<1>6. operations' \in Seq(Operations(recorded))
  <2>1. /\ DOMAIN operations = 1..Len(operations) /\ Len(operations) \in Nat
    BY <1>3
  <2>2. operations' \in [1..Len(operations) -> Operations(recorded)]
    BY <1>1, <1>4, <2>1
  <2> QED
    BY <2>1, <2>2
<1>7. ASSUME NEW i \in DOMAIN operations' PROVE InProgress(operations'[i], i, documents)
  <2>1. InProgress(operations[i], i, documents)
    BY <1>5, Zenon DEF HistoryIInv, Writing
  <2>2. /\ operations'[i].post = operations[i].post /\ operations'[i].left = operations[i].left
        /\ operations'[i].at = operations[i].at /\ operations'[i].current = operations[i].current
    BY <1>4, <1>5
  <2> QED
    BY <2>1, <2>2, Zenon DEF InProgress
<1>8. Writing(recorded, operations', documents')
  BY <1>1, <1>6, <1>7 DEF Writing, HistoryIInv
<1>9. \A i \in DOMAIN operations' : ~Waits(operations'[i])
  BY <1>4, <1>5 DEF Waits
<1>10. /\ PostingInOrder(recorded, history', coming', operations')
       /\ \A a \in Agents : history'.pending[a] = history.pending[a]
  BY <1>1, <1>2, <1>9, FailureKeeps
<1> QED
  BY <1>1, <1>8, <1>10, RelayKeeps

LEMMA LossKeeps ==
  ASSUME HistoryIInv, HistoryPostIsLost
  PROVE  HistoryIInv'
<1>1. PICK call \in coming :
        IF call.by = "server" THEN PostReturns(FALSE, coming \ {call})
        ELSE coming' = coming \ {call} /\ UNCHANGED history
  BY DEF HistoryPostIsLost
<1>2. UNCHANGED <<operations, documents, recorded, overflowed>>
  BY DEF HistoryPostIsLost
<1>3. Writing(recorded, operations', documents')
  BY <1>2 DEF HistoryIInv
<1>4. coming \ {call} \subseteq Calls(recorded)
  BY DEF HistoryIInv, PostingInOrder
<1>5. CASE Waits(call)
  <2>1. /\ history.flush.post # None /\ \A c \in coming \ {call} : ~Waits(c)
        /\ \A i \in DOMAIN operations : ~Waits(operations[i])
    BY <1>5, AwaitedCall DEF HistoryIInv
  <2>2. PostReturns(FALSE, coming \ {call})
    BY <1>1, <1>5 DEF Waits
  <2>3. /\ PostingInOrder(recorded, history', coming', operations')
        /\ \A a \in Agents : history'.pending[a] = history.pending[a]
    BY <1>2, <1>4, <2>1, <2>2, FailureKeeps
  <2> QED
    BY <1>2, <1>3, <2>3, RelayKeeps
<1>6. CASE ~Waits(call)
  <2>1. history' = history /\ coming' = coming \ {call}
    BY <1>1, <1>6 DEF Waits
  <2>2. PostingInOrder(recorded, history', coming', operations')
    BY <1>2, <1>4, <2>1 DEF HistoryIInv, PostingInOrder, OneIsAwaited
  <2> QED
    BY <1>2, <1>3, <2>1, <2>2, RelayKeeps
<1> QED
  BY <1>5, <1>6

LEMMA ArrivalKeeps ==
  ASSUME HistoryIInv, HistoryPostArrives
  PROVE  HistoryIInv'
<1>1. PICK call \in coming :
        /\ coming' = coming \ {call}
        /\ operations' = Append(operations, appendAgentHistory(call.post, call.by))
  BY DEF HistoryPostArrives
<1>2. UNCHANGED <<history, documents, recorded, overflowed>>
  BY DEF HistoryPostArrives
<1> DEFINE o == appendAgentHistory(call.post, call.by)
           n == Len(operations) + 1
<1>3. call \in Calls(recorded) /\ call.post \in Posts(recorded) /\ call.by \in Callers
  BY DEF HistoryIInv, PostingInOrder, Calls
<1>4. documentsOf(call.post) \subseteq Documents
  BY <1>3, DocumentsOfPost DEF HistoryIInv
<1>5. /\ o \in Operations(recorded) /\ o.post = call.post /\ o.by = call.by
      /\ o.left = documentsOf(o.post) /\ o.at = None
  BY <1>3, <1>4 DEF appendAgentHistory, Operations
<1> HIDE DEF o
<1>6. /\ operations' \in Seq(Operations(recorded)) /\ operations'[n] = o
      /\ DOMAIN operations' = DOMAIN operations \cup {n} /\ n \notin DOMAIN operations
      /\ \A i \in DOMAIN operations : operations'[i] = operations[i]
  BY <1>1, <1>5 DEF HistoryIInv, Writing, o
<1> HIDE DEF n
<1>7. InProgress(o, n, documents)
  BY <1>5 DEF InProgress
<1>8. \A i \in DOMAIN operations' : InProgress(operations'[i], i, documents)
  BY <1>6, <1>7, Zenon DEF HistoryIInv, Writing
<1>9. Writing(recorded, operations', documents')
  BY <1>2, <1>6, <1>8 DEF HistoryIInv, Writing
<1>10. OneIsAwaited(history, coming \ {call}, operations')
  <2>1. CASE Waits(call)
    <3>1. /\ call.post = history.flush.post /\ \A c \in coming \ {call} : ~Waits(c)
          /\ \A i \in DOMAIN operations : ~Waits(operations[i])
      BY <2>1, AwaitedCall DEF HistoryIInv
    <3> QED
      BY <3>1, <1>5, <1>6 DEF OneIsAwaited
  <2>2. CASE ~Waits(call)
    <3>1. ~Waits(o)
      BY <2>2, <1>5 DEF Waits
    <3>2. OneIsAwaited(history, coming, operations)
      BY DEF HistoryIInv, PostingInOrder
    <3> QED
      BY <3>1, <3>2, <1>6 DEF OneIsAwaited
  <2> QED
    BY <2>1, <2>2
<1>11. PostingInOrder(recorded, history', coming', operations')
  BY <1>1, <1>2, <1>10 DEF HistoryIInv, PostingInOrder
<1> QED
  BY <1>2, <1>9, <1>11, RelayKeeps

LEMMA ReadKeeps ==
  ASSUME HistoryIInv, OperationReads
  PROVE  HistoryIInv'
<1>1. PICK i \in runsNow(operations) :
        /\ operations[i].at = None
        /\ \E d \in nextDocuments(operations[i]) :
             operations' = [operations EXCEPT ![i].at = d, ![i].current = documents[d]]
  BY DEF OperationReads
<1>2. UNCHANGED <<history, coming, documents, recorded, overflowed>>
  BY DEF OperationReads
<1>3. i = 1 /\ 1 \in DOMAIN operations /\ operations[1] \in Operations(recorded)
  BY WhatRunsIsFirst DEF HistoryIInv, Writing
<1>4. InProgress(operations[1], 1, documents)
  BY <1>3 DEF HistoryIInv, Writing
<1>5. PICK d \in nextDocuments(operations[1]) :
        operations' = [operations EXCEPT ![1].at = d, ![1].current = documents[d]]
  BY <1>1, <1>3
<1> DEFINE o == [operations[1] EXCEPT !.at = d, !.current = documents[d]]
<1>6. d \in operations[1].left /\ d \in Documents /\ documents[d] \subseteq recorded
  BY <1>3 DEF nextDocuments, Operations, HistoryIInv, Writing
<1>7. /\ o \in Operations(recorded) /\ o.post = operations[1].post /\ o.by = operations[1].by
      /\ o.left = operations[1].left /\ o.at = d /\ o.current = documents[d]
  BY <1>3, <1>6 DEF Operations
<1>8. operations' = [operations EXCEPT ![1] = o]
  BY <1>3, <1>5
<1> HIDE DEF o
<1>9. InProgress(o, 1, documents)
  BY <1>4, <1>6, <1>7, Zenon DEF InProgress
<1>10. Writing(recorded, operations', documents')
  BY <1>2, <1>3, <1>7, <1>8, <1>9, FirstGoesOn DEF HistoryIInv, Writing
<1>11. PostingInOrder(recorded, history', coming', operations')
  BY <1>2, <1>3, <1>7, <1>8, AwaitedStays DEF HistoryIInv, Writing
<1> QED
  BY <1>2, <1>10, <1>11, RelayKeeps

\* The first operation ends: it is answered, or nobody waits for it.
LEMMA FirstIsAnswered ==
  ASSUME HistoryIInv, 1 \in DOMAIN operations, NEW ok \in BOOLEAN,
         Answers(operations[1], ok), operations' = RemoveAt(operations, 1)
  PROVE  /\ PostingInOrder(recorded, history', coming', operations')
         /\ \A a \in Agents : \A e \in history.pending[a] \ history'.pending[a] :
              ok /\ a = operations[1].post.agent_id /\ e \in operations[1].post.events
<1>1. operations \in Seq(Operations(recorded))
  BY DEF HistoryIInv, Writing
<1>2. CASE Waits(operations[1])
  <2>1. /\ history.flush.post # None /\ operations[1].post = history.flush.post
        /\ \A c \in coming : ~Waits(c)
        /\ \A j \in DOMAIN operations \ {1} : ~Waits(operations[j])
    BY <1>1, <1>2, AwaitedOperation DEF HistoryIInv
  <2>2. \A i \in DOMAIN operations' : ~Waits(operations'[i])
    <3>1. \A i \in DOMAIN operations' :
            i + 1 \in DOMAIN operations /\ i + 1 # 1 /\ operations'[i] = operations[i + 1]
      BY <1>1, FirstIsRemoved
    <3> QED
      BY <2>1, <3>1
  <2>3. PostReturns(ok, coming)
    BY <1>2 DEF Answers, Waits
  <2>4. /\ PostingInOrder(recorded, history', coming', operations')
        /\ \A a \in Agents : history'.pending[a] =
             IF ok /\ a = history.flush.post.agent_id
             THEN history.pending[a] \ history.flush.post.events ELSE history.pending[a]
    BY <2>1, <2>2, <2>3, ReturnFacts DEF HistoryIInv, PostingInOrder
  <2> QED
    BY <2>1, <2>4
<1>3. CASE ~Waits(operations[1])
  <2>1. history' = history /\ coming' = coming
    BY <1>3 DEF Answers, Waits
  <2>2. PostingInOrder(recorded, history, coming, RemoveAt(operations, 1))
    BY <1>1, <1>3, AwaitedStays DEF HistoryIInv
  <2> QED
    BY <2>1, <2>2
<1> QED
  BY <1>2, <1>3

LEMMA WriteFacts ==
  ASSUME HistoryIInv, 1 \in DOMAIN operations, operations[1].at # None,
         documents' = [documents EXCEPT ![operations[1].at] = Merged(operations[1])]
  PROVE  /\ documents' \in [Documents -> SUBSET recorded]
         /\ \A e \in recorded, d \in Documents :
              StoredIn(e, documents[d]) => StoredIn(e, documents'[d])
         /\ \A e \in entriesFor(operations[1].post, operations[1].at) :
              StoredIn(e, documents'[operations[1].at])
<1>1. operations[1] \in Operations(recorded) /\ InProgress(operations[1], 1, documents)
  BY DEF HistoryIInv, Writing
<1>2. Writes(operations[1], documents, documents')
  BY <1>1 DEF InProgress, Writes
<1>3. documents \in [Documents -> SUBSET recorded] /\ Entries(recorded)
  BY DEF HistoryIInv, Writing
<1> DEFINE o == operations[1]
           docs == documents
           new == documents'
           R == recorded
<1> HIDE DEF o, docs, new, R
<1>4. o \in Operations(R) /\ Writes(o, docs, new) /\ docs \in [Documents -> SUBSET R] /\ Entries(R)
  BY <1>1, <1>2, <1>3 DEF o, docs, new, R
<1>5. new \in [Documents -> SUBSET R]
  BY <1>4, WriteKeeps
<1>6. \A e \in R, d \in Documents : StoredIn(e, docs[d]) => StoredIn(e, new[d])
  BY <1>4, WriteKeeps
<1>7. \A e \in entriesFor(o.post, o.at) : StoredIn(e, new[o.at])
  BY <1>4, WriteKeeps
<1> QED
  BY <1>5, <1>6, <1>7 DEF o, docs, new, R

LEMMA OperationWritesKeeps ==
  ASSUME HistoryIInv, OperationWrites
  PROVE  HistoryIInv'
<1> DEFINE operation == operations[1]
           rest == [operation EXCEPT !.left = operation.left \ {operation.at},
                                     !.at = None, !.current = {}]
<1>1. PICK i \in runsNow(operations) :
        /\ operations[i].at # None
        /\ documents' = [documents EXCEPT ![operations[i].at] = Merged(operations[i])]
        /\ LET left == [operations[i] EXCEPT !.left = @ \ {operations[i].at}, !.at = None,
                                             !.current = {}]
           IN  IF left.left # {}
               THEN operations' = [operations EXCEPT ![i] = left] /\ UNCHANGED <<history, coming>>
               ELSE operations' = RemoveAt(operations, i) /\ Answers(operations[i], TRUE)
  BY Zenon DEF OperationWrites
<1>2. UNCHANGED <<recorded, overflowed>>
  BY DEF OperationWrites
<1>3. i = 1 /\ 1 \in DOMAIN operations /\ operation \in Operations(recorded)
  BY WhatRunsIsFirst DEF HistoryIInv, Writing
<1>4. /\ operation.at # None
      /\ documents' = [documents EXCEPT ![operation.at] = Merged(operation)]
      /\ IF rest.left # {}
         THEN operations' = [operations EXCEPT ![1] = rest] /\ UNCHANGED <<history, coming>>
         ELSE operations' = RemoveAt(operations, 1) /\ Answers(operation, TRUE)
  BY <1>1, <1>3
<1>5. /\ documents' \in [Documents -> SUBSET recorded]
      /\ \A e \in recorded, d \in Documents :
           StoredIn(e, documents[d]) => StoredIn(e, documents'[d])
      /\ \A e \in entriesFor(operation.post, operation.at) :
           StoredIn(e, documents'[operation.at])
  BY <1>3, <1>4, WriteFacts
<1>6. /\ rest \in Operations(recorded) /\ rest.post = operation.post /\ rest.by = operation.by
      /\ rest.left = operation.left \ {operation.at} /\ rest.at = None
  BY <1>3 DEF Operations
<1> HIDE DEF rest
<1>7. InProgress(rest, 1, documents')
  <2>1. InProgress(operation, 1, documents)
    BY <1>3 DEF HistoryIInv, Writing
  <2>2. operation.post \in Posts(recorded)
    BY <1>3 DEF Operations
  <2>3. ASSUME NEW d \in documentsOf(rest.post) \ rest.left, NEW e \in entriesFor(rest.post, d)
        PROVE  StoredIn(e, documents'[d])
    <3>1. CASE d = operation.at
      BY <1>5, <1>6, <2>3, <3>1
    <3>2. CASE d # operation.at
      <4>1. d \in documentsOf(operation.post) \ operation.left /\ e \in entriesFor(operation.post, d)
        BY <1>6, <2>3, <3>2
      <4>2. StoredIn(e, documents[d])
        BY <2>1, <4>1, Zenon DEF InProgress
      <4>3. e \in recorded /\ d \in Documents
        BY <2>2, <4>1, DocumentsOfPost DEF HistoryIInv
      <4> QED
        BY <1>5, <4>2, <4>3
    <3> QED
      BY <3>1, <3>2
  <2>4. rest.left \subseteq documentsOf(rest.post)
    BY <1>6, <2>1 DEF InProgress
  <2> QED
    BY <1>6, <2>3, <2>4 DEF InProgress
<1>8. CASE rest.left # {}
  <2>1. operations' = [operations EXCEPT ![1] = rest] /\ UNCHANGED <<history, coming>>
    BY <1>4, <1>8
  <2>2. Writing(recorded, operations', documents')
    BY <1>3, <1>5, <1>6, <1>7, <2>1, FirstGoesOn DEF HistoryIInv
  <2>3. PostingInOrder(recorded, history', coming', operations')
    BY <1>3, <1>6, <2>1, AwaitedStays DEF HistoryIInv, Writing
  <2> QED
    BY <1>2, <1>5, <2>1, <2>2, <2>3, RelayKeeps
<1>9. CASE rest.left = {}
  <2>1. operations' = RemoveAt(operations, 1) /\ Answers(operation, TRUE)
    BY <1>4, <1>9
  <2>2. Writing(recorded, operations', documents')
    BY <1>3, <1>5, <2>1, FirstEnds DEF HistoryIInv
  <2>3. /\ PostingInOrder(recorded, history', coming', operations')
        /\ \A a \in Agents : \A e \in history.pending[a] \ history'.pending[a] :
             a = operation.post.agent_id /\ e \in operation.post.events
    BY <1>3, <2>1, FirstIsAnswered
  <2>4. \A e \in operation.post.events : StoredBy(e, operation.post.agent_id, documents')
    BY <1>6, <1>7, <1>9, WrittenIsStored DEF HistoryIInv
  <2> QED
    BY <1>2, <1>5, <2>2, <2>3, <2>4, RelayKeeps
<1> QED
  BY <1>8, <1>9

LEMMA OperationFailsKeeps ==
  ASSUME HistoryIInv, OperationFails
  PROVE  HistoryIInv'
<1>1. PICK i \in runsNow(operations) :
        operations' = RemoveAt(operations, i) /\ Answers(operations[i], FALSE)
  BY DEF OperationFails
<1>2. UNCHANGED <<documents, recorded, overflowed>>
  BY DEF OperationFails
<1>3. i = 1 /\ 1 \in DOMAIN operations
  BY WhatRunsIsFirst DEF HistoryIInv, Writing
<1>4. /\ PostingInOrder(recorded, history', coming', operations')
      /\ \A a \in Agents : history.pending[a] \ history'.pending[a] = {}
  BY <1>1, <1>3, FirstIsAnswered
<1>5. Writing(recorded, operations', documents)
  BY <1>1, <1>3, FirstEnds DEF HistoryIInv, Writing
<1> QED
  BY <1>2, <1>4, <1>5, RelayKeeps

LEMMA EvictionKeeps ==
  ASSUME HistoryIInv, HistoryRelayIsEvicted
  PROVE  HistoryIInv'
<1>1. /\ operations' = <<>> /\ UNCHANGED <<recorded, overflowed>>
      /\ documents' \in {documents} \cup
           {[documents EXCEPT ![operations[i].at] = Merged(operations[i])] :
              i \in {j \in runsNow(operations) : operations[j].at # None}}
      /\ IF \E i \in DOMAIN operations : operations[i].by = "server"
         THEN PostReturns(FALSE, coming) ELSE UNCHANGED <<history, coming>>
  BY DEF HistoryRelayIsEvicted
<1>2. /\ documents' \in [Documents -> SUBSET recorded]
      /\ \A e \in recorded, d \in Documents :
           StoredIn(e, documents[d]) => StoredIn(e, documents'[d])
  <2>1. CASE documents' = documents
    BY <2>1 DEF HistoryIInv, Writing
  <2>2. CASE documents' # documents
    <3>1. PICK i \in {j \in runsNow(operations) : operations[j].at # None} :
            documents' = [documents EXCEPT ![operations[i].at] = Merged(operations[i])]
      BY <1>1, <2>2
    <3>2. i = 1 /\ 1 \in DOMAIN operations
      BY WhatRunsIsFirst DEF HistoryIInv, Writing
    <3> QED
      BY <3>1, <3>2, WriteFacts
  <2> QED
    BY <2>1, <2>2
<1>3. operations' \in Seq(Operations(recorded)) /\ DOMAIN operations' = {}
  BY <1>1
<1>4. Writing(recorded, operations', documents')
  BY <1>2, <1>3 DEF Writing
<1>5. CASE \E i \in DOMAIN operations : Waits(operations[i])
  <2>1. PICK i \in DOMAIN operations : Waits(operations[i])
    BY <1>5
  <2>2. history.flush.post # None /\ \A c \in coming : ~Waits(c)
    BY <2>1, AwaitedOperation DEF HistoryIInv, Writing
  <2>3. PostReturns(FALSE, coming) /\ coming \subseteq Calls(recorded)
    BY <1>1, <2>1 DEF Waits, HistoryIInv, PostingInOrder
  <2>4. /\ PostingInOrder(recorded, history', coming', operations')
        /\ \A a \in Agents : history'.pending[a] = history.pending[a]
    BY <1>3, <2>2, <2>3, FailureKeeps
  <2> QED
    BY <1>1, <1>2, <1>4, <2>4, RelayKeeps
<1>6. CASE ~\E i \in DOMAIN operations : Waits(operations[i])
  <2>1. UNCHANGED <<history, coming>>
    BY <1>1, <1>6 DEF Waits
  <2>2. PostingInOrder(recorded, history', coming', operations')
    BY <1>3, <2>1 DEF HistoryIInv, PostingInOrder, OneIsAwaited
  <2> QED
    BY <1>1, <1>2, <1>4, <2>1, <2>2, RelayKeeps
<1> QED
  BY <1>5, <1>6

LEMMA HistoryNextKeeps ==
  HistoryIInv /\ [HistoryNext]_historyVars => HistoryIInv'
<1> SUFFICES ASSUME HistoryIInv, [HistoryNext]_historyVars PROVE HistoryIInv'
  OBVIOUS
<1>1. CASE RecordEvent
  BY <1>1, RecordKeeps
<1>2. CASE FlushTimerFires
  BY <1>2, TimerKeeps
<1>3. CASE HistoryIsDisposed
  BY <1>3, DisposeKeeps
<1>4. CASE HistoryPostTimesOut
  BY <1>4, TimeOutKeeps
<1>5. CASE HistoryPostIsLost
  BY <1>5, LossKeeps
<1>6. CASE HistoryPostArrives
  BY <1>6, ArrivalKeeps
<1>7. CASE OperationReads
  BY <1>7, ReadKeeps
<1>8. CASE OperationWrites
  BY <1>8, OperationWritesKeeps
<1>9. CASE OperationFails
  BY <1>9, OperationFailsKeeps
<1>10. CASE HistoryRelayIsEvicted
  BY <1>10, EvictionKeeps
<1>11. CASE UNCHANGED historyVars
  BY <1>11, KeptIsKept DEF historyVars, HistoryIInv
<1> QED
  BY <1>1, <1>2, <1>3, <1>4, <1>5, <1>6, <1>7, <1>8, <1>9, <1>10, <1>11 DEF HistoryNext

(***************************************************************************)
(* What the manager and the relay's histories guarantee, for any number of *)
(* agents, conversations, events and faults.                               *)
(***************************************************************************)

\* The state stays well formed, a flush carries what is buffered, and one post
\* at most is awaited, in any number of losses, late answers and evictions.
THEOREM HistoryInvariant == HistorySpec => []HistoryIInv
<1>1. InitHistory => HistoryIInv
  BY HistoryInit
<1>2. HistoryIInv /\ [HistoryNext]_historyVars => HistoryIInv'
  BY HistoryNextKeeps
<1> QED
  BY <1>1, <1>2, PTL DEF HistorySpec

\* Until the relay has written it to the document of the agent and to that of
\* its conversation, an entry that was recorded stays in the buffer of the
\* agent: flushPending takes out of it only what an accepted post carried.
THEOREM RecordedAlwaysKept == HistorySpec => []RecordedIsKept
<1>1. HistoryIInv => RecordedIsKept
  BY DEF HistoryIInv
<1> QED
  BY <1>1, HistoryInvariant, PTL

\* What is buffered is going to be posted until the manager gave up, and no
\* flush that is over seems to run: recordEvent and the end of flushPending
\* between them never leave a buffer without a timer.
THEOREM BuffersAlwaysFlushed == HistorySpec => []BufferIsFlushed
<1>1. HistoryIInv => BufferIsFlushed
  BY DEF HistoryIInv, PostingInOrder, Scheduled, BufferIsFlushed
<1> QED
  BY <1>1, HistoryInvariant, PTL

(***************************************************************************)
(* How an agent walks: the search for a path, on every map. Its invariant  *)
(* says that the visited nodes form a tree of shortest walks, taken in the *)
(* order of their distance from the start.                                 *)
(***************************************************************************)

\* f is what applying g again and again, n times, makes of x.
Iterates(f, g, x, n) ==
  \A k \in 0 .. n : f[k] = IF k = 0 THEN x ELSE g[f[k - 1]]

\* Whatever can be applied once can be applied n times.
LEMMA IteratesDefined ==
  ASSUME NEW g, NEW x, NEW n \in Nat
  PROVE  \E f : Iterates(f, g, x, n)
<1> DEFINE bad == {k \in Nat : ~ \E f : Iterates(f, g, x, k)}
<1>1. bad = {}
  <2> SUFFICES ASSUME bad # {} PROVE FALSE
    OBVIOUS
  <2>1. PICK k \in bad : \A j \in bad : k <= j
    <3>1. bad \in SUBSET Nat
      OBVIOUS
    <3> HIDE DEF bad
    <3> QED
      BY <3>1, LeastOf
  <2>2. k \in Nat /\ ~ \E f : Iterates(f, g, x, k)
    OBVIOUS
  <2>3. CASE k = 0
    <3>1. Iterates([m \in 0 .. 0 |-> x], g, x, 0)
      BY DEF Iterates
    <3> QED
      BY <2>2, <2>3, <3>1
  <2>4. CASE k # 0
    <3>1. k - 1 \in Nat /\ k - 1 \notin bad
      BY <2>1, <2>2, <2>4
    <3>2. PICK f : Iterates(f, g, x, k - 1)
      BY <3>1
    <3> DEFINE h == [m \in 0 .. k |-> IF m = k THEN g[f[k - 1]] ELSE f[m]]
    <3>3. \A m \in 0 .. k - 1 : /\ h[m] = f[m]
                                /\ f[m] = IF m = 0 THEN x ELSE g[f[m - 1]]
      BY <2>2, <3>2 DEF Iterates
    <3>4. h[k] = g[f[k - 1]] /\ k - 1 \in 0 .. k - 1
      BY <2>2, <2>4
    <3> HIDE DEF h
    <3>5. ASSUME NEW m \in 0 .. k
          PROVE  h[m] = IF m = 0 THEN x ELSE g[h[m - 1]]
      <4>1. CASE m = k
        BY <2>4, <3>3, <3>4, <4>1
      <4>2. CASE m # k
        <5>1. m \in 0 .. k - 1 /\ (m # 0 => m - 1 \in 0 .. k - 1)
          BY <2>2, <4>2
        <5> QED
          BY <3>3, <5>1
      <4> QED
        BY <4>1, <4>2
    <3>6. Iterates(h, g, x, k)
      BY <3>5 DEF Iterates
    <3> QED
      BY <2>2, <3>6
  <2> QED
    BY <2>3, <2>4
<1> QED
  BY <1>1

\* And in one way only.
LEMMA IteratesUnique ==
  ASSUME NEW g, NEW x, NEW n \in Nat, NEW e, Iterates(e, g, x, n),
         NEW m \in Nat, NEW f, Iterates(f, g, x, m)
  PROVE  \A k \in Nat : k <= n /\ k <= m => e[k] = f[k]
<1> DEFINE bad == {k \in Nat : k <= n /\ k <= m /\ e[k] # f[k]}
<1>1. bad = {}
  <2> SUFFICES ASSUME bad # {} PROVE FALSE
    OBVIOUS
  <2>1. PICK k \in bad : \A j \in bad : k <= j
    <3>1. bad \in SUBSET Nat
      OBVIOUS
    <3> HIDE DEF bad
    <3> QED
      BY <3>1, LeastOf
  <2>2. k \in 0 .. n /\ k \in 0 .. m /\ e[k] # f[k]
    OBVIOUS
  <2>3. k # 0 => k - 1 \in Nat /\ k - 1 \notin bad
    BY <2>1, <2>2
  <2>4. k # 0 => e[k - 1] = f[k - 1]
    BY <2>2, <2>3
  <2> HIDE DEF bad
  <2> QED
    BY <2>2, <2>4 DEF Iterates
<1> QED
  BY <1>1

\* f is what applying g makes of x, for each number of times.
Repeats(f, g, x) ==
  /\ f = [k \in Nat |-> f[k]]
  /\ f[0] = x /\ \A k \in Nat : f[k + 1] = g[f[k]]

\* There is such a function.
LEMMA RepeatsDefined ==
  ASSUME NEW g, NEW x
  PROVE  \E f : Repeats(f, g, x)
<1> DEFINE upTo(n) == CHOOSE f : Iterates(f, g, x, n)
           f == [n \in Nat |-> upTo(n)[n]]
<1>1. \A n \in Nat : Iterates(upTo(n), g, x, n)
  BY IteratesDefined
<1> HIDE DEF upTo
<1>2. ASSUME NEW k \in Nat PROVE f[k] = IF k = 0 THEN x ELSE g[f[k - 1]]
  <2>1. f[k] = upTo(k)[k] /\ k \in 0 .. k
    OBVIOUS
  <2>2. CASE k = 0
    BY <1>1, <2>1, <2>2 DEF Iterates
  <2>3. CASE k # 0
    <3>1. k - 1 \in Nat /\ f[k - 1] = upTo(k - 1)[k - 1]
      BY <2>3
    <3>2. upTo(k - 1)[k - 1] = upTo(k)[k - 1]
      BY <1>1, <3>1, IteratesUnique
    <3>3. upTo(k)[k] = g[upTo(k)[k - 1]]
      BY <1>1, <2>1, <2>3 DEF Iterates
    <3> QED
      BY <2>1, <2>3, <3>1, <3>2, <3>3
  <2> QED
    BY <2>2, <2>3
<1> HIDE DEF f
<1>3. DOMAIN f = Nat /\ f = [k \in Nat |-> f[k]]
  BY DEF f
<1>4. f[0] = x
  BY <1>2
<1>5. \A k \in Nat : f[k + 1] = g[f[k]]
  <2> TAKE k \in Nat
  <2>1. k + 1 \in Nat /\ k + 1 # 0 /\ (k + 1) - 1 = k
    OBVIOUS
  <2> QED
    BY <1>2, <2>1
<1> QED
  BY <1>3, <1>4, <1>5 DEF Repeats

\* What is near a node of the map is on the map.
LEMMA NearOnMap ==
  ASSUME NEW n \in Nodes, NEW W
  PROVE  Near(n, W) \in SUBSET Nodes
BY DEF Near

\* What a walk of n steps can reach: where it begins, then what is near that.
LEMMA ReachedIs ==
  ASSUME NEW a \in Nodes, NEW W
  PROVE  /\ Reached(0, a, W) = {a}
         /\ \A n \in Nat : Reached(n + 1, a, W)
                             = UNION {Near(m, W) : m \in Reached(n, a, W)}
         /\ \A n \in Nat : Reached(n, a, W) \in SUBSET Nodes
<1> DEFINE around(T) == UNION {Near(m, W) : m \in T}
           g == [T \in SUBSET Nodes |-> around(T)]
           r == CHOOSE r : r = [k \in Nat |-> IF k = 0 THEN {a} ELSE around(r[k - 1])]
<1>1. \A T \in SUBSET Nodes : around(T) \in SUBSET Nodes /\ g[T] = around(T)
  BY NearOnMap
<1>2. \A n : Reached(n, a, W) = r[n]
  BY DEF Reached
<1> HIDE DEF around, r
<1> HIDE DEF g
<1>3. PICK f : Repeats(f, g, {a})
  BY RepeatsDefined
<1>4. f[0] = {a} /\ \A k \in Nat : f[k + 1] = g[f[k]]
  BY <1>3 DEF Repeats
<1>5. \A k \in Nat : f[k] \in SUBSET Nodes
  <2> DEFINE bad == {k \in Nat : f[k] \notin SUBSET Nodes}
  <2> SUFFICES ASSUME bad # {} PROVE FALSE
    OBVIOUS
  <2>1. PICK k \in bad : \A j \in bad : k <= j
    <3>1. bad \in SUBSET Nat
      OBVIOUS
    <3> HIDE DEF bad
    <3> QED
      BY <3>1, LeastOf
  <2>2. k \in Nat /\ f[k] \notin SUBSET Nodes /\ k # 0
    BY <1>4
  <2>3. k - 1 \in Nat /\ k - 1 \notin bad
    BY <2>1, <2>2
  <2>4. f[k - 1] \in SUBSET Nodes /\ f[k] = g[f[k - 1]]
    BY <1>4, <2>3
  <2> QED
    BY <1>1, <2>2, <2>4
<1>6. f = [k \in Nat |-> IF k = 0 THEN {a} ELSE around(f[k - 1])]
  <2>1. \A k \in Nat : f[k] = IF k = 0 THEN {a} ELSE around(f[k - 1])
    <3> TAKE k \in Nat
    <3>1. CASE k = 0
      BY <1>4, <3>1
    <3>2. CASE k # 0
      <4>1. k - 1 \in Nat /\ (k - 1) + 1 = k
        BY <3>2
      <4>2. f[k] = g[f[k - 1]]
        BY <1>4, <4>1
      <4> QED
        BY <1>1, <1>5, <3>2, <4>1, <4>2
    <3> QED
      BY <3>1, <3>2
  <2>2. f = [k \in Nat |-> f[k]]
    BY <1>3 DEF Repeats
  <2> QED
    BY <2>1, <2>2
<1>7. r = [k \in Nat |-> IF k = 0 THEN {a} ELSE around(r[k - 1])]
  BY <1>6, Zenon DEF r
<1>8. \A k \in Nat : r[k] = IF k = 0 THEN {a} ELSE around(r[k - 1])
  BY <1>7
<1>9. \A k \in Nat : r[k] \in SUBSET Nodes
  <2> DEFINE bad == {k \in Nat : r[k] \notin SUBSET Nodes}
  <2> SUFFICES ASSUME bad # {} PROVE FALSE
    OBVIOUS
  <2>1. PICK k \in bad : \A j \in bad : k <= j
    <3>1. bad \in SUBSET Nat
      OBVIOUS
    <3> HIDE DEF bad
    <3> QED
      BY <3>1, LeastOf
  <2>2. k \in Nat /\ r[k] \notin SUBSET Nodes /\ k # 0
    BY <1>8
  <2>3. k - 1 \in Nat /\ k - 1 \notin bad
    BY <2>1, <2>2
  <2>4. r[k - 1] \in SUBSET Nodes /\ r[k] = around(r[k - 1])
    BY <1>8, <2>2, <2>3
  <2> QED
    BY <1>1, <2>2, <2>4
<1>10. \A n \in Nat : r[n + 1] = around(r[n])
  <2> TAKE n \in Nat
  <2>1. n + 1 \in Nat /\ n + 1 # 0 /\ (n + 1) - 1 = n
    OBVIOUS
  <2> QED
    BY <1>8, <2>1
<1>11. r[0] = {a}
  BY <1>8
<1> QED
  BY <1>2, <1>9, <1>10, <1>11 DEF around

\* A longer walk reaches what a shorter one does.
LEMMA ReachedGrows ==
  ASSUME NEW a \in Nodes, NEW W, NEW m \in Nat, NEW n \in Nat, m <= n
  PROVE  Reached(m, a, W) \subseteq Reached(n, a, W)
<1> DEFINE bad == {k \in Nat : k >= m /\ ~ (Reached(m, a, W) \subseteq Reached(k, a, W))}
<1> SUFFICES ASSUME bad # {} PROVE FALSE
  OBVIOUS
<1>1. PICK k \in bad : \A j \in bad : k <= j
  <2>1. bad \in SUBSET Nat
    OBVIOUS
  <2> HIDE DEF bad
  <2> QED
    BY <2>1, LeastOf
<1>2. k \in Nat /\ k > m /\ ~ (Reached(m, a, W) \subseteq Reached(k, a, W))
  BY <1>1
<1>3. k - 1 \in Nat /\ k - 1 >= m /\ k - 1 \notin bad
  BY <1>1, <1>2
<1>4. Reached(m, a, W) \subseteq Reached(k - 1, a, W)
  BY <1>3
<1>5. Reached(k, a, W) = UNION {Near(n0, W) : n0 \in Reached(k - 1, a, W)}
  <2>1. (k - 1) + 1 = k
    BY <1>2
  <2> QED
    BY <1>3, <2>1, ReachedIs
<1>6. \A n0 : n0 \in Near(n0, W)
  BY DEF Near
<1> QED
  BY <1>2, <1>4, <1>5, <1>6

\* The steps of the shortest walk from a to n.
Away(n, a, W) == CHOOSE k \in Nat : /\ n \in Reached(k, a, W)
                                    /\ \A j \in Nat : n \in Reached(j, a, W) => k <= j

\* There is a walk from a to n.
Connected(n, a, W) == \E k \in Nat : n \in Reached(k, a, W)

\* The walks to a node are those that take at least so many steps.
LEMMA AwayIs ==
  ASSUME NEW a \in Nodes, NEW W, NEW n, Connected(n, a, W)
  PROVE  /\ Away(n, a, W) \in Nat
         /\ n \in Reached(Away(n, a, W), a, W)
         /\ \A j \in Nat : n \in Reached(j, a, W) <=> Away(n, a, W) <= j
         /\ n \in Nodes
<1> DEFINE S == {k \in Nat : n \in Reached(k, a, W)}
<1>1. PICK k \in S : \A j \in S : k <= j
  <2>1. S \in SUBSET Nat /\ \E k \in S : TRUE
    BY DEF Connected
  <2> HIDE DEF S
  <2> QED
    BY <2>1, LeastOf
<1>2. /\ Away(n, a, W) \in Nat
      /\ n \in Reached(Away(n, a, W), a, W)
      /\ \A j \in Nat : n \in Reached(j, a, W) => Away(n, a, W) <= j
  BY <1>1 DEF Away
<1>3. \A j \in Nat : Away(n, a, W) <= j => n \in Reached(j, a, W)
  BY <1>2, ReachedGrows
<1>4. n \in Nodes
  BY <1>2, ReachedIs
<1> QED
  BY <1>2, <1>3, <1>4

\* Only the start is no step away.
LEMMA AwayStart ==
  ASSUME NEW a \in Nodes, NEW W
  PROVE  /\ Connected(a, a, W) /\ Away(a, a, W) = 0
         /\ \A n : Connected(n, a, W) /\ Away(n, a, W) = 0 => n = a
<1>1. a \in Reached(0, a, W) /\ \A n : n \in Reached(0, a, W) => n = a
  BY ReachedIs
<1>2. Connected(a, a, W)
  BY <1>1 DEF Connected
<1> QED
  BY <1>1, <1>2, AwayIs

\* Of what is near a node, all that a walk to the node itself does not reach is
\* one step further.
LEMMA AwayNext ==
  ASSUME NEW a \in Nodes, NEW W, NEW m, Connected(m, a, W),
         NEW n \in Near(m, W), n \notin Reached(Away(m, a, W), a, W)
  PROVE  Connected(n, a, W) /\ Away(n, a, W) = Away(m, a, W) + 1
<1> DEFINE k == Away(m, a, W)
<1>1. k \in Nat /\ m \in Reached(k, a, W)
  BY AwayIs
<1> HIDE DEF k
<1>2. n \in Reached(k + 1, a, W)
  <2>1. Reached(k + 1, a, W) = UNION {Near(m0, W) : m0 \in Reached(k, a, W)}
    BY <1>1, ReachedIs
  <2> QED
    BY <1>1, <2>1
<1>3. Connected(n, a, W)
  BY <1>1, <1>2 DEF Connected
<1>4. Away(n, a, W) <= k + 1 /\ ~ (Away(n, a, W) <= k) /\ Away(n, a, W) \in Nat
  BY <1>1, <1>2, <1>3, AwayIs DEF k
<1> QED
  BY <1>1, <1>3, <1>4 DEF k

\* Two whole numbers whose squares add up to one.
LEMMA UnitSquares ==
  ASSUME NEW x \in Int, NEW y \in Int, x * x + y * y = 1
  PROVE  \/ x = 0 /\ y \in {1, -1}
         \/ y = 0 /\ x \in {1, -1}
<1>1. ASSUME NEW z \in Int PROVE z * z >= 0 /\ (z \notin {0, 1, -1} => z * z >= 4)
  <2>1. CASE z >= 2
    BY <2>1
  <2>2. CASE z <= -2
    BY <2>2
  <2>3. CASE z \in {0, 1, -1}
    BY <2>3
  <2> QED
    BY <2>1, <2>2, <2>3
<1>2. x \in {0, 1, -1} /\ y \in {0, 1, -1}
  BY <1>1
<1> QED
  BY <1>2

\* The four directions lead to the nodes beside a node, and to all of them.
LEMMA DirectionsLeadBeside ==
  ASSUME NEW n \in Nodes, NEW i \in 1 .. 4
  PROVE  /\ Beside(getAdjacentNodeId(n, CARDINAL_DIRECTIONS[i]), n)
         /\ Beside(n, getAdjacentNodeId(n, CARDINAL_DIRECTIONS[i]))
<1>1. n[1] \in Int /\ n[2] \in Int
  BY MapAssumption DEF Nodes
<1>2. i \in {1, 2, 3, 4}
  OBVIOUS
<1> QED
  BY <1>1, <1>2 DEF Beside, getAdjacentNodeId, CARDINAL_DIRECTIONS

\* What is beside a node is where one of the directions leads.
LEMMA BesideIsADirection ==
  ASSUME NEW n \in Nodes, NEW m \in Nodes, Beside(m, n)
  PROVE  \E i \in 1 .. 4 : m = getAdjacentNodeId(n, CARDINAL_DIRECTIONS[i])
<1>1. /\ n[1] \in Int /\ n[2] \in Int /\ m[1] \in Int /\ m[2] \in Int
      /\ m = <<m[1], m[2]>>
  BY MapAssumption DEF Nodes
<1> DEFINE x == m[1] - n[1]
           y == m[2] - n[2]
<1>2. x \in Int /\ y \in Int /\ x * x + y * y = 1
  BY <1>1 DEF Beside
<1>3. \/ x = 0 /\ y \in {1, -1}
      \/ y = 0 /\ x \in {1, -1}
  <2> HIDE DEF x, y
  <2> QED
    BY <1>2, UnitSquares
<1>4. \/ m = <<n[1] - 1, n[2]>> \/ m = <<n[1] + 1, n[2]>>
      \/ m = <<n[1], n[2] + 1>> \/ m = <<n[1], n[2] - 1>>
  <2>1. x = 0 => m[1] = n[1]
    BY <1>1
  <2>2. y = 0 => m[2] = n[2]
    BY <1>1
  <2>3. (x = 1 => m[1] = n[1] + 1) /\ (x = -1 => m[1] = n[1] - 1)
    BY <1>1
  <2>4. (y = 1 => m[2] = n[2] + 1) /\ (y = -1 => m[2] = n[2] - 1)
    BY <1>1
  <2> HIDE DEF x, y
  <2> QED
    BY <1>1, <1>3, <2>1, <2>2, <2>3, <2>4
<1>5. /\ getAdjacentNodeId(n, CARDINAL_DIRECTIONS[1]) = <<n[1] - 1, n[2]>>
      /\ getAdjacentNodeId(n, CARDINAL_DIRECTIONS[2]) = <<n[1] + 1, n[2]>>
      /\ getAdjacentNodeId(n, CARDINAL_DIRECTIONS[3]) = <<n[1], n[2] + 1>>
      /\ getAdjacentNodeId(n, CARDINAL_DIRECTIONS[4]) = <<n[1], n[2] - 1>>
  BY <1>1 DEF getAdjacentNodeId, CARDINAL_DIRECTIONS
<1> QED
  BY <1>4, <1>5

(***************************************************************************)
(* The search.                                                             *)
(***************************************************************************)
SearchRecord ==
  [from : Nodes, to : Nodes, queue : Seq(Nodes), visited : SUBSET Nodes,
   previous : [Nodes -> Nodes \cup {None}], found : BOOLEAN]

\* What is visited hangs together as a tree whose branches are shortest walks.
Tree(s, W) ==
  /\ s.from \in s.visited /\ s.visited \cap W = {}
  /\ \A n \in s.visited : Connected(n, s.from, W)
  /\ \A n \in s.visited \ {s.from} :
       /\ s.previous[n] \in s.visited
       /\ Beside(s.previous[n], n)
       /\ Away(n, s.from, W) = Away(s.previous[n], s.from, W) + 1

\* What is queued is visited, and in the order of its distance.
Frontier(s, W, k) ==
  /\ ToSet(s.queue) \subseteq s.visited
  /\ \A i, j \in DOMAIN s.queue : i <= j =>
       /\ k <= Away(s.queue[i], s.from, W)
       /\ Away(s.queue[i], s.from, W) <= Away(s.queue[j], s.from, W)
       /\ Away(s.queue[j], s.from, W) <= k + 1

Common(s, W) ==
  /\ s \in SearchRecord
  /\ Tree(s, W)
  /\ s.found <=> s.to \in s.visited
  /\ s.found => s.queue = <<>>

\* While the nodes beside current are visited.
Expanding(s, W, current) ==
  /\ Common(s, W)
  /\ current \in s.visited
  /\ Reached(Away(current, s.from, W), s.from, W) \subseteq s.visited
  /\ ~ s.found =>
       /\ Frontier(s, W, Away(current, s.from, W))
       /\ \A m \in s.visited \ (ToSet(s.queue) \cup {current}) :
            Near(m, W) \subseteq s.visited

\* Between two nodes.
Searching(s, W) ==
  /\ Common(s, W)
  /\ ~ s.found =>
       /\ \A m \in s.visited \ ToSet(s.queue) : Near(m, W) \subseteq s.visited
       /\ s.queue # <<>> =>
            LET k == Away(Head(s.queue), s.from, W)
            IN  /\ Frontier(s, W, k)
                /\ Reached(k, s.from, W) \subseteq s.visited

\* A node that is visited from current becomes its leaf.
LEMMA LeafGrows ==
  ASSUME NEW s, NEW W, NEW current, Expanding(s, W, current),
         NEW n \in Nodes \ W, n \notin s.visited, Beside(n, current), Beside(current, n)
  PROVE  /\ Connected(n, s.from, W)
         /\ Away(n, s.from, W) = Away(current, s.from, W) + 1
         /\ n # s.from
<1>1. s.from \in Nodes /\ Connected(current, s.from, W) /\ n # s.from
  BY DEF Expanding, Common, Tree, SearchRecord
<1>2. n \in Near(current, W) /\ n \notin Reached(Away(current, s.from, W), s.from, W)
  BY DEF Near, Expanding
<1> QED
  BY <1>1, <1>2, AwayNext

\* visit looks at one of the nodes beside current.
Visits(u, s, current, n) ==
  /\ Expanding(u, walls, current)
  /\ u.from = s.from /\ u.to = s.to
  /\ s.visited \subseteq u.visited
  /\ s.found => u.found
  /\ n \in Nodes \ walls => u.found \/ n \in u.visited

LEMMA VisitExpands ==
  ASSUME NEW s, NEW current, Expanding(s, walls, current),
         NEW n, Beside(n, current), Beside(current, n)
  PROVE  Visits(visit(s, current, n), s, current, n)
<1> DEFINE u == visit(s, current, n)
           k == Away(current, s.from, walls)
           skip == s.found \/ n \in s.visited \/ n \notin Nodes \/ n \in walls
<1>1. CASE skip
  <2>1. u = s
    BY <1>1 DEF visit, isNodeWithinBounds, isPassable
  <2> QED
    BY <1>1, <2>1 DEF Visits
<1>2. CASE ~ skip
  <2> DEFINE V == s.visited \cup {n}
             P == [s.previous EXCEPT ![n] = current]
             Q == IF n = s.to THEN <<>> ELSE Append(s.queue, n)
  <2>0. s \in SearchRecord /\ ~ s.found /\ s.to \notin s.visited
    BY <1>2 DEF Expanding, Common
  <2>1. /\ u.from = s.from /\ u.to = s.to /\ u.visited = V
        /\ u.previous = P /\ u.queue = Q
        /\ u.found <=> n = s.to
        /\ u \in SearchRecord
    <3>1. u = [s EXCEPT !.visited = V, !.previous = P, !.found = (n = s.to), !.queue = Q]
      BY <1>2 DEF visit, isNodeWithinBounds, isPassable
    <3>2. V \in SUBSET Nodes /\ P \in [Nodes -> Nodes \cup {None}] /\ Q \in Seq(Nodes)
      BY <1>2, <2>0 DEF SearchRecord, Expanding
    <3> HIDE DEF u, V, P, Q
    <3>3. CASE n = s.to
      <4>1. u = [s EXCEPT !.visited = V, !.previous = P, !.found = TRUE, !.queue = Q]
        BY <3>1, <3>3
      <4> QED
        BY <2>0, <3>2, <3>3, <4>1 DEF SearchRecord
    <3>4. CASE n # s.to
      <4>1. u = [s EXCEPT !.visited = V, !.previous = P, !.found = FALSE, !.queue = Q]
        BY <3>1, <3>4
      <4> QED
        BY <2>0, <3>2, <3>4, <4>1 DEF SearchRecord
    <3> QED
      BY <3>3, <3>4
  <2>2. n \in Nodes \ walls /\ n \notin s.visited /\ current \in s.visited /\ current # n
    BY <1>2 DEF Expanding
  <2>3. Connected(n, s.from, walls) /\ Away(n, s.from, walls) = k + 1 /\ n # s.from
    BY <2>2, LeafGrows
  <2>4. k \in Nat
    BY AwayIs DEF Expanding, Common, Tree, SearchRecord
  <2> HIDE DEF u, k
  <2>5. P[n] = current /\ \A m \in s.visited : P[m] = s.previous[m]
    BY <2>0, <2>2 DEF SearchRecord
  <2> HIDE DEF P
  <2>6. Tree(u, walls)
    <3>1. u.from \in u.visited /\ u.visited \cap walls = {}
      BY <2>1, <2>2 DEF Expanding, Common, Tree
    <3>2. \A m \in u.visited : Connected(m, u.from, walls)
      BY <2>1, <2>3 DEF Expanding, Common, Tree
    <3>3. ASSUME NEW m \in u.visited \ {u.from}
          PROVE  /\ u.previous[m] \in u.visited
                 /\ Beside(u.previous[m], m)
                 /\ Away(m, u.from, walls) = Away(u.previous[m], u.from, walls) + 1
      <4>1. CASE m = n
        BY <2>1, <2>2, <2>3, <2>5, <4>1 DEF k
      <4>2. CASE m # n
        <5>1. m \in s.visited \ {s.from}
          BY <2>1, <4>2
        <5>2. u.previous[m] = s.previous[m]
          BY <2>1, <2>5, <5>1
        <5> QED
          BY <2>1, <5>1, <5>2 DEF Expanding, Common, Tree
      <4> QED
        BY <4>1, <4>2
    <3> QED
      BY <3>1, <3>2, <3>3 DEF Tree
  <2>7. Common(u, walls)
    BY <2>0, <2>1, <2>6 DEF Common
  <2>8. Reached(k, u.from, walls) \subseteq u.visited
    BY <2>1 DEF Expanding, k
  <2>9. ASSUME ~ u.found PROVE Frontier(u, walls, k)
    <3>1. u.queue = Append(s.queue, n) /\ s.queue \in Seq(Nodes)
      BY <2>0, <2>1, <2>9 DEF SearchRecord
    <3>2. /\ Len(u.queue) = Len(s.queue) + 1 /\ Len(s.queue) \in Nat
          /\ u.queue[Len(s.queue) + 1] = n
          /\ \A i \in 1 .. Len(s.queue) : u.queue[i] = s.queue[i]
          /\ DOMAIN u.queue = 1 .. Len(s.queue) + 1 /\ DOMAIN s.queue = 1 .. Len(s.queue)
      BY <2>2, <3>1
    <3>3. Frontier(s, walls, k)
      BY <2>0 DEF Expanding, k
    <3>4. ToSet(u.queue) \subseteq u.visited
      <4>1. \A i \in 1 .. Len(s.queue) : s.queue[i] \in s.visited
        BY <3>2, <3>3 DEF Frontier, ToSet
      <4>2. \A i \in DOMAIN u.queue : u.queue[i] \in u.visited
        BY <2>1, <3>2, <4>1
      <4> QED
        BY <4>2 DEF ToSet
    <3> DEFINE d(i) == Away(u.queue[i], u.from, walls)
    <3>5. \A i, j \in 1 .. Len(s.queue) : i <= j => k <= d(i) /\ d(i) <= d(j) /\ d(j) <= k + 1
      BY <2>1, <3>2, <3>3 DEF Frontier
    <3>6. d(Len(s.queue) + 1) = k + 1
      BY <2>1, <2>3, <3>2
    <3>7. \A i, j \in 1 .. Len(s.queue) + 1 : i <= j => k <= d(i) /\ d(i) <= d(j) /\ d(j) <= k + 1
      <4> HIDE DEF d
      <4>1. SUFFICES ASSUME NEW i \in 1 .. Len(s.queue) + 1, NEW j \in 1 .. Len(s.queue) + 1,
                            i <= j
                     PROVE  k <= d(i) /\ d(i) <= d(j) /\ d(j) <= k + 1
        OBVIOUS
      <4>2. CASE j # Len(s.queue) + 1
        <5>1. i \in 1 .. Len(s.queue) /\ j \in 1 .. Len(s.queue)
          BY <3>2, <4>1, <4>2
        <5> QED
          BY <3>5, <4>1, <5>1
      <4>3. CASE j = Len(s.queue) + 1 /\ i # j
        <5>1. i \in 1 .. Len(s.queue)
          BY <3>2, <4>3
        <5>2. k <= d(i) /\ d(i) <= k + 1
          BY <3>5, <5>1
        <5> QED
          BY <3>6, <4>3, <5>2, <2>4
      <4>4. CASE j = Len(s.queue) + 1 /\ i = j
        BY <2>4, <3>6, <4>4
      <4> QED
        BY <4>2, <4>3, <4>4
    <3> QED
      BY <3>2, <3>4, <3>7 DEF Frontier
  <2>10. ASSUME ~ u.found, NEW m \in u.visited \ (ToSet(u.queue) \cup {current})
         PROVE  Near(m, walls) \subseteq u.visited
    <3>1. u.queue = Append(s.queue, n) /\ s.queue \in Seq(Nodes)
      BY <2>0, <2>1, <2>10 DEF SearchRecord
    <3>2. ToSet(u.queue) = ToSet(s.queue) \cup {n}
      BY <2>2, <3>1 DEF ToSet
    <3>3. m \in s.visited \ (ToSet(s.queue) \cup {current})
      BY <2>1, <2>10, <3>2
    <3> QED
      BY <2>0, <2>1, <3>3 DEF Expanding
  <2>11. Expanding(u, walls, current)
    BY <2>1, <2>2, <2>7, <2>8, <2>9, <2>10 DEF Expanding, k
  <2> QED
    BY <2>0, <2>1, <2>11 DEF u, Visits
<1> QED
  BY <1>1, <1>2

\* Around a node all four are looked at, unless the goal is among them.
LEMMA AroundExpands ==
  ASSUME NEW s, NEW current \in Nodes, Expanding(s, walls, current)
  PROVE  LET u == visitAround(s, current)
         IN  /\ Expanding(u, walls, current)
             /\ u.from = s.from /\ u.to = s.to
             /\ ~ u.found => Near(current, walls) \subseteq u.visited
<1> DEFINE beside(i) == getAdjacentNodeId(current, CARDINAL_DIRECTIONS[i])
           u1 == visit(s, current, beside(1))
           u2 == visit(u1, current, beside(2))
           u3 == visit(u2, current, beside(3))
           u4 == visit(u3, current, beside(4))
<1>1. visitAround(s, current) = u4
  BY DEF visitAround
<1>2. \A i \in 1 .. 4 : Beside(beside(i), current) /\ Beside(current, beside(i))
  BY DirectionsLeadBeside
<1>3. \A m \in Nodes : Beside(m, current) => \E i \in 1 .. 4 : m = beside(i)
  BY BesideIsADirection
<1> HIDE DEF beside
<1>4. Visits(u1, s, current, beside(1)) /\ Expanding(u1, walls, current)
  <2>1. Visits(u1, s, current, beside(1))
    BY <1>2, VisitExpands
  <2> QED
    BY <2>1 DEF Visits
<1> HIDE DEF u1
<1>5. Visits(u2, u1, current, beside(2)) /\ Expanding(u2, walls, current)
  <2>1. Visits(u2, u1, current, beside(2))
    BY <1>2, <1>4, VisitExpands
  <2> QED
    BY <2>1 DEF Visits
<1> HIDE DEF u2
<1>6. Visits(u3, u2, current, beside(3)) /\ Expanding(u3, walls, current)
  <2>1. Visits(u3, u2, current, beside(3))
    BY <1>2, <1>5, VisitExpands
  <2> QED
    BY <2>1 DEF Visits
<1> HIDE DEF u3
<1>7. Visits(u4, u3, current, beside(4)) /\ Expanding(u4, walls, current)
  <2>1. Visits(u4, u3, current, beside(4))
    BY <1>2, <1>6, VisitExpands
  <2> QED
    BY <2>1 DEF Visits
<1> HIDE DEF u4
<1>8. ASSUME ~ u4.found, NEW m \in Near(current, walls) PROVE m \in u4.visited
  <2>1. CASE m = current
    BY <1>7, <2>1 DEF Expanding
  <2>2. CASE m # current
    <3>1. m \in Nodes \ walls /\ Beside(m, current)
      BY <1>8, <2>2 DEF Near
    <3>2. PICK i \in 1 .. 4 : m = beside(i)
      BY <1>3, <3>1
    <3>3. i \in {1, 2, 3, 4}
      OBVIOUS
    <3> QED
      BY <1>4, <1>5, <1>6, <1>7, <1>8, <3>1, <3>2, <3>3 DEF Visits
  <2> QED
    BY <2>1, <2>2
<1>9. u4.from = s.from /\ u4.to = s.to
  BY <1>4, <1>5, <1>6, <1>7 DEF Visits
<1> QED
  BY <1>1, <1>7, <1>8, <1>9

\* Taking the first node off the queue, and what is near the nodes at the same
\* distance was visited.
LEMMA TakenExpands ==
  ASSUME NEW s, Searching(s, walls), s.queue # <<>>
  PROVE  LET t == [s EXCEPT !.queue = Tail(@)]
         IN  Expanding(t, walls, Head(s.queue)) /\ Head(s.queue) \in Nodes
<1> DEFINE t == [s EXCEPT !.queue = Tail(@)]
           current == Head(s.queue)
           k == Away(current, s.from, walls)
<1>1. s \in SearchRecord /\ s.queue \in Seq(Nodes) /\ ~ s.found
  BY DEF Searching, Common, SearchRecord
<1>2. /\ current = s.queue[1] /\ 1 \in DOMAIN s.queue /\ current \in Nodes
      /\ Tail(s.queue) \in Seq(Nodes) /\ Len(Tail(s.queue)) = Len(s.queue) - 1
      /\ \A i \in 1 .. Len(s.queue) - 1 : Tail(s.queue)[i] = s.queue[i + 1]
      /\ DOMAIN Tail(s.queue) = 1 .. Len(s.queue) - 1
      /\ DOMAIN s.queue = 1 .. Len(s.queue) /\ Len(s.queue) \in Nat \ {0}
  BY <1>1
<1>3. /\ t.from = s.from /\ t.to = s.to /\ t.visited = s.visited
      /\ t.previous = s.previous /\ t.found = s.found /\ t.queue = Tail(s.queue)
      /\ t \in SearchRecord
  BY <1>1, <1>2 DEF SearchRecord
<1>4. Frontier(s, walls, k) /\ Reached(k, s.from, walls) \subseteq s.visited
  BY <1>1 DEF Searching
<1> HIDE DEF t
<1>5. Common(t, walls)
  BY <1>1, <1>3 DEF Searching, Common, Tree
<1>6. current \in t.visited
  BY <1>2, <1>3, <1>4 DEF Frontier, ToSet
<1>7. ToSet(s.queue) = ToSet(t.queue) \cup {current}
  <2>1. ASSUME NEW i \in DOMAIN s.queue PROVE s.queue[i] \in ToSet(t.queue) \cup {current}
    <3>1. CASE i = 1
      BY <1>2, <3>1
    <3>2. CASE i # 1
      <4>1. i - 1 \in 1 .. Len(s.queue) - 1 /\ (i - 1) + 1 = i
        BY <1>2, <3>2
      <4>2. t.queue[i - 1] = s.queue[i] /\ i - 1 \in DOMAIN t.queue
        BY <1>2, <1>3, <4>1
      <4> QED
        BY <4>2 DEF ToSet
    <3> QED
      BY <3>1, <3>2
  <2>2. ASSUME NEW i \in DOMAIN t.queue PROVE t.queue[i] \in ToSet(s.queue)
    <3>1. i + 1 \in DOMAIN s.queue /\ t.queue[i] = s.queue[i + 1]
      BY <1>2, <1>3
    <3> QED
      BY <3>1 DEF ToSet
  <2>3. current \in ToSet(s.queue)
    BY <1>2 DEF ToSet
  <2> QED
    BY <2>1, <2>2, <2>3 DEF ToSet
<1> HIDE DEF current, k
<1>8. Frontier(t, walls, k)
  <2>1. ToSet(t.queue) \subseteq t.visited
    BY <1>3, <1>4, <1>7 DEF Frontier
  <2>2. ASSUME NEW i \in DOMAIN t.queue, NEW j \in DOMAIN t.queue, i <= j
        PROVE  /\ k <= Away(t.queue[i], t.from, walls)
               /\ Away(t.queue[i], t.from, walls) <= Away(t.queue[j], t.from, walls)
               /\ Away(t.queue[j], t.from, walls) <= k + 1
    <3>1. /\ i + 1 \in DOMAIN s.queue /\ t.queue[i] = s.queue[i + 1]
          /\ j + 1 \in DOMAIN s.queue /\ t.queue[j] = s.queue[j + 1] /\ i + 1 <= j + 1
      BY <1>2, <1>3, <2>2
    <3> QED
      BY <1>3, <1>4, <3>1 DEF Frontier
  <2> QED
    BY <2>1, <2>2 DEF Frontier
<1>9. \A m \in t.visited \ (ToSet(t.queue) \cup {current}) : Near(m, walls) \subseteq t.visited
  BY <1>1, <1>3, <1>7 DEF Searching
<1> QED
  BY <1>2, <1>3, <1>4, <1>5, <1>6, <1>8, <1>9 DEF Expanding, t, k, current

\* When all that is near the node was visited, the next one can be taken.
LEMMA AroundSearches ==
  ASSUME NEW u, NEW W, NEW current, Expanding(u, W, current),
         ~ u.found => Near(current, W) \subseteq u.visited
  PROVE  Searching(u, W)
<1> DEFINE k == Away(current, u.from, W)
<1>1. Common(u, W) /\ u.from \in Nodes /\ u.queue \in Seq(Nodes)
  BY DEF Expanding, Common, SearchRecord
<1>2. k \in Nat
  BY <1>1, AwayIs DEF Expanding, Common, Tree
<1> SUFFICES ASSUME ~ u.found PROVE Searching(u, W)
  BY <1>1 DEF Searching
<1>3. Frontier(u, W, k) /\ Reached(k, u.from, W) \subseteq u.visited
  BY DEF Expanding
<1>4. \A m \in u.visited \ ToSet(u.queue) : Near(m, W) \subseteq u.visited
  BY DEF Expanding
<1> HIDE DEF k
<1>5. ASSUME u.queue # <<>>
      PROVE  LET h == Away(Head(u.queue), u.from, W)
             IN  Frontier(u, W, h) /\ Reached(h, u.from, W) \subseteq u.visited
  <2> DEFINE h == Away(Head(u.queue), u.from, W)
  <2>1. Head(u.queue) = u.queue[1] /\ 1 \in DOMAIN u.queue
        /\ \A i \in DOMAIN u.queue : 1 <= i /\ i \in Nat
    BY <1>1, <1>5
  <2>2. Head(u.queue) \in u.visited
    BY <1>3, <2>1 DEF Frontier, ToSet
  <2>3. h \in Nat
    BY <1>1, <2>2, AwayIs DEF Common, Tree
  <2>4. \A i \in DOMAIN u.queue : h <= Away(u.queue[i], u.from, W)
    BY <1>3, <2>1 DEF Frontier
  <2>5. k <= h /\ h <= k + 1
    BY <1>3, <2>1 DEF Frontier
  <2>6. \A i \in DOMAIN u.queue : Away(u.queue[i], u.from, W) \in Nat
    BY <1>1, <1>3, AwayIs DEF Frontier, ToSet, Common, Tree
  <2> HIDE DEF h
  <2>7. Frontier(u, W, h)
    <3> SUFFICES ASSUME NEW i \in DOMAIN u.queue, NEW j \in DOMAIN u.queue, i <= j
                 PROVE  /\ h <= Away(u.queue[i], u.from, W)
                        /\ Away(u.queue[i], u.from, W) <= Away(u.queue[j], u.from, W)
                        /\ Away(u.queue[j], u.from, W) <= h + 1
      BY <1>3 DEF Frontier
    <3>1. /\ Away(u.queue[i], u.from, W) <= Away(u.queue[j], u.from, W)
          /\ Away(u.queue[j], u.from, W) <= k + 1
      BY <1>3 DEF Frontier
    <3> QED
      BY <1>2, <2>3, <2>4, <2>5, <2>6, <3>1
  <2>8. Reached(h, u.from, W) \subseteq u.visited
    <3>1. CASE h = k
      BY <1>3, <3>1
    <3>2. CASE h # k
      <4>1. h = k + 1
        BY <1>2, <2>3, <2>5, <3>2
      <4>2. Reached(h, u.from, W) = UNION {Near(m, W) : m \in Reached(k, u.from, W)}
        BY <1>1, <1>2, <4>1, ReachedIs
      <4>3. ASSUME NEW m \in Reached(k, u.from, W) PROVE Near(m, W) \subseteq u.visited
        <5>1. m \in u.visited /\ Connected(m, u.from, W)
          BY <1>1, <1>3, <4>3 DEF Common, Tree
        <5>2. Away(m, u.from, W) <= k /\ Away(m, u.from, W) \in Nat
          BY <1>1, <1>2, <4>3, <5>1, AwayIs
        <5>3. m \notin ToSet(u.queue)
          <6> SUFFICES ASSUME NEW i \in DOMAIN u.queue, u.queue[i] = m PROVE FALSE
            BY DEF ToSet
          <6> QED
            BY <1>2, <2>4, <4>1, <5>2
        <5> QED
          BY <1>4, <5>1, <5>3
      <4> QED
        BY <4>2, <4>3
    <3> QED
      BY <3>1, <3>2
  <2> QED
    BY <2>7, <2>8 DEF h
<1> QED
  BY <1>1, <1>4, <1>5 DEF Searching

\* A step of the search.
LEMMA ExpandedSearches ==
  ASSUME NEW s, Searching(s, walls), s.queue # <<>>
  PROVE  Searching(expanded(s), walls)
<1> DEFINE t == [s EXCEPT !.queue = Tail(@)]
           current == Head(s.queue)
           u == visitAround(t, current)
<1>1. Expanding(t, walls, current) /\ current \in Nodes
  BY TakenExpands
<1> HIDE DEF t, current
<1>2. /\ Expanding(u, walls, current)
      /\ ~ u.found => Near(current, walls) \subseteq u.visited
  BY <1>1, AroundExpands
<1> HIDE DEF u
<1>3. Searching(u, walls)
  BY <1>2, AroundSearches
<1> QED
  BY <1>3 DEF expanded, u, t, current

\* A search begins with what is reached without a step.
LEMMA BeginSearches ==
  ASSUME walls \in SUBSET Nodes, NEW a \in Nodes \ walls, NEW b \in Nodes
  PROVE  Searching(findPath(a, b), walls)
<1> DEFINE s == findPath(a, b)
           Q == IF a = b THEN <<>> ELSE <<a>>
<1>1. /\ s.from = a /\ s.to = b /\ s.queue = Q /\ s.visited = {a}
      /\ s.found <=> a = b
      /\ s \in SearchRecord
  <2>1. Q \in Seq(Nodes) /\ {a} \in SUBSET Nodes
        /\ [n \in Nodes |-> None] \in [Nodes -> Nodes \cup {None}]
    OBVIOUS
  <2>2. CASE a = b
    <3>1. s = [from |-> a, to |-> b, queue |-> Q, visited |-> {a},
               previous |-> [n \in Nodes |-> None], found |-> TRUE]
      BY <2>2 DEF findPath
    <3> QED
      BY <2>1, <2>2, <3>1 DEF SearchRecord
  <2>3. CASE a # b
    <3>1. s = [from |-> a, to |-> b, queue |-> Q, visited |-> {a},
               previous |-> [n \in Nodes |-> None], found |-> FALSE]
      BY <2>3 DEF findPath
    <3> QED
      BY <2>1, <2>3, <3>1 DEF SearchRecord
  <2> QED
    BY <2>2, <2>3
<1> HIDE DEF s
<1>2. Connected(a, a, walls) /\ Away(a, a, walls) = 0
  BY AwayStart
<1>3. Common(s, walls)
  BY <1>1, <1>2 DEF Common, Tree
<1>4. ASSUME ~ s.found
      PROVE  /\ ToSet(s.queue) = {a} /\ Head(s.queue) = a
             /\ Frontier(s, walls, 0) /\ Reached(0, a, walls) = {a}
  <2>1. s.queue = <<a>>
    BY <1>1, <1>4
  <2>2. ToSet(s.queue) = {a} /\ Head(s.queue) = a
        /\ \A i \in DOMAIN s.queue : s.queue[i] = a
    BY <2>1 DEF ToSet
  <2> QED
    BY <1>1, <1>2, <2>2, ReachedIs DEF Frontier
<1>5. Searching(s, walls)
  BY <1>1, <1>2, <1>3, <1>4 DEF Searching
<1> QED
  BY <1>5 DEF s

\* When the queue is empty and the goal was not met, no walk reaches it.
LEMMA UnreachedForever ==
  ASSUME NEW s, NEW W, Searching(s, W), s.queue = <<>>, ~ s.found, NEW n \in Nat
  PROVE  s.to \notin Reached(n, s.from, W)
<1>1. s.from \in Nodes /\ s.from \in s.visited /\ s.to \notin s.visited
      /\ \A m \in s.visited : Near(m, W) \subseteq s.visited
  BY DEF Searching, Common, SearchRecord, Tree, ToSet
<1> DEFINE bad == {k \in Nat : ~ (Reached(k, s.from, W) \subseteq s.visited)}
<1>2. bad = {}
  <2> SUFFICES ASSUME bad # {} PROVE FALSE
    OBVIOUS
  <2>1. PICK k \in bad : \A j \in bad : k <= j
    <3>1. bad \in SUBSET Nat
      OBVIOUS
    <3> HIDE DEF bad
    <3> QED
      BY <3>1, LeastOf
  <2>2. k \in Nat /\ ~ (Reached(k, s.from, W) \subseteq s.visited)
    OBVIOUS
  <2>3. k # 0
    BY <1>1, <2>2, ReachedIs
  <2>4. k - 1 \in Nat /\ k - 1 \notin bad /\ (k - 1) + 1 = k
    BY <2>1, <2>2, <2>3
  <2>5. Reached(k - 1, s.from, W) \subseteq s.visited
    BY <2>4
  <2>6. Reached(k, s.from, W) = UNION {Near(m, W) : m \in Reached(k - 1, s.from, W)}
    <3> HIDE DEF bad
    <3>1. Reached((k - 1) + 1, s.from, W)
            = UNION {Near(m, W) : m \in Reached(k - 1, s.from, W)}
      BY <1>1, <2>4, ReachedIs
    <3> QED
      BY <2>4, <3>1
  <2> QED
    BY <1>1, <2>2, <2>5, <2>6
<1> QED
  BY <1>1, <1>2

\* The way back from the goal.
Back(s) ==
  CHOOSE b : b = [k \in Nat |-> IF k = 0 THEN s.to ELSE s.previous[b[k - 1]]]

\* It follows what each node was visited from.
LEMMA BackIs ==
  ASSUME NEW s
  PROVE  Back(s)[0] = s.to /\ \A k \in Nat : Back(s)[k + 1] = s.previous[Back(s)[k]]
<1> DEFINE g == s.previous
           b == Back(s)
<1>1. PICK f : Repeats(f, g, s.to)
  BY RepeatsDefined
<1>2. f = [k \in Nat |-> IF k = 0 THEN s.to ELSE s.previous[f[k - 1]]]
  <2>1. \A k \in Nat : f[k] = IF k = 0 THEN s.to ELSE s.previous[f[k - 1]]
    <3> TAKE k \in Nat
    <3>1. k # 0 => k - 1 \in Nat /\ (k - 1) + 1 = k
      OBVIOUS
    <3> QED
      BY <1>1, <3>1 DEF Repeats
  <2>2. f = [k \in Nat |-> f[k]]
    BY <1>1 DEF Repeats
  <2> QED
    BY <2>1, <2>2
<1>3. b = [k \in Nat |-> IF k = 0 THEN s.to ELSE s.previous[b[k - 1]]]
  BY <1>2, Zenon DEF Back
<1> HIDE DEF b
<1>4. \A k \in Nat : b[k] = IF k = 0 THEN s.to ELSE s.previous[b[k - 1]]
  BY <1>3
<1>5. \A k \in Nat : b[k + 1] = s.previous[b[k]]
  <2> TAKE k \in Nat
  <2>1. k + 1 \in Nat /\ k + 1 # 0 /\ (k + 1) - 1 = k
    OBVIOUS
  <2> QED
    BY <1>4, <2>1
<1> QED
  BY <1>4, <1>5 DEF b

\* It comes nearer to the start with every step, over nodes that were visited.
LEMMA BackComesNearer ==
  ASSUME NEW s, NEW W, Common(s, W), s.to \in s.visited
  PROVE  /\ Away(s.to, s.from, W) \in Nat
         /\ \A k \in 0 .. Away(s.to, s.from, W) :
              /\ Back(s)[k] \in s.visited
              /\ Away(Back(s)[k], s.from, W) = Away(s.to, s.from, W) - k
<1> DEFINE d == Away(s.to, s.from, W)
           good(k) == Back(s)[k] \in s.visited /\ Away(Back(s)[k], s.from, W) = d - k
           bad == {k \in Nat : k <= d /\ ~ good(k)}
<1>1. s.from \in Nodes /\ d \in Nat
  <2>1. s.from \in Nodes /\ Connected(s.to, s.from, W)
    BY DEF Common, SearchRecord, Tree
  <2> QED
    BY <2>1, AwayIs
<1>2. bad = {}
  <2> SUFFICES ASSUME bad # {} PROVE FALSE
    OBVIOUS
  <2>1. PICK k \in bad : \A j \in bad : k <= j
    <3>1. bad \in SUBSET Nat
      OBVIOUS
    <3> HIDE DEF bad
    <3> QED
      BY <3>1, LeastOf
  <2>2. k \in Nat /\ k <= d /\ ~ good(k)
    BY <2>1
  <2>3. k # 0
    BY <1>1, <2>2, BackIs
  <2>4. k - 1 \in Nat /\ k - 1 \notin bad /\ k - 1 <= d /\ (k - 1) + 1 = k
    BY <1>1, <2>1, <2>2, <2>3
  <2>5. good(k - 1)
    BY <2>4
  <2>6. Back(s)[k] = s.previous[Back(s)[k - 1]]
    BY <2>4, BackIs
  <2>7. Back(s)[k - 1] \in s.visited \ {s.from}
    <3>1. Away(Back(s)[k - 1], s.from, W) # 0
      BY <1>1, <2>2, <2>4, <2>5
    <3> QED
      BY <1>1, <2>5, <3>1, AwayStart
  <2>8. /\ Back(s)[k] \in s.visited
        /\ Away(Back(s)[k - 1], s.from, W) = Away(Back(s)[k], s.from, W) + 1
    BY <2>6, <2>7 DEF Common, Tree
  <2>9. Away(Back(s)[k], s.from, W) \in Nat
    BY <1>1, <2>8, AwayIs DEF Common, Tree
  <2> HIDE DEF bad, d
  <2> QED
    BY <1>1, <2>2, <2>4, <2>5, <2>8, <2>9
<1> QED
  BY <1>1, <1>2

\* There are as many nodes as rows times columns.
LEMMA MapIsFinite == IsFiniteSet(Nodes) /\ Cardinality(Nodes) = Rows * Cols
<1>1. Rows \in Nat \ {0} /\ Cols \in Nat \ {0}
  BY MapAssumption
<1>2. /\ IsFiniteSet(1 .. Rows) /\ Cardinality(1 .. Rows) = Rows
      /\ IsFiniteSet(1 .. Cols) /\ Cardinality(1 .. Cols) = Cols
  BY <1>1, FS_Interval
<1> DEFINE S == 1 .. Rows
           T == 1 .. Cols
<1>3. Nodes = S \X T
  BY DEF Nodes
<1> HIDE DEF S, T
<1>4. IsFiniteSet(S \X T) /\ Cardinality(S \X T) = Cardinality(S) * Cardinality(T)
  BY <1>2, FS_Product DEF S, T
<1> QED
  BY <1>2, <1>3, <1>4 DEF S, T

\* So that no node is further away than that: the way back passes none twice.
LEMMA AwayIsBounded ==
  ASSUME NEW s, NEW W, Common(s, W), s.to \in s.visited
  PROVE  Away(s.to, s.from, W) < Rows * Cols
<1> DEFINE d == Away(s.to, s.from, W)
           f == [k \in 0 .. d |-> Back(s)[k]]
<1>1. d \in Nat /\ \A k \in 0 .. d : /\ Back(s)[k] \in s.visited
                                     /\ Away(Back(s)[k], s.from, W) = d - k
  BY BackComesNearer
<1>2. s.visited \subseteq Nodes /\ Rows * Cols \in Nat
  BY MapAssumption DEF Common, SearchRecord
<1> HIDE DEF d
<1>3. f \in [0 .. d -> Nodes] /\ \A x, y \in 0 .. d : f[x] = f[y] => x = y
  BY <1>1, <1>2
<1>4. IsFiniteSet(0 .. d) /\ Cardinality(0 .. d) = d + 1
  BY <1>1, FS_Interval
<1> HIDE DEF f
<1>5. ~ (Cardinality(Nodes) < Cardinality(0 .. d))
  BY <1>3, <1>4, MapIsFinite, FS_PigeonHole
<1> QED
  BY <1>1, <1>2, <1>4, <1>5, MapIsFinite DEF d

\* What is reconstructed is the way back, turned round.
LEMMA PathIs ==
  ASSUME NEW s, NEW W, Common(s, W), s.to \in s.visited
  PROVE  reconstructPath(s) = [i \in 1 .. Away(s.to, s.from, W)
                                 |-> Back(s)[Away(s.to, s.from, W) - i]]
<1> DEFINE d == Away(s.to, s.from, W)
           stops(k) == /\ Back(s)[k] = s.from
                       /\ \A j \in 0 .. k - 1 : Back(s)[j] # s.from
           length == CHOOSE k \in 0 .. Rows * Cols : stops(k)
<1>1. d \in Nat /\ \A k \in 0 .. d : /\ Back(s)[k] \in s.visited
                                     /\ Away(Back(s)[k], s.from, W) = d - k
  BY BackComesNearer
<1>2. s.from \in Nodes /\ \A n \in s.visited : Connected(n, s.from, W)
  BY DEF Common, SearchRecord, Tree
<1>3. d \in 0 .. Rows * Cols
  BY <1>1, AwayIsBounded, MapAssumption
<1> HIDE DEF d
<1>4. \A k \in 0 .. d : Back(s)[k] = s.from <=> k = d
  <2> TAKE k \in 0 .. d
  <2>1. Back(s)[k] = s.from <=> Away(Back(s)[k], s.from, W) = 0
    BY <1>1, <1>2, AwayStart
  <2> QED
    BY <1>1, <2>1
<1>5. stops(d)
  BY <1>1, <1>4
<1>6. ASSUME NEW k \in 0 .. Rows * Cols, stops(k) PROVE k = d
  <2>1. CASE k <= d
    BY <1>1, <1>4, <1>6, <2>1
  <2>2. CASE k > d
    <3>1. d \in 0 .. k - 1
      BY <1>1, <1>6, <2>2
    <3> QED
      BY <1>1, <1>4, <1>6, <3>1
  <2> QED
    BY <1>1, <2>1, <2>2
<1> HIDE DEF stops
<1>7. length = d
  BY <1>3, <1>5, <1>6
<1>8. reconstructPath(s) = [i \in 1 .. length |-> Back(s)[length - i]]
  BY DEF reconstructPath, Back, length, stops
<1> HIDE DEF length
<1> QED
  BY <1>7, <1>8 DEF d

\* A search that is over found a shortest path, or that there is none.
LEMMA SearchedIsShortest ==
  ASSUME Searching(search, walls)
  PROVE  PathIsShortest
<1> DEFINE s == search
           d == Away(s.to, s.from, walls)
           path == <<s.from>> \o reconstructPath(s)
<1> SUFFICES ASSUME s.queue = <<>>
             PROVE  IF ~ s.found THEN s.to \notin Reached(Rows * Cols, s.from, walls)
                    ELSE /\ path[Len(path)] = s.to
                         /\ \A i \in 2 .. Len(path) :
                              path[i] \in Nodes \ walls /\ Beside(path[i - 1], path[i])
                         /\ Len(path) > 1 =>
                              s.to \notin Reached(Len(path) - 2, s.from, walls)
  BY DEF PathIsShortest
<1>1. CASE ~ s.found
  <2>1. Rows * Cols \in Nat
    BY MapAssumption
  <2> QED
    BY <1>1, <2>1, UnreachedForever
<1>2. CASE s.found
  <2>1. Common(s, walls) /\ s.to \in s.visited
    BY <1>2 DEF Searching, Common
  <2>2. /\ s.from \in Nodes /\ s.visited \subseteq Nodes \ walls
        /\ \A n \in s.visited : Connected(n, s.from, walls)
    BY <2>1 DEF Common, SearchRecord, Tree
  <2>3. d \in Nat /\ \A k \in 0 .. d : /\ Back(s)[k] \in s.visited
                                       /\ Away(Back(s)[k], s.from, walls) = d - k
    BY <2>1, BackComesNearer
  <2>4. reconstructPath(s) = [i \in 1 .. d |-> Back(s)[d - i]]
    BY <2>1, PathIs
  <2> HIDE DEF d
  <2>5. Back(s)[d] = s.from /\ Back(s)[0] = s.to
    <3>1. Away(Back(s)[d], s.from, walls) = 0 /\ Back(s)[d] \in s.visited
      BY <2>3
    <3> QED
      BY <2>2, <3>1, AwayStart, BackIs
  <2>6. Len(path) = d + 1 /\ \A i \in 1 .. d + 1 : path[i] = Back(s)[d + 1 - i]
    <3> DEFINE p == [i \in 1 .. d |-> Back(s)[d - i]]
    <3>1. p \in Seq(Nodes) /\ Len(p) = d /\ \A i \in 1 .. d : p[i] = Back(s)[d - i]
      BY <2>2, <2>3
    <3> HIDE DEF p
    <3>2. <<s.from>> \in Seq(Nodes) /\ Len(<<s.from>>) = 1 /\ <<s.from>>[1] = s.from
      BY <2>2
    <3>3. path = <<s.from>> \o p
      BY <2>4 DEF p
    <3>4. Len(path) = d + 1 /\ path[1] = s.from
          /\ \A i \in 2 .. d + 1 : path[i] = p[i - 1]
      BY <2>3, <3>1, <3>2, <3>3
    <3> HIDE DEF path
    <3>5. ASSUME NEW i \in 1 .. d + 1 PROVE path[i] = Back(s)[d + 1 - i]
      <4>1. CASE i = 1
        BY <2>3, <2>5, <3>4, <4>1
      <4>2. CASE i # 1
        <5>1. i \in 2 .. d + 1 /\ i - 1 \in 1 .. d /\ d - (i - 1) = d + 1 - i
          BY <2>3, <4>2
        <5> QED
          BY <3>1, <3>4, <5>1
      <4> QED
        BY <4>1, <4>2
    <3> QED
      BY <3>4, <3>5
  <2> HIDE DEF path
  <2>7. path[Len(path)] = s.to
    BY <2>3, <2>5, <2>6
  <2>8. ASSUME NEW i \in 2 .. Len(path)
        PROVE  path[i] \in Nodes \ walls /\ Beside(path[i - 1], path[i])
    <3> DEFINE k == d + 1 - i
               n == Back(s)[k]
    <3>1. /\ k \in 0 .. d - 1 /\ k \in 0 .. d /\ k \in Nat /\ i \in 1 .. d + 1
          /\ i - 1 \in 1 .. d + 1 /\ k + 1 = d + 1 - (i - 1)
      BY <2>3, <2>6, <2>8
    <3>2. path[i] = n /\ path[i - 1] = Back(s)[k + 1]
      BY <2>6, <3>1
    <3> HIDE DEF k
    <3>3. n \in s.visited /\ Away(n, s.from, walls) = d - k
      BY <2>3, <3>1
    <3>4. n # s.from
      BY <2>2, <2>3, <3>1, <3>3, AwayStart
    <3>5. Back(s)[k + 1] = s.previous[n]
      BY <3>1, BackIs
    <3> HIDE DEF n
    <3>6. Beside(s.previous[n], n)
      BY <2>1, <3>3, <3>4 DEF Common, Tree
    <3> QED
      BY <2>2, <3>2, <3>3, <3>5, <3>6
  <2>9. ASSUME Len(path) > 1 PROVE s.to \notin Reached(Len(path) - 2, s.from, walls)
    <3>1. Len(path) - 2 \in Nat /\ Len(path) - 2 < d
      BY <2>3, <2>6, <2>9
    <3>2. ~ (d <= Len(path) - 2)
      BY <2>3, <3>1
    <3> QED
      BY <2>1, <2>2, <3>1, <3>2, AwayIs DEF d
  <2> QED
    BY <1>2, <2>7, <2>8, <2>9
<1> QED
  BY <1>1, <1>2

\* findPath finds a shortest path over passable nodes whenever there is a path,
\* and finds none only if there is none, on every map.
THEOREM PathAlwaysShortest == PathsSpec => []PathIsShortest
<1> DEFINE Inv == walls \in SUBSET Nodes /\ Searching(search, walls)
<1>1. InitPaths => Inv
  <2> SUFFICES ASSUME InitPaths PROVE Inv
    OBVIOUS
  <2>1. walls \in SUBSET Nodes
    BY DEF InitPaths
  <2>2. PICK a \in Nodes \ walls, b \in Nodes : search = findPath(a, b)
    BY DEF InitPaths
  <2>3. Searching(findPath(a, b), walls)
    BY <2>1, BeginSearches
  <2> QED
    BY <2>1, <2>2, <2>3
<1>2. Inv /\ [PathsNext]_pathVars => Inv'
  <2> SUFFICES ASSUME Inv, [PathsNext]_pathVars PROVE Inv'
    OBVIOUS
  <2>1. CASE PathsNext
    <3>1. Searching(expanded(search), walls)
      BY <2>1, ExpandedSearches DEF PathsNext
    <3>2. search' = expanded(search) /\ walls' = walls
      BY <2>1 DEF PathsNext
    <3> QED
      BY <3>1, <3>2
  <2>2. CASE UNCHANGED pathVars
    BY <2>2 DEF pathVars
  <2> QED
    BY <2>1, <2>2
<1>3. Inv => PathIsShortest
  BY SearchedIsShortest
<1> HIDE DEF Inv
<1> QED
  BY <1>1, <1>2, <1>3, PTL DEF PathsSpec

===============================================================================
