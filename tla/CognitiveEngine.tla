--------------------------- MODULE CognitiveEngine ---------------------------
(***************************************************************************)
(* CognitiveEngine.process, the twelve stages of the legacy engine, over   *)
(* the memory engine, the session's context, the goal stack and the trace  *)
(* recorder.  What a line of text says is a record of the phrases the      *)
(* rules of configs/rules look for.  A cycle that raises leaves what it    *)
(* changed, and its caller may go on with the next line; the process may   *)
(* end at any point, and another one then starts from the two kinds of     *)
(* file, memories and traces.  Of the events published nothing depends:    *)
(* the program subscribes no handler.                                      *)
(***************************************************************************)
EXTENDS MemoryEngineProperties, FiniteSets, FiniteSetsExt, SequencesExt

CONSTANTS
  Lines,             \* the lines of text
  TopK,              \* process: the memories retrieved
  WorkingCapacity,   \* DeterministicMemoryEngine.__init__: working_capacity
  MaxCycles          \* bound on the cycles begun

ASSUME EngineAssumption ==
  /\ TopK \in Nat \ {0} /\ WorkingCapacity \in Nat \ {0} /\ MaxCycles \in Nat
  /\ "user.name" \in Keys /\ "none" \notin Values

VARIABLES
  context,      \* InMemoryContextManager._store: the facts in it
  goals,        \* GoalManager._goals
  working,      \* _working_buffer, by cycle
  stage,        \* where process is; "idle" between calls, "down" without process
  cycle,        \* number of cycles begun
  line,         \* raw_input
  recalled,     \* state.retrieved_memories, as entries
  goal,         \* state.active_goal
  todo,         \* facts not yet stored
  record,       \* _last_record
  lastState,    \* _last_state, by cycle
  spans,        \* TraceRecorder._spans
  traces        \* the trace files

engineVars == <<vars, context, goals, working, stage, cycle, line, recalled, goal, todo, record,
                lastState, spans, traces>>

-----------------------------------------------------------------------------
(* Perception.  A line may name the user ("my name is", "i am"), state a   *)
(* preference ("i like", "my favorite"), greet and ask.                    *)

Says(l, phrase) == phrase \in l.phrases

\* What the patterns extract: a name is a value, and a topic stands for its key
\* "user.preference.<topic>" as well.
ASSUME LinesAssumption ==
  \A l \in Lines :
    /\ Says(l, "my name is") => l.name \in Values
    /\ Says(l, "i like") => l.topic \in (Keys \cap Values) \ {"user.name"}

\* The first rule that matches gives the intent.
Intent(l) ==
  CASE Says(l, "hello") -> "greeting"
    [] Says(l, "my name is") \/ Says(l, "i am") -> "introduce_identity"
    [] Says(l, "i like") \/ Says(l, "my favorite") -> "express_preference"
    [] Says(l, "recommend") -> "ask_recommendation"
    [] Says(l, "what is") -> "ask_question"
    [] OTHER -> "unknown"

\* Two mappings extract facts: preferences before the name.
Facts(l) ==
  (IF Says(l, "i like") THEN <<<<l.topic, l.topic>>>> ELSE <<>>) \o
  (IF Says(l, "my name is") THEN <<<<"user.name", l.name>>>> ELSE <<>>)

\* Entities are the groups of the intent's pattern and of the mappings.
EntityName(l) ==
  IF Says(l, "my name is") \/ Intent(l) = "introduce_identity" THEN l.name ELSE "none"
EntityTopic(l) ==
  IF Says(l, "i like") \/ Intent(l) = "express_preference" THEN l.topic ELSE "none"

-----------------------------------------------------------------------------
(* Retrieval: every fact stored is an identity or a preference and scores. *)
(* Which come first depends on the wording, so the order is left open.     *)

\* Fault: superseded entries are candidates too.
ActiveAtAll == DOMAIN entries

ActiveAt == {i \in DOMAIN entries : entries[i].status = "active"}

Retrievals ==
  LET n == IF Cardinality(ActiveAt) < TopK THEN Cardinality(ActiveAt) ELSE TopK
  IN {[i \in 1..n |-> entries[s[i]]] :
        s \in {q \in [1..n -> ActiveAt] : IsInjective(q)}}

\* The goal stack is sorted by priority, high before medium, and stably.
High == {"AcknowledgeGreeting", "RememberFact", "ProvideRecommendation", "AnswerQuestion"}
AddGoal(gs, g) ==
  SelectSeq(Append(gs, g), LAMBDA x : x \in High) \o
  SelectSeq(Append(gs, g), LAMBDA x : x \notin High)

GoalOf(intent) ==
  CASE intent = "greeting" -> "AcknowledgeGreeting"
    [] intent \in {"introduce_identity", "express_preference"} -> "RememberFact"
    [] intent = "ask_recommendation" -> "ProvideRecommendation"
    [] intent = "ask_question" -> "AnswerQuestion"
    [] OTHER -> IF goals = <<>> THEN "MaintainConversation" ELSE Head(goals)

-----------------------------------------------------------------------------
(* Inference: RuleBasedStrategy.evaluate. *)

\* Of several memories the last one counts.
NamesAt == {i \in DOMAIN recalled : recalled[i].key = "user.name"}
TopicsAt == DOMAIN recalled \ NamesAt

UserName ==
  CASE NamesAt # {} -> recalled[Max(NamesAt)].value
    [] EntityName(line) # "none" -> EntityName(line)
    [] OTHER -> context["user.name"]
LikedTopic == IF TopicsAt = {} THEN "none" ELSE recalled[Max(TopicsAt)].value

Reply(says, name, topic) == [says |-> says, name |-> name, topic |-> topic]

CandidateResponse ==
  CASE goal = "AcknowledgeGreeting" ->
         Reply("hello", UserName, IF UserName = "none" THEN "none" ELSE LikedTopic)
    [] goal = "RememberFact" ->
         IF EntityName(line) # "none" THEN Reply("nice to meet you", EntityName(line), "none")
         ELSE IF EntityTopic(line) # "none" THEN Reply("remember", "none", EntityTopic(line))
         ELSE Reply("recorded", "none", "none")
    [] goal = "ProvideRecommendation" ->
         Reply("recommend", "none",
               IF LikedTopic # "none" THEN LikedTopic ELSE EntityTopic(line))
    [] goal = "AnswerQuestion" ->
         IF (Says(line, "my name is") \/ Says(line, "name")) /\ UserName # "none"
         THEN Reply("your name is", UserName, "none")
         ELSE Reply("answer", "none", LikedTopic)
    [] OTHER -> Reply("default", "none", "none")

NoRecord == [cycle |-> 0, used |-> <<>>, reply |-> Reply("none", "none", "none"), trace |-> 0]

Spans == <<"perception", "context", "memory_classifier", "memory_retrieval",
           "knowledge_retrieval", "goal_selection", "planning", "inference", "reflection",
           "decision", "response_generator", "learning">>
Visit(first, last) == spans' = spans \o SubSeq(Spans, first, last)

-----------------------------------------------------------------------------
\* The state of a cycle is dropped when process returns or raises.
NoLine == [phrases |-> {}, name |-> "none", topic |-> "none"]
Forget == line' = NoLine /\ recalled' = <<>> /\ goal' = "none" /\ todo' = <<>>

NoContext == [k \in Keys |-> "none"]

EngineInit ==
  /\ Init
  /\ context = NoContext /\ goals = <<>> /\ working = <<>>
  /\ stage = "down" /\ cycle = 0
  /\ line = NoLine /\ recalled = <<>> /\ goal = "none" /\ todo = <<>>
  /\ record = NoRecord /\ lastState = 0
  /\ spans = <<>> /\ traces = {}

\* bootstrap: everything but the files is new.
Launch ==
  /\ stage = "down" /\ stage' = "idle"
  /\ Start
  /\ context' = NoContext /\ goals' = <<>> /\ working' = <<>>
  /\ record' = NoRecord /\ lastState' = 0 /\ spans' = <<>>
  /\ UNCHANGED <<cycle, line, recalled, goal, todo, traces>>

\* Stages 1 to 3: start_cycle forgets the spans of the last one.
Perceive(l) ==
  /\ stage = "idle" /\ stage' = "retrieve"
  /\ cycle < MaxCycles /\ cycle' = cycle + 1
  /\ line' = l
  /\ spans' = SubSeq(Spans, 1, 3)
  /\ UNCHANGED <<vars, context, goals, working, recalled, goal, todo, record, lastState, traces>>

\* Stages 4 and 5.
Retrieve ==
  /\ stage = "retrieve" /\ stage' = "goal"
  /\ recalled' \in Retrievals
  /\ Visit(4, 5)
  /\ UNCHANGED <<vars, context, goals, working, cycle, line, goal, todo, record, lastState,
                 traces>>

\* Stage 6: a goal for every intent, on a stack that is never popped; without
\* one, the first goal of the stack.
SelectGoal ==
  /\ stage = "goal" /\ stage' = "decide"
  /\ goal' = GoalOf(Intent(line))
  /\ goals' = IF Intent(line) = "unknown" /\ goals # <<>> THEN goals ELSE AddGoal(goals, goal')
  /\ Visit(6, 6)
  /\ UNCHANGED <<vars, context, working, cycle, line, recalled, todo, record, lastState, traces>>

\* Stages 7 to 10: the record is that of the last decision at once.
Decide ==
  /\ stage = "decide" /\ stage' = "respond"
  /\ record' = [cycle |-> cycle, used |-> [i \in DOMAIN recalled |-> recalled[i].id],
                reply |-> CandidateResponse, trace |-> 0]
  /\ Visit(7, 10)
  /\ UNCHANGED <<vars, context, goals, working, cycle, line, recalled, goal, todo, lastState,
                 traces>>

\* Stage 11, and the beginning of 12.
Respond ==
  /\ stage = "respond" /\ stage' = "learn"
  /\ todo' = Facts(line)
  /\ Visit(11, 11)
  /\ UNCHANGED <<vars, context, goals, working, cycle, line, recalled, goal, record, lastState,
                 traces>>

\* Stage 12, one fact: the context is set, then the memory engine stores it.
StoreFact ==
  /\ stage = "learn" /\ todo # <<>>
  /\ LET k == Head(todo)[1]  v == Head(todo)[2] IN
       /\ ConfirmFact(k, v) \/ AddFact(k, v)
       /\ context' = [context EXCEPT ![k] = v]
  /\ stage' = "store"
  /\ UNCHANGED <<goals, working, cycle, line, recalled, goal, todo, record, lastState, spans,
                 traces>>

SaveFact ==
  /\ stage = "store"
  /\ OpenFile
  /\ UNCHANGED <<context, goals, working, stage, cycle, line, recalled, goal, todo, record,
                 lastState,
                 spans, traces>>

\* Fault: store_fact is called for the first fact only.
FactStoredEnds ==
  /\ stage = "store" /\ stage' = "learn"
  /\ WriteFile
  /\ todo' = <<>>
  /\ UNCHANGED <<context, goals, working, cycle, line, recalled, goal, record, lastState, spans,
                 traces>>

\* Fault: the fact is not taken off the list.
FactStoredAgain ==
  /\ stage = "store" /\ stage' = "learn"
  /\ WriteFile
  /\ UNCHANGED <<context, goals, working, cycle, line, recalled, goal, todo, record, lastState,
                 spans,
                 traces>>

FactStored ==
  /\ stage = "store" /\ stage' = "learn"
  /\ WriteFile
  /\ todo' = Tail(todo)
  /\ UNCHANGED <<context, goals, working, cycle, line, recalled, goal, record, lastState, spans,
                 traces>>

\* store_fact raises, and process with it.
StoreRaises ==
  /\ stage = "store" /\ stage' = "idle"
  /\ SaveFails
  /\ Forget
  /\ UNCHANGED <<context, goals, working, cycle, record, lastState, spans, traces>>

FinishLearning ==
  /\ stage = "learn" /\ todo = <<>> /\ stage' = "trace"
  /\ working' = LET w == Append(working, cycle)
                IN IF Len(w) > WorkingCapacity THEN Tail(w) ELSE w
  /\ Visit(12, 12)
  /\ UNCHANGED <<vars, context, goals, cycle, line, recalled, goal, todo, record, lastState,
                 traces>>

Trace(whole) == [cycle |-> cycle, spans |-> spans, whole |-> whole]

\* close_trace opens the file, writes it, and only then the cycle is the last.
OpenTrace ==
  /\ stage = "trace" /\ stage' = "write"
  /\ traces' = traces \cup {Trace(FALSE)}
  /\ UNCHANGED <<vars, context, goals, working, cycle, line, recalled, goal, todo, record,
                 lastState,
                 spans>>

\* Fault: the record names its trace, the state of the last cycle stays.
CloseTraceKeepsState ==
  /\ stage = "write" /\ stage' = "idle"
  /\ traces' = (traces \ {Trace(FALSE)}) \cup {Trace(TRUE)}
  /\ record' = [record EXCEPT !.trace = cycle]
  /\ Forget
  /\ UNCHANGED <<vars, context, goals, working, cycle, lastState, spans>>

CloseTrace ==
  /\ stage = "write" /\ stage' = "idle"
  /\ traces' = (traces \ {Trace(FALSE)}) \cup {Trace(TRUE)}
  /\ lastState' = cycle /\ record' = [record EXCEPT !.trace = cycle]
  /\ Forget
  /\ UNCHANGED <<vars, context, goals, working, cycle, spans>>

\* open or dump raises.
TraceRaises ==
  /\ stage \in {"trace", "write"} /\ stage' = "idle"
  /\ Forget
  /\ UNCHANGED <<vars, context, goals, working, cycle, record, lastState, spans, traces>>

\* The process ends.
EndProcess ==
  /\ stage # "down" /\ stage' = "down"
  /\ Exit
  /\ Forget
  /\ UNCHANGED <<context, goals, working, cycle, record, lastState, spans, traces>>

Cycle ==
  \/ Retrieve \/ SelectGoal \/ Decide \/ Respond
  \/ StoreFact \/ SaveFact \/ FactStored \/ StoreRaises
  \/ FinishLearning \/ OpenTrace \/ CloseTrace \/ TraceRaises

EngineNext == Launch \/ (\E l \in Lines : Perceive(l)) \/ Cycle \/ EndProcess

EngineSpec == EngineInit /\ [][EngineNext]_engineVars
FairEngineSpec == EngineSpec /\ WF_engineVars(Cycle)
=============================================================================
