---------------------- MODULE CognitiveEngineProperties ----------------------
(***************************************************************************)
(* What a cycle of the legacy engine may rely on and leave behind, after   *)
(* cycles that raised and processes that ended midway.                     *)
(***************************************************************************)
EXTENDS CognitiveEngine

Active(k) == {i \in DOMAIN entries : entries[i].key = k /\ entries[i].status = "active"}

\* A name in a reply is what the line itself says or the user's last statement
\* as memory has it, whether it came from retrieval or, when other memories
\* crowded it out, from the context, and also after statements that could not
\* be saved and after restarts (RuleBasedStrategy.evaluate).
RepliesWithStoredName ==
  stage = "respond" /\ record.reply.name \notin {"none", EntityName(line)} =>
    \E i \in Active("user.name") : entries[i].value = record.reply.name

\* When learning ends without an exception every fact of the line is active
\* and on disk, the first one too when the line states several.
LearnedIsSaved ==
  stage = "trace" =>
    \A n \in DOMAIN Facts(line) :
      \E i \in Active(Facts(line)[n][1]) :
        entries[i].value = Facts(line)[n][2] /\ file = FileWith(entries)

\* What /trace shows and what /explain explains is one cycle, all of its twelve
\* stages and none of an earlier one that raised; the trace of a cycle that
\* did not end is never offered.
TraceOfLastRecord ==
  record.trace # 0 =>
    /\ lastState = record.cycle
    /\ [cycle |-> record.trace, spans |-> Spans, whole |-> TRUE] \in traces

\* Every cycle returns, raises or ends with its process.
CyclesEnd == stage = "retrieve" ~> stage \in {"idle", "down"}
=============================================================================
