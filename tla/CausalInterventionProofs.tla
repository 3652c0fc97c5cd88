----------------------- MODULE CausalInterventionProofs -----------------------
(***************************************************************************)
(* The causal experiment for every horizon, collapse length, checkpoint    *)
(* set and onset window that meet the assumptions of CausalIntervention.   *)
(***************************************************************************)
EXTENDS CausalIntervention, TLAPS

(* What the counters of a run say of its steps: before the first proposal  *)
(* every step is one without; after it the steps without are the last ones *)
(* of the run, and t* is the first of them or of an earlier stretch.       *)
CountsItsSteps(r) ==
    /\ r.onset <= r.step
    /\ ~ r.ever => r.zeros = r.step /\ r.onset = 0
    /\ r.ever => r.zeros < r.step
    /\ r.ever /\ r.zeros > 0 => r.onset > 0 /\ r.onset + r.zeros <= r.step + 1
    /\ r.collapsed => r.ever /\ r.zeros >= K

RunsCount == CountsItsSteps(cur) /\ \A r \in Finished : CountsItsSteps(r) /\ ~ Running(r)

\* A launch reads and writes nothing of a later one.
LaunchesInOrder ==
    /\ cur.by <= launch /\ \A r \in Finished : r.by <= launch
    /\ gate.by <= launch /\ verdict.by <= launch
    /\ pc # "idle" => verdict.by < launch

\* Past the gate, a launch that trained its own baseline has passed it.
PassedTheGate ==
    /\ pc = "announce" => gate.by = launch
    /\ pc \in {"next", "I1", "C2"} =>
         \A r \in runs["B"] : r.by = launch => gate.by = launch /\ gate.pass

IInv == TypeOK /\ RunsCount /\ LaunchesInOrder /\ PassedTheGate /\ VerdictOfOwnBaseline

-----------------------------------------------------------------------------
(* A run, step by step. *)

LEMMA FreshRunCounts ==
    ASSUME NEW l \in 0..MaxLaunches
    PROVE  FreshRun(l) \in Run /\ CountsItsSteps(FreshRun(l)) /\ FreshRun(l).by = l
<1>1. 0 \in 0..Horizon /\ Horizon \in Nat /\ K \in Nat  BY StepsAssumption
<1>2. FreshRun(l) \in Run  BY <1>1 DEF FreshRun, Run
<1>3. CountsItsSteps(FreshRun(l))  BY <1>1 DEF FreshRun, CountsItsSteps
<1> QED  BY <1>2, <1>3 DEF FreshRun

LEMMA SteppedCounts ==
    ASSUME NEW r \in Run, NEW proposes \in BOOLEAN, CountsItsSteps(r), Running(r)
    PROVE  /\ Stepped(r, proposes) \in Run /\ CountsItsSteps(Stepped(r, proposes))
           /\ Stepped(r, proposes).by = r.by
<1> DEFINE zeros == IF proposes THEN 0 ELSE r.zeros + 1
           ever == r.ever \/ proposes
           onset == IF ~proposes /\ r.ever /\ r.onset = 0 THEN r.step + 1 ELSE r.onset
           s == Stepped(r, proposes)
<1>0. /\ r.step \in Nat /\ r.zeros \in Nat /\ r.onset \in Nat /\ r.ever \in BOOLEAN
      /\ r.zeros <= Horizon /\ r.onset <= Horizon /\ r.step < Horizon
      /\ Horizon \in Nat /\ K \in Nat /\ r.by \in 0..MaxLaunches
  BY StepsAssumption DEF Run, Running
<1>1. s = [step |-> r.step + 1, ever |-> ever, zeros |-> zeros, onset |-> onset,
           collapsed |-> GuardFires(ever, zeros), by |-> r.by]
  BY DEF Stepped
<1>2. r.zeros <= r.step  BY <1>0 DEF CountsItsSteps
<1>3. zeros \in 0..Horizon /\ onset \in 0..Horizon /\ r.step + 1 \in 0..Horizon
      /\ ever \in BOOLEAN /\ GuardFires(ever, zeros) \in BOOLEAN
  BY <1>0, <1>2 DEF GuardFires
<1>4. /\ s.step = r.step + 1 /\ s.ever = ever /\ s.zeros = zeros /\ s.onset = onset
      /\ s.collapsed = GuardFires(ever, zeros) /\ s.by = r.by
  BY <1>1
<1>5. s \in Run  BY <1>0, <1>1, <1>3 DEF Run
<1> HIDE DEF s
<1>6. CountsItsSteps(s)
  <2>0. /\ r.onset <= r.step /\ s.step = r.step + 1
        /\ ~ r.ever => r.zeros = r.step /\ r.onset = 0
        /\ r.ever => r.zeros < r.step
        /\ r.ever /\ r.zeros > 0 => r.onset > 0 /\ r.onset + r.zeros <= r.step + 1
        /\ s.collapsed => s.ever /\ s.zeros >= K
    BY <1>4, Zenon DEF CountsItsSteps, GuardFires
  <2>1. CASE proposes
    <3>1. s.ever /\ s.zeros = 0 /\ s.onset = r.onset  BY <1>4, <2>1, Zenon
    <3> QED  BY <1>0, <2>0, <3>1 DEF CountsItsSteps
  <2>2. CASE ~ proposes /\ ~ r.ever
    <3>1. ~ s.ever /\ s.zeros = r.zeros + 1 /\ s.onset = r.onset  BY <1>4, <2>2, Zenon
    <3> QED  BY <1>0, <2>0, <2>2, <3>1 DEF CountsItsSteps
  <2>3. CASE ~ proposes /\ r.ever
    <3>1. /\ s.ever /\ s.zeros = r.zeros + 1
          /\ s.onset = IF r.onset = 0 THEN r.step + 1 ELSE r.onset
      BY <1>4, <2>3, Zenon
    <3> QED  BY <1>0, <2>0, <2>3, <3>1 DEF CountsItsSteps
  <2> QED  BY <2>1, <2>2, <2>3
<1> QED  BY <1>4, <1>5, <1>6 DEF s

\* A run that is over reached a step of the endpoint and of the gate.
LEMMA FinishedRunReaches ==
    ASSUME NEW r \in Run, CountsItsSteps(r), ~ Running(r)
    PROVE  /\ Saved(r) \cap Primary # {}
           /\ r.onset \in OnsetWindow => GateStep \in Saved(r)
<1>0. /\ r.step \in Nat /\ r.zeros \in Nat /\ r.onset \in Nat /\ r.step <= Horizon
      /\ Horizon \in Nat /\ K \in Nat \ {0} /\ Checkpoints \subseteq 0..Horizon
      /\ GateStep \in Checkpoints /\ OnsetWindow \subseteq Nat \ {0}
      /\ r.ever \in BOOLEAN /\ r.collapsed \in BOOLEAN
  BY StepsAssumption DEF Run
<1>1. r.step = Horizon \/ r.collapsed  BY <1>0 DEF Running
<1>2. PICK t \in Primary \cap Checkpoints : t <= K + 1  BY PrimaryAssumption
<1>3. t <= r.step
  <2>0. t \in 0..Horizon  BY <1>0, <1>2, Zenon
  <2>1. t \in Nat /\ t <= Horizon  BY <1>0, <2>0
  <2>2. CASE r.step = Horizon  BY <2>1, <2>2
  <2>3. CASE r.collapsed  BY <1>0, <1>2, <2>1, <2>3 DEF CountsItsSteps
  <2> QED  BY <1>1, <2>2, <2>3
<1>4. t \in Saved(r)  BY <1>2, <1>3 DEF Saved
<1>5. ASSUME r.onset \in OnsetWindow PROVE GateStep \in Saved(r)
  <2>1. GateStep <= r.onset + K - 1  BY <1>5, WindowAssumption
  <2>2. GateStep <= r.step  BY <1>0, <1>1, <2>1 DEF CountsItsSteps
  <2> QED  BY <1>0, <2>2 DEF Saved
<1> QED  BY <1>2, <1>4, <1>5

-----------------------------------------------------------------------------
(* Each action. *)

LEMMA IInvInit == Init => IInv
<1> SUFFICES ASSUME Init PROVE IInv
  OBVIOUS
<1>0. MaxLaunches \in Nat /\ 0 \in 0..MaxLaunches  BY StepsAssumption
<1>1. FreshRun(0) \in Run /\ CountsItsSteps(FreshRun(0)) /\ FreshRun(0).by = 0
  BY <1>0, FreshRunCounts
<1>2. TypeOK  BY <1>0, <1>1 DEF Init, TypeOK, NoGate, NoVerdict
<1>3. Finished = {}  BY DEF Init, Finished, Conditions
<1>4. RunsCount  BY <1>1, <1>3 DEF Init, RunsCount
<1>5. LaunchesInOrder  BY <1>1, <1>3 DEF Init, LaunchesInOrder, NoGate, NoVerdict
<1>6. PassedTheGate  BY DEF Init, PassedTheGate
<1>7. VerdictOfOwnBaseline  BY DEF Init, VerdictOfOwnBaseline, NoVerdict
<1> QED  BY <1>2, <1>4, <1>5, <1>6, <1>7 DEF IInv

LEMMA FinishedRuns ==
    /\ \A r : r \in Finished <=> r \in partial \/ \E c \in Conditions : r \in runs[c]
    /\ \A r : r \in Finished' <=> r \in partial' \/ \E c \in Conditions : r \in runs'[c]
<1>1. \A r : r \in UNION {runs[c] : c \in Conditions} <=> \E c \in Conditions : r \in runs[c]
  BY Zenon
<1>2. \A r : r \in UNION {runs'[c] : c \in Conditions} <=> \E c \in Conditions : r \in runs'[c]
  BY Zenon
<1>3. \A r : r \in Finished <=> r \in partial \/ \E c \in Conditions : r \in runs[c]
  BY <1>1, Zenon DEF Finished
<1>4. \A r : r \in Finished' <=> r \in partial' \/ \E c \in Conditions : r \in runs'[c]
  BY <1>2, Zenon DEF Finished
<1> QED  BY <1>3, <1>4

\* What the invariant says of the numbers of launches.
LEMMA LaunchNumbers ==
    ASSUME IInv
    PROVE  /\ MaxLaunches \in Nat /\ launch \in Nat /\ launch <= MaxLaunches
           /\ gate.by \in Nat /\ verdict.by \in Nat /\ cur.by \in Nat
           /\ \A r \in Finished : r \in Run /\ r.by \in Nat
<1>1. MaxLaunches \in Nat  BY StepsAssumption
<1>2. \A r \in Run : r.by \in Nat  BY <1>1 DEF Run
<1>3. \A r \in Finished : r \in Run  BY FinishedRuns DEF IInv, TypeOK
<1>4. launch \in 0..MaxLaunches /\ cur \in Run  BY DEF IInv, TypeOK
<1>5. gate.by \in 0..MaxLaunches /\ verdict.by \in 0..MaxLaunches  BY DEF IInv, TypeOK
<1> QED  BY <1>1, <1>2, <1>3, <1>4, <1>5

\* An action that trains no run and ends none.
LEMMA RunsKept ==
    ASSUME IInv, cur' = cur, Finished' \subseteq Finished
    PROVE  RunsCount'
BY DEF IInv, RunsCount

LEMMA LaunchPreserves ==
    ASSUME IInv, NEW C \in SUBSET Conditions, Launch(C)
    PROVE  IInv'
<1>0. launch < MaxLaunches /\ launch' = launch + 1 /\ launch' \in 0..MaxLaunches
  BY LaunchNumbers DEF Launch
<1>1. runs' \in [Conditions -> SUBSET Run]
  <2>1. partial \in SUBSET Run /\ {} \in SUBSET Run  BY DEF IInv, TypeOK
  <2>2. runs' = [c \in Conditions |-> IF c = "B" /\ "B" \notin C THEN partial ELSE {}]
    BY DEF Launch
  <2> QED  BY <2>1, <2>2
<1>2. TypeOK'  BY <1>0, <1>1 DEF Launch, IInv, TypeOK
<1>3. Finished' \subseteq Finished
  <2>1. partial' = partial /\ \A c \in Conditions : runs'[c] \in {partial, {}}
    BY DEF Launch
  <2> QED  BY <2>1, FinishedRuns
<1>4. RunsCount'  BY <1>3, RunsKept DEF Launch
<1>5. LaunchesInOrder'
  BY <1>0, <1>3, LaunchNumbers DEF Launch, IInv, LaunchesInOrder
<1>6. \A r \in runs'["B"] : r.by # launch'
  <2>1. runs'["B"] \subseteq partial  BY DEF Launch, Conditions
  <2>2. partial \subseteq Finished  BY FinishedRuns
  <2> QED  BY <1>0, <2>1, <2>2, LaunchNumbers DEF IInv, LaunchesInOrder
<1>7. PassedTheGate'  BY <1>6 DEF Launch, PassedTheGate
<1>8. VerdictOfOwnBaseline'  BY DEF Launch, IInv, VerdictOfOwnBaseline
<1> QED  BY <1>2, <1>4, <1>5, <1>7, <1>8 DEF IInv

LEMMA BeginRunPreserves ==
    ASSUME IInv, NEW c \in Conditions, BeginRun(c)
    PROVE  IInv'
<1>0. cur' = FreshRun(launch) /\ cur' \in Run /\ CountsItsSteps(cur') /\ cur'.by = launch
  BY FreshRunCounts DEF BeginRun, IInv, TypeOK
<1>1. TypeOK'  BY <1>0 DEF BeginRun, IInv, TypeOK
<1>2. Finished' = Finished  BY DEF BeginRun, Finished
<1>3. RunsCount'  BY <1>0, <1>2 DEF IInv, RunsCount
<1>4. LaunchesInOrder'
  BY <1>0, <1>2, LaunchNumbers DEF BeginRun, IInv, LaunchesInOrder, Conditions
<1>5. PassedTheGate'  BY DEF BeginRun, IInv, PassedTheGate, Conditions
<1>6. VerdictOfOwnBaseline'  BY DEF BeginRun, IInv, VerdictOfOwnBaseline
<1> QED  BY <1>1, <1>3, <1>4, <1>5, <1>6 DEF IInv

LEMMA TrainStepPreserves ==
    ASSUME IInv, NEW proposes \in BOOLEAN, TrainStep(proposes)
    PROVE  IInv'
<1>0. cur' = Stepped(cur, proposes) /\ cur' \in Run /\ CountsItsSteps(cur') /\ cur'.by = cur.by
  BY SteppedCounts DEF TrainStep, IInv, TypeOK, RunsCount
<1>1. TypeOK'  BY <1>0 DEF TrainStep, IInv, TypeOK
<1>2. Finished' = Finished  BY DEF TrainStep, Finished
<1>3. RunsCount'  BY <1>0, <1>2 DEF IInv, RunsCount
<1>4. LaunchesInOrder'  BY <1>0, <1>2 DEF TrainStep, IInv, LaunchesInOrder
<1>5. PassedTheGate'  BY DEF TrainStep, IInv, PassedTheGate
<1>6. VerdictOfOwnBaseline'  BY DEF TrainStep, IInv, VerdictOfOwnBaseline
<1> QED  BY <1>1, <1>3, <1>4, <1>5, <1>6 DEF IInv

LEMMA FinishRunPreserves ==
    ASSUME IInv, FinishRun
    PROVE  IInv'
<1>0. /\ pc \in Conditions /\ ~ Running(cur) /\ runs' = [runs EXCEPT ![pc] = {cur}]
      /\ pc' = IF pc = "B" THEN "fingerprint" ELSE "next"
      /\ UNCHANGED <<launch, conditions, cur, partial, filesB, gate, verdict>>
      /\ runs \in [Conditions -> SUBSET Run] /\ cur \in Run
  BY DEF FinishRun, IInv, TypeOK
<1>1. runs' \in [Conditions -> SUBSET Run]  BY <1>0
<1>2. TypeOK'  BY <1>0, <1>1 DEF IInv, TypeOK
<1>3. Finished' \subseteq Finished \cup {cur}
  <2>1. \A c \in Conditions : runs'[c] \subseteq runs[c] \cup {cur}  BY <1>0
  <2>2. \A c \in Conditions : runs[c] \subseteq Finished  BY FinishedRuns
  <2>3. partial' \subseteq Finished  BY <1>0, FinishedRuns
  <2> QED  BY <2>1, <2>2, <2>3, FinishedRuns
<1>4. RunsCount'  BY <1>0, <1>3 DEF IInv, RunsCount, Running
<1>5. LaunchesInOrder'  BY <1>0, <1>3 DEF IInv, LaunchesInOrder, Conditions
<1>6. PassedTheGate'
  <2>1. CASE pc = "B"  BY <1>0, <2>1 DEF PassedTheGate
  <2>2. CASE pc # "B"
    <3>1. runs'["B"] = runs["B"] /\ pc \in {"I1", "C2"}  BY <1>0, <2>2 DEF Conditions
    <3> QED  BY <1>0, <3>1 DEF IInv, PassedTheGate
  <2> QED  BY <2>1, <2>2
<1>7. VerdictOfOwnBaseline'  BY <1>0 DEF IInv, VerdictOfOwnBaseline
<1> QED  BY <1>2, <1>4, <1>5, <1>6, <1>7 DEF IInv

LEMMA FingerprintPreserves ==
    ASSUME IInv, NEW measured \in BOOLEAN, Fingerprint(measured)
    PROVE  IInv'
<1>0. gate' \in [by : 0..MaxLaunches, pass : BOOLEAN] /\ gate'.by = launch
  <2>1. GatePasses(cur, measured) \in BOOLEAN  BY DEF GatePasses
  <2> QED  BY <2>1 DEF Fingerprint, IInv, TypeOK
<1>1. TypeOK'  BY <1>0 DEF Fingerprint, IInv, TypeOK
<1>2. Finished' = Finished  BY DEF Fingerprint, Finished
<1>3. RunsCount'  BY <1>2, RunsKept DEF Fingerprint
<1>4. LaunchesInOrder'
  BY <1>0, <1>2, LaunchNumbers DEF Fingerprint, IInv, LaunchesInOrder
<1>5. PassedTheGate'  BY <1>0 DEF Fingerprint, PassedTheGate
<1>6. verdict' = verdict /\ verdict.by < launch
  BY DEF Fingerprint, IInv, LaunchesInOrder
<1>7. VerdictOfOwnBaseline'  BY <1>0, <1>6, LaunchNumbers DEF VerdictOfOwnBaseline
<1> QED  BY <1>1, <1>3, <1>4, <1>5, <1>7 DEF IInv

\* The ways back to idle, B left behind or not, and the gate that opens.
LEMMA MovesOnPreserve ==
    ASSUME IInv, AnnounceRaises \/ GateOpens \/ Halt \/ Crash
    PROVE  IInv'
<1>0. /\ UNCHANGED <<launch, conditions, cur, runs, filesB, gate, verdict>>
      /\ partial' \in {partial, runs["B"]}
      /\ \/ pc' = "idle"
         \/ pc = "announce" /\ pc' = "next" /\ gate.pass
  BY DEF AnnounceRaises, GateOpens, Halt, Crash
<1>1. TypeOK'  BY <1>0 DEF IInv, TypeOK, Conditions
<1>2. Finished' \subseteq Finished  BY <1>0, FinishedRuns DEF Conditions
<1>3. RunsCount'  BY <1>0, <1>2, RunsKept
<1>4. LaunchesInOrder'  BY <1>0, <1>2 DEF IInv, LaunchesInOrder
<1>5. PassedTheGate'  BY <1>0 DEF IInv, PassedTheGate
<1>6. VerdictOfOwnBaseline'  BY <1>0 DEF IInv, VerdictOfOwnBaseline
<1> QED  BY <1>1, <1>3, <1>4, <1>5, <1>6 DEF IInv

LEMMA WriteVerdictPreserves ==
    ASSUME IInv, WriteVerdict
    PROVE  IInv'
<1>0. /\ pc = "next" /\ pc' = "idle"
      /\ UNCHANGED <<launch, conditions, cur, runs, partial, filesB, gate>>
  BY DEF WriteVerdict
<1>1. CASE \E c \in Conditions : runs[c] = {}
  <2>1. verdict' = verdict  BY <1>1 DEF WriteVerdict
  <2>2. Finished' \subseteq Finished  BY <1>0, FinishedRuns
  <2>3. TypeOK' /\ RunsCount'  BY <1>0, <2>1, <2>2, RunsKept DEF IInv, TypeOK
  <2>4. LaunchesInOrder'  BY <1>0, <2>1, <2>2 DEF IInv, LaunchesInOrder
  <2> QED  BY <1>0, <2>1, <2>3, <2>4 DEF IInv, PassedTheGate, VerdictOfOwnBaseline
<1>2. CASE ~ \E c \in Conditions : runs[c] = {}
  <2> DEFINE b == CHOOSE r \in runs["B"] : TRUE
  <2>1. b \in runs["B"]  BY <1>2 DEF Conditions
  <2>2. b \in Finished /\ b \in Run
    BY <2>1, LaunchNumbers DEF Finished, Conditions
  <2>3. verdict' = [by |-> launch, onB |-> b.by]  BY <1>2 DEF WriteVerdict
  <2> HIDE DEF b
  <2>4. verdict' \in [by : 0..MaxLaunches, onB : 0..MaxLaunches]
    BY <2>2, <2>3 DEF IInv, TypeOK, Run
  <2>5. verdict'.by = launch /\ verdict'.onB = b.by  BY <2>3
  <2>6. Finished' \subseteq Finished  BY <1>0, FinishedRuns
  <2>7. TypeOK' /\ RunsCount'  BY <1>0, <2>4, <2>6, RunsKept DEF IInv, TypeOK
  <2>8. LaunchesInOrder'
    BY <1>0, <2>5, <2>6, LaunchNumbers DEF IInv, LaunchesInOrder
  <2>9. b.by = launch => gate.by = launch /\ gate.pass
    BY <1>0, <2>1 DEF IInv, PassedTheGate
  <2>10. VerdictOfOwnBaseline'
    BY <1>0, <2>5, <2>9, LaunchNumbers DEF VerdictOfOwnBaseline
  <2> QED  BY <1>0, <2>7, <2>8, <2>10 DEF IInv, PassedTheGate
<1> QED  BY <1>1, <1>2

LEMMA IInvNext ==
    ASSUME IInv, [Next]_vars
    PROVE  IInv'
<1>1. CASE UNCHANGED vars
  <2>1. Finished' \subseteq Finished  BY <1>1 DEF vars, Finished
  <2>2. TypeOK' /\ RunsCount'  BY <1>1, <2>1, RunsKept DEF vars, IInv, TypeOK
  <2> QED
    BY <1>1, <2>1, <2>2 DEF vars, IInv, LaunchesInOrder, PassedTheGate, VerdictOfOwnBaseline
<1> QED
  BY <1>1, LaunchPreserves, BeginRunPreserves, TrainStepPreserves, FinishRunPreserves,
     FingerprintPreserves, MovesOnPreserve, WriteVerdictPreserves DEF Next

LEMMA AlwaysIInv == Spec => []IInv
BY IInvInit, IInvNext, PTL DEF Spec

(***************************************************************************)
(* Runs, files and reports stay well formed.                               *)
(***************************************************************************)
THEOREM TypeCorrect == Spec => []TypeOK
<1>1. IInv => TypeOK  BY DEF IInv
<1> QED  BY <1>1, AlwaysIInv, PTL

(***************************************************************************)
(* The guard that stops a collapsed run stops none so early that the means *)
(* of the verdict are taken over nothing (lines 751-758 and 916-918): a    *)
(* collapse needs a step with a proposal and K without.                    *)
(***************************************************************************)
THEOREM EndpointMeasured == Spec => []PrimaryEndpointMeasured
<1>1. IInv => PrimaryEndpointMeasured
  BY LaunchNumbers, FinishedRunReaches DEF IInv, RunsCount, PrimaryEndpointMeasured
<1> QED  BY <1>1, AlwaysIInv, PTL

(***************************************************************************)
(* A run with an onset in the gate's window saved the checkpoint the gate  *)
(* reads, because the guard lets it go on for K steps from the onset       *)
(* (lines 751-758 and 1067-1083).                                          *)
(***************************************************************************)
THEOREM GateCheckpointSaved == Spec => []OnsetLeavesGateCheckpoint
<1>1. IInv => OnsetLeavesGateCheckpoint
  BY LaunchNumbers, FinishedRunReaches DEF IInv, RunsCount, OnsetLeavesGateCheckpoint
<1> QED  BY <1>1, AlwaysIInv, PTL

(***************************************************************************)
(* A verdict over the launch's own baseline is one whose gate had passed,  *)
(* for any number of launches, crashes and halts before it (lines          *)
(* 1092-1095).                                                             *)
(***************************************************************************)
THEOREM VerdictPastGate == Spec => []VerdictOfOwnBaseline
<1>1. IInv => VerdictOfOwnBaseline  BY DEF IInv
<1> QED  BY <1>1, AlwaysIInv, PTL
=============================================================================
