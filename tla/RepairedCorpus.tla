---------------------------- MODULE RepairedCorpus ----------------------------
(***************************************************************************)
(* The corpus ds-v0.2-repaired as data: what repaired_generator.py builds, *)
(* the oracle's labels, the invariants of quality_gates.py, the review and *)
(* the repair of duplicate propositions.  A text is the sequence of its    *)
(* normalized words, a percept the sequence of its clauses.  Everything    *)
(* here is a constant; DatasetScripts uses it.                             *)
(***************************************************************************)
EXTENDS Naturals, SequencesExt

\* domain_scenarios, with the two words execute_duplicate_repair.py takes from
\* the percept.
Scenarios == <<
 [domain |-> "medical", clauses |-> <<<<"high", "fever", "recorded", "at",
               "103f">>, <<"shivering", "and", "chills", "reported">>, <<"throat",
               "is", "inflamed">>>>,
  target |-> <<"strep", "bacterial", "infection">>, snippet |-> <<"high", "fever">>],
 [domain |-> "medical", clauses |-> <<<<"acute", "right", "lower", "quadrant",
               "abdominal", "pain">>, <<"rebound", "tenderness", "present">>>>,
  target |-> <<"acute", "appendicitis", "inflammation">>, snippet |-> <<"acute",
               "right">>],
 [domain |-> "household", clauses |-> <<<<"water", "leaking", "under", "kitchen",
               "sink">>, <<"cabinet", "floor", "soaked">>, <<"pipe", "joint",
               "loose">>>>,
  target |-> <<"plumbing", "pipe", "leakage">>, snippet |-> <<"water", "leaking">>],
 [domain |-> "household", clauses |-> <<<<"smoke", "detector", "chirping",
               "intermittently">>, <<"red", "light", "flashing", "every", "30s">>>>,
  target |-> <<"low", "battery", "warning">>, snippet |-> <<"smoke", "detector">>],
 [domain |-> "weather", clauses |-> <<<<"barometric", "pressure", "falling",
               "rapidly">>, <<"dark", "clouds", "filling", "sky">>, <<"thunder",
               "rumbling">>>>,
  target |-> <<"severe", "thunderstorm", "approach">>, snippet |-> <<"barometric",
               "pressure">>],
 [domain |-> "weather", clauses |-> <<<<"thick", "dense", "fog", "covering",
               "runway">>, <<"visibility", "under", "50", "meters">>>>,
  target |-> <<"foggy", "runway", "hazard">>, snippet |-> <<"thick", "dense">>],
 [domain |-> "physics", clauses |-> <<<<"bridge", "cables", "vibrating", "in",
               "wind">>, <<"frequency", "matching", "resonant", "frequency">>>>,
  target |-> <<"vibrational", "resonance", "instability">>, snippet |-> <<"bridge",
               "cables">>],
 [domain |-> "physics", clauses |-> <<<<"water", "boiling", "at", "100c", "under",
               "standard", "sea", "level", "pressure">>>>,
  target |-> <<"thermal", "boiling", "state">>, snippet |-> <<"water", "boiling">>],
 [domain |-> "finance", clauses |-> <<<<"stock", "index", "down", "5">>,
               <<"volatility", "index", "vix", "spiked", "to", "multiyear",
               "high">>>>,
  target |-> <<"market", "volatility", "panic">>, snippet |-> <<"stock", "index">>],
 [domain |-> "finance", clauses |-> <<<<"credit", "score", "fell", "50", "points",
               "following", "missed", "payment", "record">>>>,
  target |-> <<"credit", "rating", "decline">>, snippet |-> <<"credit", "score">>],
 [domain |-> "biology", clauses |-> <<<<"organism", "has", "feathers", "hollow",
               "bones", "lays", "hardshelled", "eggs">>>>,
  target |-> <<"avian", "bird", "species">>, snippet |-> <<"organism", "feathers">>],
 [domain |-> "biology", clauses |-> <<<<"bacterial", "culture", "growing", "in",
               "petri", "dish", "containing", "antibiotic", "disk">>>>,
  target |-> <<"antibiotic", "resistance", "gene">>, snippet |-> <<"bacterial",
               "culture">>],
 [domain |-> "engineering", clauses |-> <<<<"circuit", "capacitor", "c402",
               "ruptured">>, <<"voltage", "rail", "v3">>, <<"3", "dropped", "to",
               "zero">>>>,
  target |-> <<"capacitor", "hardware", "failure">>, snippet |-> <<"circuit",
               "capacitor">>],
 [domain |-> "engineering", clauses |-> <<<<"engine", "temperature", "reading",
               "high">>, <<"cooling", "fan", "failed", "to", "rotate">>>>,
  target |-> <<"engine", "overheat", "hazard">>, snippet |-> <<"engine",
               "temperature">>],
 [domain |-> "household", clauses |-> <<<<"refrigerator", "compressor", "humming",
               "loudly">>, <<"internal", "temp", "rising">>>>,
  target |-> <<"compressor", "motor", "fault">>, snippet |-> <<"refrigerator",
               "compressor">>],
 [domain |-> "medical", clauses |-> <<<<"chest", "pain", "radiating", "to", "left",
               "arm">>, <<"shortness", "of", "breath", "reported">>>>,
  target |-> <<"acute", "myocardial", "infarction">>, snippet |-> <<"chest",
               "pain">>],
 [domain |-> "weather", clauses |-> <<<<"heavy", "snowfall", "accumulating", "at",
               "2", "inches", "per", "hour">>>>,
  target |-> <<"blizzard", "weather", "alert">>, snippet |-> <<"heavy",
               "snowfall">>],
 [domain |-> "physics", clauses |-> <<<<"radiation", "sensor", "reading",
               "elevated", "beta", "particle", "count">>>>,
  target |-> <<"nuclear", "radiation", "leak">>, snippet |-> <<"radiation",
               "sensor">>],
 [domain |-> "finance", clauses |-> <<<<"bond", "yields", "inverted", "across",
               "2year", "and", "10year", "curve">>>>,
  target |-> <<"economic", "recession", "signal">>, snippet |-> <<"bond",
               "yields">>],
 [domain |-> "engineering", clauses |-> <<<<"hydraulic", "pressure", "line",
               "ruptured", "under", "3000", "psi", "load">>>>,
  target |-> <<"hydraulic", "line", "failure">>, snippet |-> <<"hydraulic",
               "pressure">>],
 [domain |-> "biology", clauses |-> <<<<"chlorophyll", "fluorescence", "declining",
               "under", "intense", "drought">>>>,
  target |-> <<"plant", "drought", "stress">>, snippet |-> <<"chlorophyll",
               "fluorescence">>],
 [domain |-> "household", clauses |-> <<<<"furnace", "ignition", "failure",
               "error", "code", "flashing">>>>,
  target |-> <<"furnace", "igniter", "fault">>, snippet |-> <<"furnace",
               "ignition">>] >>

\* conflict_cases.
Conflicts == <<
 [clauses |-> <<<<"high", "fever", "recorded", "at", "103f">>>>, snippet |->
               <<"high", "fever">>,
  proposition |-> <<"indicates", "patient", "blood", "type", "is", "o",
               "positive">>,
  novelty |-> "SEMANTIC_NOVEL", relevance |-> "DECISION_IRRELEVANT", abstention |->
               "SHOULD_ABSTAIN"],
 [clauses |-> <<<<"single", "isolated", "drip", "heard">>>>, snippet |->
               <<"single", "isolated">>,
  proposition |-> <<"indicates", "main", "city", "water", "reservoir", "burst">>,
  novelty |-> "EPISTEMICALLY_PREMATURE", relevance |-> "DECISION_RELEVANT",
               abstention |-> "SHOULD_ABSTAIN"],
 [clauses |-> <<<<"circuit", "temperature", "reads", "22c">>>>, snippet |->
               <<"circuit", "temperature">>,
  proposition |-> <<"indicates", "ambient", "room", "temperature", "is", "22c">>,
  novelty |-> "SEMANTIC_NOVEL", relevance |-> "DECISION_IRRELEVANT", abstention |->
               "SHOULD_PROPOSE"] >>

LeadIns == << <<"points", "to">>, <<"evidence", "shows">>,
               <<"observation", "suggests">>, <<"indicates">> >>

\* The label of the second concept of a domain.
AmbientLabel(d) ==
    CASE            d = "medical" -> <<"shivering", "chills">>
        [] d = "household" -> <<"water", "dripping">>
        [] d = "weather" -> <<"storm", "clouds">>
        [] d = "physics" -> <<"wind", "force">>
        [] d = "finance" -> <<"volatility", "vix", "index">>
        [] d = "biology" -> <<"shelled", "eggs">>
        [] d = "engineering" -> <<"voltage", "rail", "v33">>

-----------------------------------------------------------------------------
(***************************************************************************)
(* check_derivability, without beliefs, rules and concept edges: the       *)
(* repaired corpus has none.                                               *)
(***************************************************************************)
Synonym == [shattered |-> "broken", broken |-> "shattered", burst |-> "exploded",
            exploded |-> "burst", vessel |-> "container", container |-> "vessel",
            heat |-> "temperature", temperature |-> "heat",
            rain |-> "precipitation", precipitation |-> "rain"]

Expanded(words) == words \cup {Synonym[w] : w \in words \cap DOMAIN Synonym}

\* At least three of four words are the clause's, and hardly more than it has.
Paraphrases(words, clause) ==
    /\ 4 * Cardinality(Expanded(words) \cap Expanded(clause)) >= 3 * Cardinality(words)
    /\ Cardinality(words) <= Cardinality(clause) + 1

Derivable(proposition, clauses) ==
    \/ proposition \in SubSeqs(FlattenSeq(clauses))
    \/ \E c \in ToSet(clauses) : Paraphrases(ToSet(proposition), ToSet(c))

-----------------------------------------------------------------------------
(***************************************************************************)
(* The records.  "given" is the derivability label the generator passes,   *)
(* which build_repaired_record overrides by the oracle's.                  *)
(***************************************************************************)
\* Mutant: the label that was passed is kept.
BuiltKeepsLabel(r) ==
    LET judged == IF r.target # <<>> THEN r.target ELSE r.rejected
        verdict == IF Derivable(judged, r.clauses) THEN "DERIVABLE" ELSE "NON_DERIVABLE"
    IN [r EXCEPT !.oracle = verdict,
                 !.target = IF r.positive /\ r.novelty = "SEMANTIC_NOVEL" THEN @ ELSE <<>>]

Built(r) ==
    LET judged == IF r.target # <<>> THEN r.target ELSE r.rejected
        verdict == IF Derivable(judged, r.clauses) THEN "DERIVABLE" ELSE "NON_DERIVABLE"
    IN [r EXCEPT !.oracle = verdict, !.given = verdict,
                 !.target = IF r.positive /\ r.novelty = "SEMANTIC_NOVEL" THEN @ ELSE <<>>]

ContextClause == <<"context", "detail", "noted">>

\* The four records of a scenario: positive, echo, unsupported, irrelevant.
Quad(i) ==
    LET s    == Scenarios[i]
        pref == LeadIns[((i - 1) % 4) + 1]
        echo == pref \o s.clauses[1]
        rec(member, target, rejected, novelty, given, relevance, abstention) ==
            Built([id |-> <<"case", i, member>>, family |-> i,
                   clauses |-> Append(s.clauses, ContextClause), snippet |-> s.snippet,
                   target |-> target, rejected |-> rejected, novelty |-> novelty,
                   given |-> given, oracle |-> "", relevance |-> relevance,
                   abstention |-> abstention, positive |-> target # <<>>])
    IN << rec("A", pref \o s.target, echo,
              "SEMANTIC_NOVEL", "NON_DERIVABLE", "DECISION_RELEVANT", "SHOULD_PROPOSE"),
          rec("B", <<>>, echo,
              "REPEAT", "DERIVABLE", "DECISION_IRRELEVANT", "SHOULD_ABSTAIN"),
          rec("C", <<>>, pref \o <<"severe">> \o s.target \o <<"crisis">>,
              "UNSUPPORTED", "NON_DERIVABLE", "DECISION_RELEVANT", "SHOULD_ABSTAIN"),
          rec("D", <<>>, pref \o <<"ambient">> \o AmbientLabel(s.domain),
              "DECISION_IRRELEVANT", "NON_DERIVABLE", "DECISION_IRRELEVANT", "SHOULD_ABSTAIN") >>

\* The conflict cases: positive when they should propose something novel.
Conflict(i) ==
    LET c == Conflicts[i]
        positive == c.abstention = "SHOULD_PROPOSE" /\ c.novelty = "SEMANTIC_NOVEL"
    IN Built([id |-> <<"conflict", i, "">>, family |-> Len(Scenarios) + i,
              clauses |-> Append(c.clauses, ContextClause), snippet |-> c.snippet,
              target |-> IF positive THEN c.proposition ELSE <<>>,
              rejected |-> IF positive THEN <<>> ELSE c.proposition,
              novelty |-> c.novelty, given |-> "NON_DERIVABLE", oracle |-> "",
              relevance |-> c.relevance, abstention |-> c.abstention, positive |-> positive])

BasePool ==
    FlattenSeq([i \in DOMAIN Scenarios |-> Quad(i)]) \o [i \in DOMAIN Conflicts |-> Conflict(i)]

Total == 264

\* The pool is filled up with variants of the base records, in turn; a variant
\* differs from its base in its id and its family.
Variant(n) ==
    LET r == BasePool[(n % Len(BasePool)) + 1]
    IN Built([r EXCEPT !.id = <<"pert", n, "">>, !.family = Len(Scenarios) + Len(Conflicts) + n])

Records == BasePool \o [k \in 1..(Total - Len(BasePool)) |-> Variant(Len(BasePool) + k - 1)]

-----------------------------------------------------------------------------
(***************************************************************************)
(* check_invariants: INV-01 to INV-06 and INV-09.  INV-07 bounds the       *)
(* references, which the generator takes from the record's own concepts,   *)
(* and INV-08 is about records with status GOLD, of which there are none.  *)
(***************************************************************************)
InvariantsHold(rs) ==
    \A r \in ToSet(rs) :
        /\ (r.positive /\ r.novelty = "SEMANTIC_NOVEL") <=> r.target # <<>>
        /\ r.target # <<>> => r.target # r.rejected
        /\ r.abstention = "SHOULD_ABSTAIN" => r.target = <<>>
        /\ r.novelty = "SEMANTIC_NOVEL" => r.oracle = "NON_DERIVABLE"
        /\ r.oracle = r.given

IdsUnique(rs) == IsInjective([i \in DOMAIN rs |-> rs[i].id])

-----------------------------------------------------------------------------
(***************************************************************************)
(* The review.  Reviewer 1 goes by the masked labels of the record;        *)
(* reviewer 2 asks for a revision of premature cases at six ranks, which   *)
(* the adjudication turns down; the final status is reviewer 1's.          *)
(***************************************************************************)
EvaluateReviewer1(r) ==
    CASE r.novelty = "SEMANTIC_NOVEL" /\ r.given = "NON_DERIVABLE"
            /\ r.abstention = "SHOULD_PROPOSE"
           -> "GOLD_POSITIVE"
      [] r.abstention = "SHOULD_ABSTAIN" /\ r.novelty \in {"UNSUPPORTED", "EPISTEMICALLY_PREMATURE"}
           -> "GOLD_ABSTAIN"
      [] OTHER -> "HARD_NEGATIVE"

EvaluateReviewer2(r, rank) ==
    IF r.novelty = "EPISTEMICALLY_PREMATURE" /\ rank \in {14, 52, 98, 144, 188, 230}
    THEN "NEEDS_REVISION" ELSE EvaluateReviewer1(r)

\* Mutant: a request for revision is upheld.
AdjudicateUpholds(first, second) ==
    IF second = "NEEDS_REVISION" THEN second ELSE first

Adjudicate(first, second) == first

\* random.Random(20260811).shuffle of the records' positions.
ReviewOrder == <<
    203, 212, 41, 92, 230, 67, 215, 11, 125, 33, 50, 260, 166, 10, 222, 25,
    184, 113, 132, 217, 242, 134, 94, 176, 247, 6, 191, 248, 38, 95, 62, 78,
    174, 80, 139, 216, 219, 84, 3, 157, 246, 150, 175, 180, 8, 76, 252, 123,
    257, 105, 85, 2, 40, 99, 101, 239, 171, 214, 34, 68, 263, 196, 121, 51,
    100, 143, 250, 236, 202, 133, 108, 243, 153, 172, 124, 90, 71, 237, 187,
    207, 155, 14, 254, 49, 117, 48, 110, 37, 182, 231, 59, 32, 228, 129, 107,
    145, 162, 208, 97, 168, 213, 57, 137, 136, 159, 54, 160, 181, 170, 201,
    118, 87, 27, 232, 126, 149, 220, 218, 156, 114, 205, 210, 93, 240, 46,
    221, 61, 102, 122, 44, 206, 60, 163, 151, 39, 28, 204, 24, 161, 1, 91,
    144, 135, 141, 104, 77, 72, 98, 189, 223, 229, 165, 190, 225, 258, 255,
    20, 131, 253, 52, 75, 233, 86, 64, 241, 9, 88, 130, 55, 21, 251, 177, 234,
    264, 74, 115, 185, 17, 69, 164, 35, 36, 47, 109, 45, 128, 209, 194, 197,
    13, 146, 138, 4, 188, 183, 31, 18, 63, 96, 249, 148, 53, 193, 245, 186,
    23, 79, 227, 140, 119, 199, 120, 5, 167, 127, 211, 42, 103, 22, 179, 195,
    83, 73, 89, 244, 256, 66, 12, 238, 106, 262, 173, 198, 200, 116, 15, 7,
    70, 259, 111, 224, 30, 82, 112, 152, 26, 56, 192, 16, 65, 147, 261, 154,
    235, 29, 178, 226, 43, 142, 158, 81, 169, 58, 19 >>

FinalStatus(rank) ==
    LET r == Records[ReviewOrder[rank]]
    IN Adjudicate(EvaluateReviewer1(r), EvaluateReviewer2(r, rank))

\* get_curated_label, by rank: of a review that was not done, HARD_NEGATIVE.
CuratedLabels(basis) ==
    [rank \in 1..Total |-> IF basis = "finished" THEN FinalStatus(rank) ELSE "HARD_NEGATIVE"]

-----------------------------------------------------------------------------
(***************************************************************************)
(* execute_duplicate_repair.py.  It zips the records, in the order of the  *)
(* generator, with the review records, in the order of the review.         *)
(***************************************************************************)
CandidateProposition(r) == IF r.target # <<>> THEN r.target ELSE r.rejected

Connectors == << <<"as", "indicated", "by">>, <<"in", "light", "of">>,
                 <<"according", "to">>, <<"based", "on">> >>

CrossLabel(labels) ==
    LET rows(p) == {i \in DOMAIN Records : CandidateProposition(Records[i]) = p}
    IN {p \in {CandidateProposition(r) : r \in ToSet(Records)} :
           Cardinality({labels[i] : i \in rows(p)}) > 1}

\* A proposition with two labels, and that of every variant, is given words of
\* its percept.
Rewritten(i) ==
    CandidateProposition(Records[i]) \o Connectors[((i - 1) % 4) + 1] \o Records[i].snippet

DeduplicatedPropositions(labels) ==
    LET cross == CrossLabel(labels)
    IN [i \in DOMAIN Records |->
          IF CandidateProposition(Records[i]) \in cross \/ Records[i].id[1] = "pert"
          THEN Rewritten(i) ELSE CandidateProposition(Records[i])]

\* What execute_final_freeze.py counts: distinct propositions of the corpus
\* repaired with the labels of a review, and that review's labels.
UniqueProps ==
    [b \in {"blank", "finished"} |->
        Cardinality(ToSet(DeduplicatedPropositions(CuratedLabels(b))))]

LabelCounts ==
    [b \in {"blank", "finished"} |->
        [l \in {"GOLD_POSITIVE", "GOLD_ABSTAIN", "HARD_NEGATIVE"} |->
            Cardinality({k \in 1..Total : CuratedLabels(b)[k] = l})]]
=============================================================================
