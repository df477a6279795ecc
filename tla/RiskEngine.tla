------------------------------ MODULE RiskEngine ----------------------------
(***************************************************************************)
(* risk_engine.py without its calls: the static assessment of a request    *)
(* and the decision for a score. A request is the pair of extracted        *)
(* documents; a document is its units (a text, and whether it is hidden)    *)
(* and the types of its artifacts. Findings keep what later rules look at: *)
(* their type, their score and the texts they quote.                       *)
(***************************************************************************)
EXTENDS DocumentDiff

CONSTANTS Dates(_),        \* the dates in the texts of a slice, joined
          PolicyTerm(_),   \* these contain a policy term
          Adjoined(_, _),  \* as do two slices put together without a space
          Instructs(_),    \* these contain an instruction pattern
          HardArtifacts,   \* HARD_BLOCK_ARTIFACT_TYPES
          OtherArtifacts,  \* artifact types no rule names
          Quote            \* what a finding quotes that is not a text

ASSUME EngineAssumption == <<Quote>> \notin Seq(Texts)

NamedArtifacts == {"HIDDEN_TEXT", "CONTROL_CHARACTERS",
                   "TRACKED_CHANGES", "EXTERNAL_REFERENCE"}

Artifacts == HardArtifacts \cup NamedArtifacts \cup OtherArtifacts

Findings == [type : STRING, before : Seq(Texts \cup {Quote}),
             after : Seq(Texts \cup {Quote}), score : 0..100]

TextsOf(units) == [i \in DOMAIN units |-> units[i].text]

ChangesOf(request) ==
  Changes(TextsOf(request.baseline.units), TextsOf(request.candidate.units))

HiddenTexts(request) ==
  TextsOf(SelectSeq(request.candidate.units, LAMBDA u : u.hidden))

\* _contains_policy_term of what stood there before and stands there after.
PolicySensitive(change) == PolicyTerm(change.before \o change.after)

Found(type, before, after, score) ==
  [type |-> type, before |-> before, after |-> after, score |-> score]

ArtifactScore(type) ==
  IF type \in HardArtifacts THEN 100
  ELSE IF type \in {"HIDDEN_TEXT", "CONTROL_CHARACTERS"} THEN 80
  ELSE IF type \in {"TRACKED_CHANGES", "EXTERNAL_REFERENCE"} THEN 45
  ELSE 30

\* A HIDDEN_TEXT artifact scores, and is a finding unless hidden units are.
ArtifactFindings(request) ==
  {Found(t, <<>>, <<>>, ArtifactScore(t)) : t \in request.candidate.artifacts}

HiddenFindings(request) ==
  LET hidden == HiddenTexts(request)
      quoted == IF Len(hidden) = 1 THEN hidden ELSE <<Quote>>
  IN IF hidden = <<>> THEN {} ELSE {Found("HIDDEN_TEXT", <<>>, quoted, 80)}

\* The numeric changes, by the index of their change.
NumberFindings(changes) ==
  {LET changed == ChangedNumbers(changes[i])
       Quoted(values) == IF values = <<>> THEN <<>> ELSE <<Quote>>
       score == IF PolicySensitive(changes[i]) THEN 75 ELSE 55
   IN Found("NUMBER_CHANGE", Quoted(changed.before), Quoted(changed.after), score) :
     i \in {n \in DOMAIN changes : NumericChanged(changes[n])}}

DateChanged(change) == Dates(change.before) # Dates(change.after)

DateFindings(changes) ==
  {LET Quoted(slice) == IF Dates(slice) = {} THEN <<>> ELSE <<Quote>>
       score == IF Adjoined(changes[i].before, changes[i].after) THEN 70 ELSE 50
   IN Found("POLICY_DATE_CHANGE", Quoted(changes[i].before),
            Quoted(changes[i].after), score) :
     i \in {n \in DOMAIN changes : DateChanged(changes[n])}}

HiddenInstructions(request) ==
  {t \in ToSet(HiddenTexts(request)) : Instructs(<<t>>)}

\* Instruction patterns in what a change brings and in hidden units.
InjectionFindings(request, changes) ==
  {Found("PROMPT_INJECTION", <<>>, changes[i].after, 85) :
     i \in {n \in DOMAIN changes : changes[n].after # <<>> /\ Instructs(changes[n].after)}}
  \cup {Found("PROMPT_INJECTION", <<>>, <<t>>, 95) :
     t \in HiddenInstructions(request)}

\* Mutant: a finding that quotes nothing matches an empty side.
HasFinding_Unquoted(findings, change) ==
  \E f \in findings : f.before = change.before \/ f.after = change.after

\* _change_has_finding: a finding quotes the same text on one side. A side
\* that is empty in the change and in the finding counts as the same.
HasFinding(findings, change) ==
  \E f \in findings : /\ f.before # <<>> \/ f.after # <<>>
                      /\ f.before = change.before \/ f.after = change.after

Unclassified(changes, i) == ~NumericChanged(changes[i]) /\ ~DateChanged(changes[i])

Semantic(change) == Found("POLICY_SEMANTIC_CHANGE", change.before, change.after, 50)

\* The semantic rule goes through the changes in order: what it finds in one
\* counts as a finding for the next.
SemanticFindings(findings, changes) ==
  LET Flagged[i \in DOMAIN changes] ==
        /\ Unclassified(changes, i) /\ PolicySensitive(changes[i])
        /\ LET before == {n \in 1..(i - 1) : Flagged[n]}
           IN ~HasFinding(findings \cup {Semantic(changes[n]) : n \in before}, changes[i])
  IN {Semantic(changes[i]) : i \in {n \in DOMAIN changes : Flagged[n]}}

\* The rules that judge each artifact, hidden unit and change by itself.
RuleFindings(request, changes) ==
  ArtifactFindings(request) \cup HiddenFindings(request)
  \cup NumberFindings(changes) \cup DateFindings(changes)
  \cup InjectionFindings(request, changes)

\* The rules that come last: policy wording that no finding quotes, and changes
\* in which nothing was found at all.
JudgedFindings(found, changes) ==
  LET judged == found \cup SemanticFindings(found, changes)
  IN IF changes # <<>> /\ judged = {}
     THEN {Found("DOCUMENT_CONTENT_CHANGE", <<>>, <<>>, 35)}
     ELSE judged

\* assess_static_risk
Assess(request) ==
  JudgedFindings(RuleFindings(request, ChangesOf(request)), ChangesOf(request))

Highest(scores) == CHOOSE s \in scores : \A r \in scores : r <= s

StaticScore(request) == Highest({0} \cup {f.score : f \in Assess(request)})

HardBlock(request) == request.candidate.artifacts \cap HardArtifacts # {}

\* _decision_for_score
DecisionFor(score) ==
  IF score >= 70 THEN "BLOCK" ELSE IF score >= 30 THEN "REVIEW" ELSE "ALLOW"

\* _SEVERITY_SCORE
SeverityScore == [LOW |-> 20, MEDIUM |-> 50, HIGH |-> 80, CRITICAL |-> 100]

\* _model_assessment_score: a judge's low number does not outweigh what it
\* calls severe.
JudgedScore(assessment) ==
  Highest({assessment.risk_score}
          \cup {SeverityScore[v] : v \in assessment.severities})
=============================================================================
