---------------------------- MODULE RiskAnalysis ----------------------------
(***************************************************************************)
(* One analysis of the B service: RiskEngine.analyze behind risk_api's      *)
(* /analyze, with its judge, the model server it asks, and the HTTP answer *)
(* the gateway's analyzer gets. The calls to the judge are steps, and each *)
(* may fail in every way the client knows or break with an exception the   *)
(* engine does not expect.                                                 *)
(***************************************************************************)
EXTENDS RiskEngine, ModelClient

CONSTANTS Documents,     \* extracted documents
          Assessments    \* answers of the judge that pass its schema

ASSUME DocumentAssumption ==
  \A d \in Documents :
    /\ d.units \in Seq([text : Texts, hidden : BOOLEAN])
    /\ LET units == NormalizedUnits(TextsOf(d.units))
       IN \A i, j \in DOMAIN units : Numbers(SubSeq(units, i, j)) \in Seq(Nat)

ASSUME JudgeAssumption ==
  \A m \in Assessments : /\ m.risk_score \in 0..100
                         /\ m.severities \subseteq DOMAIN SeverityScore

VARIABLES request,   \* the request, and whether its digests agree
          judge,     \* an LLM judge is configured
          phase,     \* how far the analysis got
          score,     \* risk_score so far
          asked,     \* asked[p]: what came of phase p of the judge
          policy,    \* analysis_status and decision of the answer
          delivered  \* what the gateway's analyzer made of the response

riskVars == <<request, judge, phase, score, asked, policy, delivered>>

Requests == [baseline : Documents, candidate : Documents, intact : BOOLEAN]

Phases == {"primary", "high_risk_audit"}

NoPolicy == [status |-> "NONE", decision |-> "NONE"]

RiskInit ==
  /\ request \in Requests
  /\ judge \in BOOLEAN
  /\ phase = "received"
  /\ score = 0
  /\ asked = [p \in Phases |-> "not"]
  /\ policy = NoPolicy
  /\ delivered = "NONE"

RiskTypeOK ==
  /\ request \in Requests
  /\ judge \in BOOLEAN
  /\ phase \in {"received", "primary", "high_risk_audit", "decide", "answered", "done"}
  /\ score \in 0..100
  /\ asked \in [Phases -> {"not", "answered", "failed"}]
  /\ policy \in [status : {"NONE", "COMPLETED", "FAILED"},
                 decision : {"NONE", "ALLOW", "REVIEW", "BLOCK"}]
  /\ delivered \in {"NONE", "policy", "retryable", "failed"}

AtLeast(a, b) == IF a >= b THEN a ELSE b

\* fail_closed_submission
FailClosed ==
  /\ phase' = "answered"
  /\ policy' = [status |-> "FAILED", decision |-> "BLOCK"]

\* _request_integrity_issue
RefuseAltered ==
  /\ phase = "received" /\ ~request.intact
  /\ FailClosed
  /\ UNCHANGED <<request, judge, score, asked, delivered>>

AssessStatic ==
  /\ phase = "received" /\ request.intact
  /\ score' = StaticScore(request)
  /\ phase' = IF judge THEN "primary" ELSE "decide"
  /\ UNCHANGED <<request, judge, asked, policy, delivered>>

\* Mutant: the judge's score replaces the static one.
JudgeAnswers_Replaces ==
  /\ phase \in Phases
  /\ \E m \in Assessments :
       /\ score' = JudgedScore(m)
       /\ phase' = IF phase = "primary" /\ score' >= 70
                   THEN "high_risk_audit" ELSE "decide"
  /\ asked' = [asked EXCEPT ![phase] = "answered"]
  /\ UNCHANGED <<request, judge, policy, delivered>>

\* Mutant: the second audit starts above the threshold of BLOCK.
JudgeAnswers_LateAudit ==
  /\ phase \in Phases
  /\ \E m \in Assessments :
       /\ score' = AtLeast(score, JudgedScore(m))
       /\ phase' = IF phase = "primary" /\ score' > 70
                   THEN "high_risk_audit" ELSE "decide"
  /\ asked' = [asked EXCEPT ![phase] = "answered"]
  /\ UNCHANGED <<request, judge, policy, delivered>>

\* Mutant: the scores of the phases are added.
JudgeAnswers_Adds ==
  /\ phase \in Phases
  /\ \E m \in Assessments :
       /\ score' = score + JudgedScore(m)
       /\ phase' = IF phase = "primary" /\ score' >= 70
                   THEN "high_risk_audit" ELSE "decide"
  /\ asked' = [asked EXCEPT ![phase] = "answered"]
  /\ UNCHANGED <<request, judge, policy, delivered>>

\* The judge answers; a high score after the primary phase is audited.
JudgeAnswers ==
  /\ phase \in Phases
  /\ \E m \in Assessments :
       /\ score' = AtLeast(score, JudgedScore(m))
       /\ phase' = IF phase = "primary" /\ score' >= 70
                   THEN "high_risk_audit" ELSE "decide"
  /\ asked' = [asked EXCEPT ![phase] = "answered"]
  /\ UNCHANGED <<request, judge, policy, delivered>>

\* What the judge's client can come back with, model configured or not.
JudgeResults ==
  {JudgeAssess(listing, reply, content) :
     listing \in Replies \cup {"configured"}, reply \in Replies, content \in Contents}

\* Mutant: without the judge the static score stands.
JudgeUnavailable_StaticOnly ==
  /\ phase \in Phases
  /\ phase' = "decide"
  /\ asked' = [asked EXCEPT ![phase] = "failed"]
  /\ UNCHANGED <<request, judge, score, policy, delivered>>

\* The judge's client raises one of its errors: at least a review.
JudgeUnavailable ==
  /\ phase \in Phases
  /\ \E result \in JudgeResults : ~result.ok
  /\ score' = IF HardBlock(request) THEN score ELSE AtLeast(score, 50)
  /\ asked' = [asked EXCEPT ![phase] = "failed"]
  /\ phase' = "decide"
  /\ UNCHANGED <<request, judge, policy, delivered>>

\* Anything else that is raised inside the engine ends at risk_api.
Breaks ==
  /\ phase \in {"received", "primary", "high_risk_audit", "decide"}
  /\ FailClosed
  /\ UNCHANGED <<request, judge, score, asked, delivered>>

Decide ==
  /\ phase = "decide"
  /\ score' = IF HardBlock(request) THEN 100 ELSE score
  /\ policy' = [status |-> "COMPLETED", decision |-> DecisionFor(score')]
  /\ phase' = "answered"
  /\ UNCHANGED <<request, judge, asked, delivered>>

\* What the gateway's analyzer makes of a result.
Outcome(result) ==
  IF result.ok THEN "policy" ELSE IF result.retryable THEN "retryable" ELSE "failed"

DirectResults ==
  {AssessDocumentRisk(listing, reply, content) :
     listing \in Replies \cup {"configured"}, reply \in Replies, content \in Contents}

\* Without a B service the gateway may ask the model itself: its policy for
\* the candidate is taken without static evidence, and nothing below is said
\* of it.
AskModel ==
  /\ phase = "received"
  /\ \E result \in DirectResults : delivered' = Outcome(result)
  /\ phase' = "done"
  /\ UNCHANGED <<request, judge, score, asked, policy>>

Responses == {AnalyzeOverHttp(reply, content) : reply \in Replies, content \in Contents}

\* The response crosses the network to HttpRiskAnalyzer, or does not.
Deliver ==
  /\ phase = "answered"
  /\ \E result \in Responses : delivered' = Outcome(result)
  /\ phase' = "done"
  /\ UNCHANGED <<request, judge, score, asked, policy>>

RiskNext == \/ RefuseAltered \/ AssessStatic \/ JudgeAnswers \/ JudgeUnavailable
            \/ Breaks \/ Decide \/ Deliver \/ AskModel
-----------------------------------------------------------------------------
Changed == ChangesOf(request) # <<>>

\* Content that changed, hides text or carries an artifact is never allowed
\* without a person, and unchanged content only on a judge's word if there is
\* a judge: no failure, no refused answer and no lenient judge opens the index.
AllowIsEarned ==
  policy.decision = "ALLOW" =>
    /\ request.intact /\ ~Changed
    /\ HiddenTexts(request) = <<>> /\ request.candidate.artifacts = {}
    /\ judge => asked["primary"] = "answered"

Rank == [NONE |-> 3, ALLOW |-> 0, REVIEW |-> 1, BLOCK |-> 2]

\* README: the model can raise the risk and never lift a block. Whatever the
\* judge answered and whatever failed, the decision is at least the one the
\* static evidence calls for, and a hard-blocking artifact is blocked.
StaticEvidenceStands ==
  policy # NoPolicy =>
    /\ Rank[policy.decision] >= Rank[DecisionFor(StaticScore(request))]
    /\ HardBlock(request) => policy.decision = "BLOCK"

\* README: from 70 on a second audit is asked for, also when it is the static
\* rules or the primary phase alone that reach exactly 70.
HighRiskIsAudited ==
  (policy.status = "COMPLETED" /\ asked["primary"] = "answered" /\ score >= 70)
  => asked["high_risk_audit"] # "not"
-----------------------------------------------------------------------------
(* The evidence the assessment rests on *)

Occurrences(x, s) == Cardinality({i \in DOMAIN s : s[i] = x})

\* The diff loses nothing and invents nothing (diff_documents): it is empty for
\* equal documents only, and every unit stands in the candidate as much more
\* often than in the baseline as in what the changes bring than in what they take.
DiffIsComplete ==
  LET b == NormalizedUnits(TextsOf(request.baseline.units))
      c == NormalizedUnits(TextsOf(request.candidate.units))
      changes == ChangesOf(request)
  IN /\ (changes = <<>>) = (b = c)
     /\ \A t \in ToSet(b \o c) :
          Occurrences(t, c) - Occurrences(t, b)
          = Occurrences(t, Afters(changes)) - Occurrences(t, Befores(changes))

\* A number is read across units: one takes its unit word or its sign from
\* the text next to it.
Seamed(units) ==
  \E i, j \in DOMAIN units :
    LET slice == SubSeq(units, i, j)
    IN Numbers(slice) # FlattenSeq([n \in DOMAIN slice |-> Numbers(<<slice[n]>>)])

\* How much more often n stands in after than in before.
Surplus(n, before, after) == Occurrences(n, after) - Occurrences(n, before)

\* No number appears or disappears unseen (_changed_numeric_values): in every
\* change the numeric evidence accounts exactly for how much more often a value
\* stands on the side of the candidate, as the joined texts of the sides read.
\* The changes together account for the documents, also when units were split,
\* moved or merged around a number, as long as no number is read across units:
\* a number whose unit word alone was changed, in a unit of its own, shows in
\* no change.
NumbersAccounted ==
  LET b == NormalizedUnits(TextsOf(request.baseline.units))
      c == NormalizedUnits(TextsOf(request.candidate.units))
      changes == ChangesOf(request)
      evidence == [i \in DOMAIN changes |-> ChangedNumbers(changes[i])]
  IN /\ \A i \in DOMAIN changes :
          \A n \in ToSet(Numbers(changes[i].before) \o Numbers(changes[i].after)) :
            Surplus(n, Numbers(changes[i].before), Numbers(changes[i].after))
            = Surplus(n, evidence[i].before, evidence[i].after)
     /\ \/ \A n \in ToSet(Numbers(b) \o Numbers(c)) :
             Surplus(n, Numbers(b), Numbers(c))
             = Surplus(n, Befores(evidence), Afters(evidence))
        \/ Seamed(b) \/ Seamed(c)

\* Policy wording that changed is never rated below a review of its own (50),
\* although another finding that happens to have the same empty side hides
\* the rule for it.
WordingIsReviewed ==
  LET changes == ChangesOf(request)
  IN (\E i \in DOMAIN changes : PolicySensitive(changes[i]))
     => StaticScore(request) >= 50
=============================================================================
