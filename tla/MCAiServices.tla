----------------------------- MODULE MCAiServices ---------------------------
EXTENDS AiServices

CONSTANTS blank, plain, spaced, number, other, pieces, limit, rule, date, inject

\* plain and spaced differ in white space only; pieces is a unit word that a
\* number before it takes; limit is a number in a policy sentence, rule policy
\* wording without one, date a policy date, inject an instruction.
MCTexts == {blank, plain, spaced, number, other, pieces, limit, rule, date, inject}
MCNormal == [t \in MCTexts |-> IF t = spaced THEN plain ELSE t]

\* The numbers of text t when text next follows it.
Read(t, next) ==
  CASE t = number -> IF next = pieces THEN <<3>> ELSE <<1>>
    [] t = other -> IF next = pieces THEN <<1, 3>> ELSE <<1, 2>>
    [] t = limit -> <<2>>
    [] OTHER -> <<>>

MCNumbers(slice) ==
  FlattenSeq([i \in DOMAIN slice |->
                Read(slice[i], IF i = Len(slice) THEN blank ELSE slice[i + 1])])

MCDates(slice) == IF date \in ToSet(slice) THEN {1} ELSE {}
MCPolicyTerm(slice) == ToSet(slice) \cap {limit, rule, date} # {}
MCAdjoined(before, after) == MCPolicyTerm(before \o after)
MCInstructs(slice) == inject \in ToSet(slice)

Unit(t, hidden) == [text |-> t, hidden |-> hidden]

Units == {Unit(t, FALSE) : t \in {plain, number, other, rule, date}}

Doc(units, artifacts) == [units |-> units, artifacts |-> artifacts]

\* Every pair of short texts; and for single units everything the rules see.
MCDocuments ==
  {Doc(<<>>, {})} \cup {Doc(<<u>>, {}) : u \in Units}
  \cup {Doc(<<u, v>>, {}) : u \in Units, v \in Units}
  \cup {Doc(<<Unit(t, FALSE)>>, {}) : t \in {blank, spaced, limit, inject}}
  \cup {Doc(<<Unit(plain, FALSE), Unit(t, TRUE)>>, {}) : t \in {number, limit, inject}}
  \cup {Doc(<<Unit(plain, FALSE)>>, {a}) : a \in Artifacts}
  \cup {Doc(<<Unit(plain, FALSE), Unit(rule, FALSE)>>, {a}) : a \in Artifacts}
  \cup {Doc(<<Unit(number, FALSE), Unit(limit, FALSE), Unit(number, FALSE)>>, {})}
  \cup {Doc(<<Unit(t, FALSE), Unit(pieces, FALSE)>>, {}) : t \in {plain, number, other}}

MCAssessments ==
  [risk_score : {0, 70}, severities : {{}, {"LOW"}, {"MEDIUM"}, {"CRITICAL"}}]
=============================================================================
