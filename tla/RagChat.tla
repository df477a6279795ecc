------------------------------- MODULE RagChat ------------------------------
(***************************************************************************)
(* answer_from_protected_index over the index: retrieval, the call to the   *)
(* model, the look at the current version and the keeping of the answer    *)
(* are four steps, and versions are indexed and removed between any two.   *)
(* A session keeps its exchanges and passes the last of them on to the     *)
(* next question.                                                          *)
(***************************************************************************)
EXTENDS VersionIndex, Sequences

CONSTANTS Kept,       \* max_exchanges of append_exchange (6 in the code)
          Remembered  \* exchanges looked at for history (3 in the code)

ASSUME ChatAssumption == Kept \in Nat \ {0} /\ Remembered \in Nat

VARIABLES asking,    \* where the question is: "no", "model", "check", "answer"
          about,     \* the document of the session
          evidence,  \* the version retrieval named, NoSha for none
          cited,     \* retrieval found chunks that match
          sent,      \* versions of everything the model was given
          exchanges, \* the session's exchanges, the oldest first
          since      \* history: versions current since the answer was made

chatVars == <<asking, about, evidence, cited, sent, exchanges, since>>

ChatInit ==
  /\ asking = "no" /\ about \in Docs
  /\ evidence = NoSha /\ cited = FALSE /\ sent = {} /\ exchanges = <<>>
  /\ since = {}

\* What is the current version, in this state.
Now == {v \in Shas \cup {NoSha} : Reads(about, v)}

\* A step of the index, beside a question.
IndexMoves ==
  /\ UNCHANGED <<asking, about, evidence, cited, sent, exchanges>>
  /\ since' = IF asking \in {"check", "answer"} THEN since \cup Now' ELSE since

LastOf(n, s) == SubSeq(s, IF Len(s) > n THEN Len(s) - n + 1 ELSE 1, Len(s))

InSequence(s) == {s[i] : i \in DOMAIN s}

\* Earlier questions are passed on only with citations of the same version.
History(version) ==
  {x.version : x \in {y \in InSequence(LastOf(Remembered, exchanges)) :
                        y.version = version /\ y.cited}}

\* search_current_snapshot: the current version and its matching chunks are
\* read under one lock.
SearchFinds(version, match) == Reads(about, version) /\ (match => version # NoSha)

\* Without a match no model is called.
Retrieve ==
  /\ asking = "no"
  /\ \E version \in Shas \cup {NoSha}, match \in BOOLEAN :
       /\ SearchFinds(version, match)
       /\ evidence' = version /\ cited' = match
       /\ sent' = IF match THEN {version} \cup History(version) ELSE {}
       /\ asking' = IF match THEN "model" ELSE "check"
       /\ since' = IF match THEN {} ELSE Now
  /\ UNCHANGED <<about, exchanges>>

\* Mutant: only an answer without evidence is checked before it is returned.
ModelAnswers_Unchecked ==
  /\ asking = "model"
  /\ asking' = "answer"
  /\ since' = Now
  /\ UNCHANGED <<about, evidence, cited, sent, exchanges>>

\* The model answers with source labels of the chunks it was given.
ModelAnswers ==
  /\ asking = "model"
  /\ asking' = "check"
  /\ since' = Now
  /\ UNCHANGED <<about, evidence, cited, sent, exchanges>>

\* The question is over; nothing of it is kept.
Forget ==
  /\ asking' = "no" /\ evidence' = NoSha /\ cited' = FALSE
  /\ sent' = {} /\ since' = {}

\* The model fails or its labels do not fit the chunks, or the gateway does not
\* say what the current version is.
QuestionFails ==
  /\ asking \in {"model", "check"}
  /\ Forget
  /\ UNCHANGED <<about, exchanges>>

\* _require_unchanged_index: one request for the current version. If the
\* answer rests on another one, it is refused.
Check ==
  /\ asking = "check"
  /\ IF Reads(about, evidence)
     THEN asking' = "answer" /\ UNCHANGED <<evidence, cited, sent, since>>
     ELSE Forget
  /\ UNCHANGED <<about, exchanges>>

\* append_exchange, by the caller, once it has the answer: the index may have
\* moved on meanwhile.
Remember ==
  /\ asking = "answer"
  /\ exchanges' = LastOf(Kept, Append(exchanges,
       [version |-> evidence, cited |-> cited, sources |-> sent]))
  /\ Forget
  /\ UNCHANGED about

ChatNext == Retrieve \/ ModelAnswers \/ QuestionFails \/ Check \/ Remember
-----------------------------------------------------------------------------
\* An answer that is kept was made from one version only, the questions passed
\* on with it included, and that version was the approved one at some moment
\* after the answer was made: what was withdrawn or replaced while the model
\* was writing is answered from no more, whatever the session asked about
\* earlier versions. (A version that goes in the moment between the last look
\* and the keeping can still be answered from; the code does not exclude it.)
AnswersAreCurrent ==
  [][exchanges' # exchanges =>
       LET new == exchanges'[Len(exchanges')]
       IN new.version \in since /\ new.sources \subseteq {new.version}]_chatVars
=============================================================================
