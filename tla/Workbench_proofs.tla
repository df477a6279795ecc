-------------------------- MODULE Workbench_proofs --------------------------
(***************************************************************************)
(* REANALYZE for any number of analyses and any failures between its three *)
(* commits. That a superseded analysis has an heir is not inductive by     *)
(* itself: the heir is on record before the original is closed, so the     *)
(* invariant also says what the operation holds in between; and an heir    *)
(* stays one because the rows of analyses never change (GateInv).          *)
(***************************************************************************)
EXTENDS Workbench, Gateway_proofs

\* b is the replacement of a, about the same content and baseline.
IsHeir(b, a) ==
  /\ a \in Analyses /\ prepared[a] # Nil
  /\ b \in Analyses \ {a} /\ prepared[b] # Nil
  /\ prepared[b].supersedes = a
  /\ Row(b) = Row(a) /\ prepared[b].expected = prepared[a].expected

\* Every superseded analysis has an heir ...
HeirsExist ==
  \A a \in Analyses : state[a] = "SUPERSEDED" => \E b \in Analyses : IsHeir(b, a)

\* ... and a reanalysis has made one before it closes the original.
HeirMade ==
  (op.kind = "REANALYZE" /\ op.pc \in {"supersede", "request", "finish"})
    => IsHeir(op.repl, op.a)

HeirInv == HeirsExist /\ HeirMade
-----------------------------------------------------------------------------
\* The row of the heir is immutable, so it stays one.
LEMMA HeirKept ==
  ASSUME GateInv, [Next]_vars, NEW a, NEW b, IsHeir(b, a)
  PROVE  IsHeir(b, a)'
BY RowsKept DEF IsHeir, Row

\* A step that supersedes nothing, and after which no reanalysis has come
\* further.
LEMMA NothingSuperseded ==
  ASSUME GateInv, HeirInv, [Next]_vars,
         \A a \in Analyses : state'[a] = "SUPERSEDED" => state[a] = "SUPERSEDED",
         \/ op'.kind # "REANALYZE"
         \/ op'.pc \notin {"supersede", "request", "finish"}
         \/ /\ op.kind = "REANALYZE" /\ op.pc \in {"supersede", "request", "finish"}
            /\ op'.a = op.a /\ op'.repl = op.repl
  PROVE  HeirInv'
<1>1. HeirsExist'
  BY HeirKept DEF HeirInv, HeirsExist
<1>2. HeirMade'
  BY HeirKept DEF HeirInv, HeirMade
<1> QED
  BY <1>1, <1>2 DEF HeirInv
-----------------------------------------------------------------------------
LEMMA HeirStep == GateInv /\ HeirInv /\ [Next]_vars => HeirInv'
<1> SUFFICES ASSUME GateInv, HeirInv, [Next]_vars
             PROVE  HeirInv'
  OBVIOUS
<1> USE DEF NoOp
<1>1. ASSUME NEW a \in Analyses, RecordPrepared(a) \/ EnsureRequest(a) \/ DispatchFails(a)
      PROVE  HeirInv'
  BY <1>1, NothingSuperseded
     DEF RecordPrepared, EnsureRequest, DispatchFails, GateInv, TypeOK, HeirInv, HeirMade
<1>2. ASSUME NEW a \in Analyses, NEW p \in Policies,
             SubmitPolicyResult(a, p) \/ DispatchAnswers(a, p)
      PROVE  HeirInv'
  BY <1>2, NothingSuperseded DEF SubmitPolicyResult, DispatchAnswers, SubmitStart
<1>3. ASSUME NEW a \in Analyses, NEW k \in Keys, NEW c \in Commands,
             NEW r \in Analyses \cup {Nil}, CommandStart(a, k, c, r)
      PROVE  HeirInv'
  BY <1>3, NothingSuperseded DEF CommandStart, log
<1>4. CASE Gate
  <2>1. UNCHANGED state /\ op'.pc = "record"
    BY <1>4 DEF Gate, GateRemoves, GateRemovalFails, GateDeniesIntegrity, GateIndexFails,
                GateIndexes, GateStale, Leaves, log, GateInv, TypeOK, Operations
  <2> QED
    BY <2>1, NothingSuperseded
<1>5. CASE GateRecords
  <2>1. /\ \A a \in Analyses : state'[a] = "SUPERSEDED" => state[a] = "SUPERSEDED"
        /\ op'.kind = op.kind
        /\ op.kind = "REANALYZE" => op'.pc = "replace"
    BY <1>5 DEF GateRecords, StateFor, GateInv, TypeOK, Operations
  <2> QED
    BY <2>1, NothingSuperseded
<1>6. CASE FinishSubmit
  BY <1>6, NothingSuperseded DEF FinishSubmit, StateFor, GateInv, TypeOK
<1>7. CASE AnswerCommand \/ GateRecordFails \/ OperationFails \/ Crash
  BY <1>7, NothingSuperseded DEF AnswerCommand, GateRecordFails, OperationFails, Crash, log
<1>8. CASE Replace
  <2>1. /\ op.kind = "REANALYZE" /\ op.a \in Analyses /\ op.repl \in Analyses
        /\ prepared[op.a] # Nil /\ prepared[op.repl] = Nil
        /\ prepared[op.a] \in Prepared
    BY <1>8 DEF Replace, GateInv, OpAdmitted, IdsReserved, TypeOK
  <2>2. /\ prepared'[op.a] = prepared[op.a]
        /\ prepared'[op.repl] = [prepared[op.a] EXCEPT !.supersedes = op.a]
        /\ prepared'[op.repl] \in Prepared
    BY <1>8, <2>1 DEF Replace, GateInv, TypeOK, Prepared
  <2>3. IsHeir(op.repl, op.a)'
    BY <2>1, <2>2, NotNil, <1>8 DEF IsHeir, Row, Prepared, Replace, GateInv, TypeOK, Operations
  <2>4. \A a \in Analyses : state'[a] = "SUPERSEDED" => state[a] = "SUPERSEDED"
    BY <1>8 DEF Replace, GateInv, TypeOK
  <2>5. HeirsExist'
    BY <2>4, HeirKept DEF HeirInv, HeirsExist
  <2>6. HeirMade'
    BY <1>8, <2>3 DEF HeirMade, Replace, GateInv, TypeOK, Operations
  <2> QED
    BY <2>5, <2>6 DEF HeirInv
<1>9. CASE Supersede \/ FinishCommand
  <2>1. ASSUME NEW a \in Analyses, state'[a] = "SUPERSEDED", state[a] # "SUPERSEDED"
        PROVE  a = op.a /\ IsHeir(op.repl, op.a)
    BY <1>9, <2>1 DEF Supersede, FinishCommand, HeirInv, HeirMade, GateInv, TypeOK, OpAdmitted
  <2>2. ASSUME NEW a \in Analyses, state'[a] = "SUPERSEDED"
        PROVE  \E b \in Analyses : IsHeir(b, a)'
    <3>1. PICK b \in Analyses : IsHeir(b, a)
      BY <2>1, <2>2 DEF HeirInv, HeirsExist, IsHeir
    <3> QED
      BY <3>1, HeirKept
  <2>3. HeirMade'
    <3>1. CASE Supersede
      BY <3>1, HeirKept DEF Supersede, HeirInv, HeirMade, GateInv, OpAdmitted, TypeOK, Operations
    <3>2. CASE FinishCommand
      BY <3>2 DEF FinishCommand, HeirMade, GateInv, TypeOK, Operations
    <3> QED
      BY <1>9, <3>1, <3>2
  <2> QED
    BY <2>2, <2>3 DEF HeirInv, HeirsExist
<1>10. CASE RequestReplacement
  <2>1. /\ op.kind = "REANALYZE" /\ op'.a = op.a /\ op'.repl = op.repl
        /\ \A a \in Analyses : state'[a] = "SUPERSEDED" => state[a] = "SUPERSEDED"
    BY <1>10 DEF RequestReplacement, GateInv, OpAdmitted, TypeOK, Operations
  <2> QED
    BY <1>10, <2>1, NothingSuperseded DEF RequestReplacement
<1>11. CASE UNCHANGED <<state, op>>
  BY <1>11, NothingSuperseded
<1>12. ASSUME NEW a \in Analyses, DispatchStart(a) \/ \E d \in Docs, c \in Shas : PrepareRead(a, d, c)
       PROVE  HeirInv'
  BY <1>12, <1>11 DEF DispatchStart, PrepareRead, log
<1> QED
  BY <1>1, <1>2, <1>3, <1>4, <1>5, <1>6, <1>7, <1>8, <1>9, <1>10, <1>11, <1>12
     DEF Next, Continue, vars

LEMMA HeirInit == Init => HeirInv
BY DEF Init, HeirInv, HeirsExist, HeirMade, NoOp

\* Wherever between its three commits a REANALYZE fails or the process
\* stops, a superseded analysis has a replacement of the same document,
\* candidate and baseline on record (operations.py, _create_reanalysis).
THEOREM ReanalysisHasHeir == Spec => []SupersededHasHeir
<1>1. HeirInv => SupersededHasHeir
  BY DEF HeirInv, HeirsExist, IsHeir, SupersededHasHeir
<1> QED
  BY <1>1, HeirInit, HeirStep, GateInvariant, PTL DEF Spec
-----------------------------------------------------------------------------
\* An analysis whose projection nothing overtook and whose removals worked
\* shows the dashboard nothing to object to.
LEMMA NoFalseAlarm ==
  ASSUME GateInv, LogInv, NEW a \in Analyses, prepared[a] # Nil,
         ~Overtaken(a), ~Uncontained(a)
  PROVE  AuthorityIssues(a) = {}
<1>1. Allowed(a, "APPROVE") =>
        applied[a] = "ALLOW" /\ state[a] \in {"AWAITING_APPROVAL", "HOLD"}
  BY DEF Allowed
<1>2. /\ state[a] = "SUPERSEDED" => {c \in Commands : Allowed(a, c)} = {}
      /\ state[a] = "QUARANTINED" => {c \in Commands : Allowed(a, c)} \subseteq {"REANALYZE"}
  BY DEF Allowed
<1>3. (outcome[a] # Nil /\ (outcome[a].indexed \/ outcome[a].action = "INDEX"))
        => applied[a] = "ALLOW"
  BY DEF LogInv, LogExplained, Uncontained
<1>b. outcome[a] # Nil => outcome[a].indexed \in BOOLEAN
  BY DEF GateInv, TypeOK, Outcomes
<1>4. Consistent(state[a], applied[a], outcome[a])
  <2> state[a] \in States
    BY DEF GateInv, TypeOK
  <2>1. CASE state[a] \in PrePolicy
    <3>1. outcome[a] = Nil /\ applied[a] = Nil
      BY <2>1 DEF PrePolicy, LogInv, LogExplained, Overtaken
    <3> QED
      BY <2>1, <3>1 DEF Consistent, PrePolicy
  <2>2. CASE state[a] \notin PrePolicy
    <3>1. CASE state[a] \in {"AWAITING_APPROVAL", "HOLD"}
      BY <1>b, <3>1 DEF Consistent, PrePolicy, LogInv, LogExplained, Uncontained
    <3>2. CASE state[a] = "INDEXED"
      BY <1>b, <3>2 DEF Consistent, PrePolicy, LogInv, LogExplained
    <3>3. CASE state[a] = "QUARANTINED"
      BY <1>b, <3>3 DEF Consistent, PrePolicy, LogInv, LogExplained, Uncontained
    <3>4. CASE state[a] \in {"NONE", "SUPERSEDED"}
      BY <3>4, Zenon DEF Consistent, PrePolicy
    <3> QED
      BY <2>2, <3>1, <3>2, <3>3, <3>4 DEF PrePolicy, States
  <2> QED
    BY <2>1, <2>2
<1> QED
  BY <1>b, <1>1, <1>2, <1>3, <1>4 DEF AuthorityIssues, Uncontained

\* The dashboard locks an analysis (authority_issues) only for a containment
\* failure or a projection that a late dispatch failure or request overtook,
\* whatever failed or crashed before.
THEOREM AlarmExplained == Spec => []AlarmIsExplained
<1>1. GateInv /\ LogInv => AlarmIsExplained
  BY NoFalseAlarm DEF AlarmIsExplained
<1> QED
  BY <1>1, GateInvariant, LogInvariant, PTL

\* Whatever failed between two appends, B or the operator can take the
\* analysis up again.
THEOREM WorkReachable == Spec => []WorkIsReachable
<1>1. GateInv /\ LogInv => WorkIsReachable
  <2> SUFFICES ASSUME GateInv, LogInv, NEW a \in Analyses, prepared[a] # Nil,
                      state[a] # "SUPERSEDED", ~Uncontained(a),
                      ~(Overtaken(a) /\ applied[a] # Nil)
               PROVE  Pending(a) \/ EffectiveCommands(a) # {}
    BY DEF WorkIsReachable
  <2>1. CASE Overtaken(a)
    BY <2>1 DEF Overtaken, Pending, LogInv, LogExplained
  <2>2. CASE ~Overtaken(a)
    <3>1. AuthorityIssues(a) = {}
      BY <2>2, NoFalseAlarm
    <3>2. Allowed(a, "REANALYZE")
      BY DEF Allowed
    <3> QED
      BY <3>1, <3>2 DEF EffectiveCommands, Commands
  <2> QED
    BY <2>1, <2>2
<1> QED
  BY <1>1, GateInvariant, LogInvariant, PTL

\* What was saved of a command is an answer the client believes, apart from the
\* state a replacement's original must be in.
SavedFits ==
  \A a \in Analyses, k \in Keys :
    completed[a][k] # Nil =>
      /\ completed[a][k].outcome \in ExpectedOutcome(completed[a][k])
      /\ IF completed[a][k].kind = "REANALYZE"
         THEN completed[a][k].repl \notin {Nil, a}
         ELSE completed[a][k].repl = Nil

\* A command past the gate has an answer that fits, as long as removals work.
LEMMA AnswerFits ==
  ASSUME GateInv, LogInv, Contained, op.pc \in {"finish", "answer"}, op.kind \in Commands
  PROVE  /\ op.outcome \in ExpectedOutcome(Answer)
         /\ IF op.kind = "REANALYZE" THEN op.repl \notin {Nil, op.a} ELSE op.repl = Nil
<1>1. /\ op.outcome \in Outcomes
      /\ op.outcome.indexed <=> op.outcome.action = "INDEX"
  BY DEF GateInv, TypeOK, Operations, LogInv, OpRecorded, Contained
<1>2. op.outcome = [action |-> op.outcome.action, indexed |-> op.outcome.indexed]
      /\ op.outcome.indexed \in BOOLEAN
      /\ op.outcome.action \in {"INDEX", "HOLD", "QUARANTINE"}
  BY <1>1 DEF Outcomes
<1>3. /\ op.kind \in {"HOLD", "REANALYZE"} => op.outcome.action = "HOLD"
      /\ op.kind = "APPROVE" => op.outcome.action # "HOLD"
      /\ op.kind \in {"HOLD", "APPROVE"} => op.repl = Nil
      /\ op.kind = "REANALYZE" => op.repl # op.a
  BY <1>1, NotNil DEF LogInv, OpRecorded
<1>4. op.kind = "REANALYZE" => op.repl # Nil
  BY NotNil DEF GateInv, IdsReserved
<1>5. op.outcome \in ExpectedOutcome(Answer)
  <2>1. CASE op.kind = "APPROVE"
    <3>1. op.outcome \in {[action |-> "INDEX", indexed |-> TRUE],
                          [action |-> "QUARANTINE", indexed |-> FALSE]}
      BY <1>1, <1>2, <1>3, <2>1
    <3> QED
      BY <2>1, <3>1 DEF ExpectedOutcome, Answer
  <2>2. CASE op.kind # "APPROVE"
    <3>1. op.outcome = [action |-> "HOLD", indexed |-> FALSE]
      BY <1>1, <1>2, <1>3, <2>2 DEF Commands
    <3> QED
      BY <2>2, <3>1 DEF ExpectedOutcome, Answer
  <2> QED
    BY <2>1, <2>2
<1> QED
  BY <1>3, <1>4, <1>5 DEF Commands

LEMMA SavedStep ==
  ASSUME GateInv, LogInv, Contained, SavedFits, [Next]_vars
  PROVE  SavedFits'
<1>1. CASE UNCHANGED completed
  BY <1>1 DEF SavedFits
<1>2. CASE FinishCommand
  <2>1. /\ op.a \in Analyses /\ op.key \in Keys
        /\ completed' = [completed EXCEPT ![op.a][op.key] = Answer]
        /\ completed \in [Analyses -> [Keys -> Answers \cup {Nil}]]
    BY <1>2 DEF FinishCommand, GateInv, TypeOK, OpAdmitted
  <2>2. ASSUME NEW a \in Analyses, NEW k \in Keys
        PROVE  completed'[a][k] = IF a = op.a /\ k = op.key THEN Answer ELSE completed[a][k]
    BY <2>1
  <2>3. /\ Answer.outcome \in ExpectedOutcome(Answer)
        /\ IF Answer.kind = "REANALYZE" THEN Answer.repl \notin {Nil, op.a}
           ELSE Answer.repl = Nil
    <3>1. /\ op.outcome \in ExpectedOutcome(Answer)
          /\ IF op.kind = "REANALYZE" THEN op.repl \notin {Nil, op.a} ELSE op.repl = Nil
      BY <1>2, AnswerFits DEF FinishCommand
    <3>2. Answer.outcome = op.outcome /\ Answer.kind = op.kind /\ Answer.repl = op.repl
      BY DEF Answer
    <3> QED
      BY <3>1, <3>2
  <2>4. ASSUME NEW a \in Analyses, NEW k \in Keys, completed'[a][k] # Nil
        PROVE  /\ completed'[a][k].outcome \in ExpectedOutcome(completed'[a][k])
               /\ IF completed'[a][k].kind = "REANALYZE"
                  THEN completed'[a][k].repl \notin {Nil, a}
                  ELSE completed'[a][k].repl = Nil
    <3>1. CASE a = op.a /\ k = op.key
      BY <2>2, <2>3, <3>1
    <3>2. CASE ~(a = op.a /\ k = op.key)
      BY <2>2, <2>4, <3>2 DEF SavedFits
    <3> QED
      BY <3>1, <3>2
  <2>5. \A x : ExpectedOutcome(x)' = ExpectedOutcome(x)
    BY DEF ExpectedOutcome
  <2> QED
    BY <2>4, <2>5 DEF SavedFits
<1>3. UNCHANGED completed \/ FinishCommand
  BY DEF Next, vars, log, PrepareRead, RecordPrepared, EnsureRequest, DispatchStart,
         DispatchFails, SubmitPolicyResult, DispatchAnswers, CommandStart, Continue,
         Gate, GateRemoves, GateRemovalFails, GateDeniesIntegrity, GateIndexFails,
         GateIndexes, GateStale, Leaves, GateRecords, GateRecordFails, FinishSubmit,
         AnswerCommand, Replace, Supersede, RequestReplacement, OperationFails, Crash
<1> QED
  BY <1>1, <1>2, <1>3

\* As long as removals work, the client believes the answer to every command
\* that was carried out and its replays (_command_result_matches), unless a
\* dispatch that failed since spoils the status of the answer.
THEOREM CompletedBelieved ==
  ASSUME "indexer" \notin FaultKinds
  PROVE  Spec => []CompletedIsBelieved
<1>1. GateInv /\ LogInv /\ Contained /\ SavedFits => CompletedIsBelieved
  <2> SUFFICES ASSUME GateInv, LogInv, Contained, SavedFits
               PROVE  CompletedIsBelieved
    OBVIOUS
  <2>1. ASSUME op.pc = "answer", state[op.a] # "ANALYSIS_FAILED"
        PROVE  CommandResultMatches(Answer, op.a, state[op.a], outcome[op.a], FALSE)
    <3>1. op.kind \in Commands /\ outcome[op.a] = op.outcome
      BY <2>1 DEF GateInv, OpAdmitted, LogInv, OpRecorded
    <3>2. /\ op.outcome \in ExpectedOutcome(Answer)
          /\ IF op.kind = "REANALYZE" THEN op.repl \notin {Nil, op.a} ELSE op.repl = Nil
      BY <2>1, <3>1, AnswerFits
    <3>3. Answer.outcome = op.outcome /\ Answer.kind = op.kind /\ Answer.repl = op.repl
      BY DEF Answer
    <3>4. state[op.a] = ExpectedState(Answer)
      <4>1. CASE op.kind = "HOLD"
        BY <2>1, <3>3, <4>1 DEF LogInv, OpRecorded, ExpectedState
      <4>2. CASE op.kind = "REANALYZE"
        BY <2>1, <3>3, <4>2 DEF LogInv, OpRecorded, ExpectedState
      <4>3. CASE op.kind = "APPROVE"
        <5>1. state[op.a] = StateFor(op.outcome, "ALLOW")
          BY <2>1, <4>3 DEF LogInv, OpRecorded
        <5>2. op.outcome \in {[action |-> "INDEX", indexed |-> TRUE],
                              [action |-> "QUARANTINE", indexed |-> FALSE]}
          BY <3>2, <3>3, <4>3 DEF ExpectedOutcome
        <5> QED
          BY <3>3, <4>3, <5>1, <5>2 DEF StateFor, ExpectedState
      <4> QED
        BY <3>1, <4>1, <4>2, <4>3 DEF Commands
    <3>5. op.kind = "REANALYZE" => state[op.a] = "SUPERSEDED"
      BY <2>1 DEF LogInv, OpRecorded
    <3> QED
      BY <3>1, <3>2, <3>3, <3>4, <3>5 DEF CommandResultMatches
  <2>2. ASSUME NEW a \in Analyses, NEW k \in Keys, completed[a][k] # Nil,
               ~(completed[a][k].kind = "REANALYZE" /\ state[a] # "SUPERSEDED")
        PROVE  CommandResultMatches(completed[a][k], a, state[a], outcome[a], TRUE)
    BY <2>2 DEF SavedFits, CommandResultMatches
  <2> QED
    BY <2>1, <2>2 DEF CompletedIsBelieved
<1>2. Init => Contained /\ SavedFits
  BY DEF Init, Contained, SavedFits, NoOp
<1>3. GateInv /\ LogInv /\ Contained /\ SavedFits /\ [Next]_vars => (Contained /\ SavedFits)'
  BY ContainedStep, SavedStep
<1> QED
  BY <1>1, <1>2, <1>3, GateInvariant, LogInvariant, PTL DEF Spec
=============================================================================
