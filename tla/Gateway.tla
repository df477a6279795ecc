------------------------------- MODULE Gateway ------------------------------
(***************************************************************************)
(* The analysis gateway: AnalysisPipeline.prepare_streams,                 *)
(* AnalysisOperations (B results, C commands, dispatch) and IndexGate, over *)
(* the audit store and the index. The two stores are separate databases    *)
(* and every commit to one of them is a step of its own, so that a failure *)
(* or a crash can fall between any two. The operations lock is the         *)
(* variable op: the submission or command that holds it, and how far it    *)
(* got. Preparing and dispatching run outside that lock.                   *)
(***************************************************************************)
EXTENDS VersionOrder

CONSTANTS Analyses,       \* analysis ids (bound: each is used once)
          Docs,           \* document ids
          HardShas,       \* candidates that carry a hard-blocking artifact
          Keys,           \* idempotency keys (bound on commands per analysis)
          Nil,            \* None
          FaultKinds,     \* what may fail, of "audit" (an append raises),
                          \* "indexer" (the index raises), "integrity" (blob or
                          \* hash mismatch), "crash" (the process restarts)
          MaxFaults       \* bound on the failures of a behaviour

ASSUME GatewayAssumption ==
  /\ HardShas \subseteq Shas
  /\ Nil \notin Analyses
  /\ MaxFaults \in Nat

VARIABLES rank,        \* rank[d]: the rows of d in the index
          prepared,    \* prepared[a]: the immutable row of analyses
          requested,   \* analyses with an ANALYSIS_REQUESTED event
          state,       \* state[a]: get_status's fold over a's events
          outcome,     \* outcome[a]: the latest outcome in that fold
          received,    \* received[a]: policy of POLICY_SUBMISSION_RECEIVED
          applied,     \* applied[a]: policy of POLICY_SUBMISSION_APPLIED
          quarantined, \* analyses with a gate event of action QUARANTINE
          completed,   \* completed[a][k]: the answer saved under key k
          staged,      \* staged[a]: a prepare_streams call before its insert
          dispatching, \* analyses whose dispatch waits for the analyzer
          op,          \* the operation that holds the operations lock
          approved,    \* history: analyses whose APPROVE was admitted
          faults       \* how many failures happened so far

vars == <<rank, prepared, requested, state, outcome, received, applied,
          quarantined, completed, staged, dispatching, op, approved, faults>>

\* The log of one analysis, as get_status and the look-ups read it.
log == <<prepared, requested, state, outcome, received, applied,
         quarantined, completed>>

\* The valid PolicyResults by their decision. A result whose analysis_status is
\* FAILED must be BLOCK, and the gate denies both alike.
Policies == {"ALLOW", "REVIEW", "BLOCK"}

States == {"NONE", "PREPARED", "ANALYSIS_REQUESTED", "ANALYSIS_FAILED",
           "AWAITING_APPROVAL", "HOLD", "INDEXED", "QUARANTINED", "SUPERSEDED"}

Commands == {"APPROVE", "HOLD", "REANALYZE"}

Outcomes == [action : {"INDEX", "HOLD", "QUARANTINE"}, indexed : BOOLEAN]

Prepared == [doc : Docs, cand : Shas, expected : Shas \cup {NoSha},
             supersedes : Analyses \cup {Nil}]

\* What OPERATOR_COMMAND_COMPLETED saves of a command.
Answers == [kind : Commands, outcome : Outcomes \cup {Nil},
            repl : Analyses \cup {Nil}]

Operations ==
  [kind : {"NONE", "SUBMIT"} \cup Commands,
   pc : {"idle", "gate", "record", "replace", "supersede", "request", "finish",
         "answer"},
   a : Analyses \cup {Nil}, key : Keys \cup {Nil}, policy : Policies \cup {Nil},
   outcome : Outcomes \cup {Nil}, repl : Analyses \cup {Nil}]

\* None is none of the values it stands beside.
ASSUME NilAssumption == Nil \notin Prepared \cup Policies \cup Outcomes \cup Answers

NoOp == [kind |-> "NONE", pc |-> "idle", a |-> Nil, key |-> Nil,
         policy |-> Nil, outcome |-> Nil, repl |-> Nil]

TypeOK ==
  /\ rank \in [Docs -> [Shas -> Nat]]
  /\ prepared \in [Analyses -> Prepared \cup {Nil}]
  /\ requested \subseteq Analyses
  /\ state \in [Analyses -> States]
  /\ outcome \in [Analyses -> Outcomes \cup {Nil}]
  /\ received \in [Analyses -> Policies \cup {Nil}]
  /\ applied \in [Analyses -> Policies \cup {Nil}]
  /\ quarantined \subseteq Analyses
  /\ completed \in [Analyses -> [Keys -> Answers \cup {Nil}]]
  /\ staged \in [Analyses -> Prepared \cup {Nil}]
  /\ dispatching \subseteq Analyses
  /\ op \in Operations
  /\ approved \subseteq Analyses
  /\ faults \in 0..MaxFaults

Init ==
  /\ rank = [d \in Docs |-> NoVersions]
  /\ prepared = [a \in Analyses |-> Nil]
  /\ requested = {}
  /\ state = [a \in Analyses |-> "NONE"]
  /\ outcome = [a \in Analyses |-> Nil]
  /\ received = [a \in Analyses |-> Nil]
  /\ applied = [a \in Analyses |-> Nil]
  /\ quarantined = {}
  /\ completed = [a \in Analyses |-> [k \in Keys |-> Nil]]
  /\ staged = [a \in Analyses |-> Nil]
  /\ dispatching = {}
  /\ op = NoOp
  /\ approved = {}
  /\ faults = 0

Fault(kind) ==
  /\ kind \in FaultKinds
  /\ faults < MaxFaults
  /\ faults' = faults + 1
-----------------------------------------------------------------------------
(* Preparing an analysis *)

\* A new uuid: no row, no call and no pending replacement uses it.
Fresh(a) == prepared[a] = Nil /\ staged[a] = Nil /\ op.repl # a

\* prepare_streams up to the insert: the current version is read (the
\* caller's baseline must be that version, else the call ends here).
PrepareRead(a, d, c) ==
  /\ Fresh(a)
  /\ \E cur \in Shas \cup {NoSha} :
       /\ IsCurrent(rank[d], cur)
       /\ staged' = [staged EXCEPT ![a] =
                       [doc |-> d, cand |-> c, expected |-> cur, supersedes |-> Nil]]
  /\ UNCHANGED <<rank, log, dispatching, op, approved, faults>>

\* record_prepared_analysis: the row and its ANALYSIS_PREPARED event.
RecordPrepared(a) ==
  /\ staged[a] # Nil
  /\ prepared' = [prepared EXCEPT ![a] = staged[a]]
  /\ state' = [state EXCEPT ![a] = "PREPARED"]
  /\ staged' = [staged EXCEPT ![a] = Nil]
  /\ UNCHANGED <<rank, requested, outcome, received, applied, quarantined,
                 completed, dispatching, op, approved, faults>>

\* ensure_request, at the end of prepare_streams or from get_request: the
\* event moves the projection to ANALYSIS_REQUESTED whatever it was.
EnsureRequest(a) ==
  /\ op = NoOp
  /\ prepared[a] # Nil /\ a \notin requested
  /\ requested' = requested \cup {a}
  /\ state' = [state EXCEPT ![a] = "ANALYSIS_REQUESTED"]
  /\ UNCHANGED <<rank, prepared, outcome, received, applied, quarantined,
                 completed, staged, dispatching, op, approved, faults>>
-----------------------------------------------------------------------------
(* B's results *)

\* Mutant: a differing second submission is not refused.
Admissible_Differing(a, p) ==
  /\ a \in requested
  /\ state[a] # "SUPERSEDED"
  /\ applied[a] = Nil

\* submit_policy_result's checks. The submission names the latest request
\* and the candidate's digest; one already applied returns without effect.
\* The whole submissions are compared, prose included: p once more is the one
\* that is the same; one that differs in its prose is refused without effect.
Admissible(a, p) ==
  /\ a \in requested
  /\ state[a] # "SUPERSEDED"
  /\ received[a] \in {Nil, p}
  /\ applied[a] = Nil

\* The submission takes the lock and its RECEIVED event is appended.
SubmitStart(a, p) ==
  /\ op = NoOp
  /\ Admissible(a, p)
  /\ received' = [received EXCEPT ![a] = IF @ = Nil THEN p ELSE @]
  /\ op' = [NoOp EXCEPT !.kind = "SUBMIT", !.pc = "gate", !.a = a, !.policy = p]

SubmitPolicyResult(a, p) ==
  /\ SubmitStart(a, p)
  /\ UNCHANGED <<rank, prepared, requested, state, outcome, applied,
                 quarantined, completed, staged, dispatching, approved, faults>>

\* dispatch takes no lock and looks at no state.
DispatchStart(a) ==
  /\ a \in requested
  /\ dispatching' = dispatching \cup {a}
  /\ UNCHANGED <<rank, log, staged, op, approved, faults>>

DispatchFails(a) ==
  /\ a \in dispatching
  /\ dispatching' = dispatching \ {a}
  /\ state' = [state EXCEPT ![a] = "ANALYSIS_FAILED"]
  /\ UNCHANGED <<rank, prepared, requested, outcome, received, applied,
                 quarantined, completed, staged, op, approved, faults>>

\* The analyzer answers: the result is submitted, or refused on conflict (as
\* every second one may be that differs in its prose).
DispatchAnswers(a, p) ==
  /\ a \in dispatching
  /\ op = NoOp
  /\ dispatching' = dispatching \ {a}
  /\ \/ SubmitStart(a, p)
     \/ (received[a] # Nil \/ ~Admissible(a, p)) /\ UNCHANGED <<received, op>>
  /\ UNCHANGED <<rank, prepared, requested, state, outcome, applied,
                 quarantined, completed, staged, approved, faults>>
-----------------------------------------------------------------------------
(* C's commands *)

\* Mutant: a quarantine leaves the operator nothing to do.
Allowed_NotQuarantined(a, c) ==
  /\ state[a] \notin {"SUPERSEDED", "QUARANTINED"}
  /\ c = "APPROVE" => /\ applied[a] = "ALLOW"
                      /\ state[a] \in {"AWAITING_APPROVAL", "HOLD"}
  /\ c = "HOLD" => state[a] # "HOLD"

\* allowed_commands, with the policy check of execute_command.
Allowed(a, c) ==
  /\ state[a] # "SUPERSEDED"
  /\ state[a] = "QUARANTINED" => c = "REANALYZE"
  /\ c = "APPROVE" => /\ applied[a] = "ALLOW"
                      /\ state[a] \in {"AWAITING_APPROVAL", "HOLD"}
  /\ c = "HOLD" => state[a] # "HOLD"

\* execute_command takes the lock. A key that completed replays the saved
\* answer with the status of now (or conflicts) and appends nothing, so only
\* a new key starts anything.
CommandStart(a, k, c, r) ==
  /\ op = NoOp
  /\ prepared[a] # Nil
  /\ completed[a][k] = Nil
  /\ Allowed(a, c)
  /\ IF c = "REANALYZE" THEN r \in Analyses /\ Fresh(r) ELSE r = Nil
  /\ op' = [kind |-> c, pc |-> "gate", a |-> a, key |-> k,
            policy |-> IF c = "APPROVE" THEN applied[a] ELSE Nil,
            outcome |-> Nil, repl |-> r]
  /\ approved' = IF c = "APPROVE" THEN approved \cup {a} ELSE approved
  /\ UNCHANGED <<rank, log, staged, dispatching, faults>>
-----------------------------------------------------------------------------
(* The gate *)

\* Mutant: an analysis quarantined before is judged like any other.
Verdict_ForgetsQuarantine(o) ==
  IF o.kind \in {"HOLD", "REANALYZE"} THEN "HOLD"
  ELSE IF \/ prepared[o.a].cand \in HardShas
          \/ o.policy = "BLOCK"
       THEN "QUARANTINE"
  ELSE IF o.policy = "REVIEW" \/ o.kind = "SUBMIT" THEN "HOLD"
  ELSE "INDEX"

\* Mutant: hard-blocking artifacts are not looked at.
Verdict_IgnoresArtifacts(o) ==
  IF o.kind \in {"HOLD", "REANALYZE"} THEN "HOLD"
  ELSE IF o.a \in quarantined \/ o.policy = "BLOCK"
       THEN "QUARANTINE"
  ELSE IF o.policy = "REVIEW" \/ o.kind = "SUBMIT" THEN "HOLD"
  ELSE "INDEX"

\* What the gate does: hold for operator holds, else the checks of
\* _apply_locked in their order; a submission never asks for the index.
Verdict(o) ==
  IF o.kind \in {"HOLD", "REANALYZE"} THEN "HOLD"
  ELSE IF \/ o.a \in quarantined
          \/ prepared[o.a].cand \in HardShas
          \/ o.policy = "BLOCK"
       THEN "QUARANTINE"
  ELSE IF o.policy = "REVIEW" \/ o.kind = "SUBMIT" THEN "HOLD"
  ELSE "INDEX"

\* The operation leaves the gate with an outcome to record.
Leaves(action, indexed) ==
  /\ op' = [op EXCEPT !.pc = "record",
                      !.outcome = [action |-> action, indexed |-> indexed]]
  /\ UNCHANGED <<log, staged, dispatching, approved>>

\* remove_atomic on op's candidate.
RowRemoved ==
  rank' = [rank EXCEPT ![prepared[op.a].doc] = Drop(@, prepared[op.a].cand)]

\* Mutant: a hold or a denial keeps the candidate's row.
GateRemoves_KeepsRow ==
  /\ op.pc = "gate"
  /\ Verdict(op) \in {"HOLD", "QUARANTINE"}
  /\ Leaves(Verdict(op), FALSE)
  /\ UNCHANGED <<rank, faults>>

\* _not_indexed and _deny: the candidate's row goes.
GateRemoves ==
  /\ op.pc = "gate"
  /\ Verdict(op) \in {"HOLD", "QUARANTINE"}
  /\ RowRemoved
  /\ Leaves(Verdict(op), FALSE)
  /\ UNCHANGED faults

\* remove_atomic raises: the outcome admits that the row stayed.
GateRemovalFails ==
  /\ op.pc = "gate"
  /\ Verdict(op) \in {"HOLD", "QUARANTINE"}
  /\ Fault("indexer")
  /\ Leaves(Verdict(op), TRUE)
  /\ UNCHANGED rank

\* The blob is missing or altered, or a hash does not match: denied.
GateDeniesIntegrity ==
  /\ op.pc = "gate"
  /\ op.kind \in {"SUBMIT", "APPROVE"}
  /\ Fault("integrity")
  /\ RowRemoved
  /\ Leaves("QUARANTINE", FALSE)

\* index_atomic raises and is rolled back: denied, and the removal that
\* follows may raise as well.
GateIndexFails ==
  /\ op.pc = "gate"
  /\ Verdict(op) = "INDEX"
  /\ Fault("indexer")
  /\ \/ RowRemoved /\ Leaves("QUARANTINE", FALSE)
     \/ UNCHANGED rank /\ Leaves("QUARANTINE", TRUE)

\* Mutant: index_atomic is called without the expected version.
GateIndexes_Unconditional ==
  /\ op.pc = "gate"
  /\ Verdict(op) = "INDEX"
  /\ rank' = [rank EXCEPT ![prepared[op.a].doc] = Put(@, prepared[op.a].cand)]
  /\ Leaves("INDEX", TRUE)
  /\ UNCHANGED faults

\* index_atomic commits: the version the analysis was prepared on is current.
GateIndexes ==
  /\ op.pc = "gate"
  /\ Verdict(op) = "INDEX"
  /\ IsCurrent(rank[prepared[op.a].doc], prepared[op.a].expected)
  /\ rank' = [rank EXCEPT ![prepared[op.a].doc] = Put(@, prepared[op.a].cand)]
  /\ Leaves("INDEX", TRUE)
  /\ UNCHANGED faults

\* StaleBaselineError: quarantined, and nothing is removed.
GateStale ==
  /\ op.pc = "gate"
  /\ Verdict(op) = "INDEX"
  /\ ~IsCurrent(rank[prepared[op.a].doc], prepared[op.a].expected)
  /\ Leaves("QUARANTINE", FALSE)
  /\ UNCHANGED <<rank, faults>>

\* Mutant: the action is taken for the state.
StateFor_Action(o, p) ==
  IF o.action = "INDEX" /\ o.indexed THEN "INDEXED"
  ELSE IF o.action = "QUARANTINE" THEN o.action
  ELSE IF p = "ALLOW" THEN "AWAITING_APPROVAL" ELSE "HOLD"

\* Mutant: what B said is looked at before what the gate did.
StateFor_PolicyFirst(o, p) ==
  IF o.action = "INDEX" /\ o.indexed THEN "INDEXED"
  ELSE IF p = "ALLOW" THEN "AWAITING_APPROVAL"
  ELSE IF o.action = "QUARANTINE" THEN "QUARANTINED" ELSE "HOLD"

\* _state_for_outcome
StateFor(o, p) ==
  IF o.action = "INDEX" /\ o.indexed THEN "INDEXED"
  ELSE IF o.action = "QUARANTINE" THEN "QUARANTINED"
  ELSE IF p = "ALLOW" THEN "AWAITING_APPROVAL" ELSE "HOLD"

\* Mutant: a reanalysis closes the original before it has a replacement.
GateRecords_SupersedesFirst ==
  /\ op.pc = "record"
  /\ outcome' = [outcome EXCEPT ![op.a] = op.outcome]
  /\ state' = [state EXCEPT ![op.a] = IF op.kind = "REANALYZE" THEN "SUPERSEDED"
                                      ELSE StateFor(op.outcome, applied[op.a])]
  /\ quarantined' = IF op.outcome.action = "QUARANTINE"
                    THEN quarantined \cup {op.a} ELSE quarantined
  /\ op' = [op EXCEPT !.pc = IF op.kind = "REANALYZE" THEN "replace" ELSE "finish"]
  /\ UNCHANGED <<rank, prepared, requested, received, applied, completed,
                 staged, dispatching, approved, faults>>

\* INDEX_GATE_APPLIED is appended.
GateRecords ==
  /\ op.pc = "record"
  /\ outcome' = [outcome EXCEPT ![op.a] = op.outcome]
  /\ state' = [state EXCEPT ![op.a] = StateFor(op.outcome, applied[op.a])]
  /\ quarantined' = IF op.outcome.action = "QUARANTINE"
                    THEN quarantined \cup {op.a} ELSE quarantined
  /\ op' = [op EXCEPT !.pc = IF op.kind = "REANALYZE" THEN "replace" ELSE "finish"]
  /\ UNCHANGED <<rank, prepared, requested, received, applied, completed,
                 staged, dispatching, approved, faults>>

\* Mutant: no compensation when the outcome cannot be recorded.
GateRecordFails_NoCompensation ==
  /\ op.pc = "record"
  /\ Fault("audit")
  /\ op' = NoOp
  /\ UNCHANGED <<rank, log, staged, dispatching, approved>>

\* The append raises: an index that was done is taken back (or not, when
\* that fails too), and the exception leaves the operation.
GateRecordFails ==
  /\ op.pc = "record"
  /\ Fault("audit")
  /\ \/ op.outcome.action = "INDEX" /\ RowRemoved
     \/ op.outcome.action # "INDEX" /\ UNCHANGED rank
     \/ "indexer" \in FaultKinds /\ UNCHANGED rank
  /\ op' = NoOp
  /\ UNCHANGED <<log, staged, dispatching, approved>>
-----------------------------------------------------------------------------
(* The end of an operation *)

\* POLICY_SUBMISSION_APPLIED.
FinishSubmit ==
  /\ op.kind = "SUBMIT" /\ op.pc = "finish"
  /\ applied' = [applied EXCEPT ![op.a] = op.policy]
  /\ outcome' = [outcome EXCEPT ![op.a] = op.outcome]
  /\ state' = [state EXCEPT ![op.a] = StateFor(op.outcome, op.policy)]
  /\ op' = NoOp
  /\ UNCHANGED <<rank, prepared, requested, received, quarantined, completed,
                 staged, dispatching, approved, faults>>

\* _create_reanalysis: the replacement's row, with the same content.
Replace ==
  /\ op.pc = "replace"
  /\ prepared' = [prepared EXCEPT ![op.repl] = [prepared[op.a] EXCEPT !.supersedes = op.a]]
  /\ state' = [state EXCEPT ![op.repl] = "PREPARED"]
  /\ op' = [op EXCEPT !.pc = "supersede"]
  /\ UNCHANGED <<rank, requested, outcome, received, applied, quarantined,
                 completed, staged, dispatching, approved, faults>>

\* ANALYSIS_SUPERSEDED on the original.
Supersede ==
  /\ op.pc = "supersede"
  /\ state' = [state EXCEPT ![op.a] = "SUPERSEDED"]
  /\ op' = [op EXCEPT !.pc = "request"]
  /\ UNCHANGED <<rank, prepared, requested, outcome, received, applied,
                 quarantined, completed, staged, dispatching, approved, faults>>

\* ensure_request on the replacement, under the same lock.
RequestReplacement ==
  /\ op.pc = "request"
  /\ requested' = requested \cup {op.repl}
  /\ state' = [state EXCEPT ![op.repl] = "ANALYSIS_REQUESTED"]
  /\ op' = [op EXCEPT !.pc = "finish"]
  /\ UNCHANGED <<rank, prepared, outcome, received, applied, quarantined,
                 completed, staged, dispatching, approved, faults>>

\* The answer to the command under way.
Answer == [kind |-> op.kind, outcome |-> op.outcome, repl |-> op.repl]

\* OPERATOR_COMMAND_COMPLETED is appended; the status of the answer is not
\* read yet.
FinishCommand ==
  /\ op.kind \in Commands /\ op.pc = "finish"
  /\ completed' = [completed EXCEPT ![op.a][op.key] = Answer]
  /\ state' = [state EXCEPT ![op.a] = CASE op.kind = "HOLD" -> "HOLD"
                                        [] op.kind = "REANALYZE" -> "SUPERSEDED"
                                        [] OTHER -> @]
  /\ op' = [op EXCEPT !.pc = "answer"]
  /\ UNCHANGED <<rank, prepared, requested, outcome, received, applied,
                 quarantined, staged, dispatching, approved, faults>>

\* get_status reads the log once more, for the answer: a dispatch that failed
\* since shows in it. The lock is released.
AnswerCommand ==
  /\ op.pc = "answer"
  /\ op' = NoOp
  /\ UNCHANGED <<rank, log, staged, dispatching, approved, faults>>

\* Any other append raises: the exception releases the lock and what was
\* committed before stays.
OperationFails ==
  /\ op.pc \notin {"idle", "record", "answer"}
  /\ Fault("audit")
  /\ op' = NoOp
  /\ UNCHANGED <<rank, log, staged, dispatching, approved>>

\* The process stops: only the two databases survive.
Crash ==
  /\ Fault("crash")
  /\ op' = NoOp
  /\ staged' = [a \in Analyses |-> Nil]
  /\ dispatching' = {}
  /\ UNCHANGED <<rank, log, approved>>
-----------------------------------------------------------------------------
Gate == \/ GateRemoves \/ GateIndexes \/ GateStale
        \/ GateRemovalFails \/ GateDeniesIntegrity \/ GateIndexFails

Continue == \/ Gate \/ GateRecords
            \/ FinishSubmit \/ FinishCommand \/ AnswerCommand
            \/ Replace \/ Supersede \/ RequestReplacement

Next ==
  \/ \E a \in Analyses, d \in Docs, c \in Shas : PrepareRead(a, d, c)
  \/ \E a \in Analyses : \/ RecordPrepared(a) \/ EnsureRequest(a)
                         \/ DispatchStart(a) \/ DispatchFails(a)
  \/ \E a \in Analyses, p \in Policies :
       SubmitPolicyResult(a, p) \/ DispatchAnswers(a, p)
  \/ \E a \in Analyses, k \in Keys, c \in Commands, r \in Analyses \cup {Nil} :
       CommandStart(a, k, c, r)
  \/ Continue
  \/ GateRecordFails \/ OperationFails \/ Crash

Spec == Init /\ [][Next]_vars
-----------------------------------------------------------------------------
(* Safety *)

Row(a) == <<prepared[a].doc, prepared[a].cand>>

IsStored(a) == rank[prepared[a].doc][prepared[a].cand] # 0

\* Another analysis of the same document and candidate is on record as indexed.
IndexedByAnother(a) ==
  \E b \in Analyses \ {a} : /\ prepared[b] # Nil /\ Row(b) = Row(a)
                            /\ outcome[b] # Nil /\ outcome[b].indexed

\* The README's invariant: a version is in the index only if some analysis
\* of exactly that document and candidate got B's ALLOW and C's APPROVE, and
\* carries no hard-blocking artifact. Whatever fails between the steps.
OnlyApprovedIndexed ==
  \A d \in Docs, s \in Shas :
    rank[d][s] # 0 =>
      /\ s \notin HardShas
      /\ \E a \in approved : /\ prepared[a] # Nil
                             /\ Row(a) = <<d, s>>
                             /\ applied[a] = "ALLOW"

\* An analysis the gate quarantined once is never indexed afterwards, also
\* when a failed dispatch takes it out of QUARANTINED and an operator hold
\* and approval follow: "Any uncertainty at the boundary" stays fail-closed.
QuarantineIsFinal ==
  \A a \in quarantined : outcome[a].action # "INDEX" /\ state[a] # "INDEXED"

\* The result that is applied is the one that was received first, whatever
\* was retried or sent in between: a request takes one B result.
AppliedIsReceived ==
  \A a \in Analyses : applied[a] # Nil => applied[a] = received[a]

\* A version that comes in, or comes to the top, is the candidate of an approved
\* analysis, put there over the version that analysis was prepared on.
RaisedOnBaseline ==
  \A d \in Docs, s \in Shas :
    rank'[d][s] > rank[d][s] =>
      \E a \in approved : /\ Row(a) = <<d, s>>
                          /\ IsCurrent(rank[d], prepared[a].expected)

\* An analysis is put on top of exactly the version that was current when
\* it was prepared: no approval overwrites a version its reviewer never saw.
IndexOnReviewedBaseline == [][RaisedOnBaseline]_vars

\* Between operations every stored version is explained by the audit log:
\* the latest outcome of some analysis of it says it is indexed. A failed
\* append is compensated by taking the version out again.
AuditExplainsIndex ==
  op = NoOp =>
    \A d \in Docs, s \in Shas :
      rank[d][s] # 0 =>
        \E a \in Analyses : /\ prepared[a] # Nil /\ Row(a) = <<d, s>>
                            /\ outcome[a] # Nil /\ outcome[a].indexed

\* Between operations a candidate whose latest outcome says "not indexed" is
\* not in the index, unless another analysis of the same candidate put it
\* there: holding or quarantining removes the candidate.
HeldIsRemoved ==
  op = NoOp =>
    \A a \in Analyses :
      (outcome[a] # Nil /\ ~outcome[a].indexed /\ IsStored(a))
      => IndexedByAnother(a)

\* docs/A_GATEWAY.md: a quarantine removes the candidate's chunks.
QuarantineRemoves ==
  op = NoOp =>
    \A a \in quarantined :
      (outcome[a] = [action |-> "QUARANTINE", indexed |-> FALSE] /\ IsStored(a))
      => IndexedByAnother(a)

\* An analysis with a replacement is out of the workflow: no B result, no
\* command (operations.py, test_operations.py), so it is never what put its
\* candidate in the index.
SupersededNeverIndexed ==
  op = NoOp =>
    \A a, b \in Analyses :
      (prepared[b] # Nil /\ prepared[b].supersedes = a)
      => outcome[a] = Nil \/ outcome[a].action # "INDEX"
-----------------------------------------------------------------------------
(* The promise *)

\* The operator's consent to index is the admitted APPROVE until it leaves the
\* gate; the rest of the promise is read off the audit log and the index.
Consented == IF op.kind = "APPROVE" /\ op.pc = "gate" THEN op.a ELSE Nil

Promise == INSTANCE ReviewedIndex WITH
  row     <- prepared,
  result  <- received,
  barred  <- quarantined,
  consent <- Consented

\* The gateway keeps its promise whatever fails between its commits: a version
\* enters the index, or comes to its top, only by spending one APPROVE of an
\* analysis whose one B result is ALLOW, that was never quarantined, carries no
\* hard-blocking artifact and was prepared on the version current in that very
\* step; the rows of analyses never change, and a reanalysis compares the same
\* versions (prepare_streams, submit_policy_result, execute_command, _apply_locked).
PromiseKept == Promise!Spec
=============================================================================
