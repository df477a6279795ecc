--------------------------- MODULE Gateway_proofs ---------------------------
(***************************************************************************)
(* The gateway for any number of analyses, documents, candidates and keys, *)
(* and any failures between its steps. The properties are not inductive by *)
(* themselves: which steps of an operation may follow depends on what was  *)
(* admitted when it took the lock, and a prepared analysis is immutable    *)
(* only because its id was reserved until its row was inserted. GateInv    *)
(* says so.                                                                *)
(***************************************************************************)
EXTENDS Gateway, VersionOrder_proofs

\* An analysis id is used by one of: a row, a call about to insert it, the
\* replacement an operation is about to insert.
IdsReserved ==
  /\ \A a \in Analyses : staged[a] # Nil => prepared[a] = Nil
  /\ \A a \in requested : prepared[a] # Nil
  /\ dispatching \subseteq requested
  /\ op.kind = "REANALYZE" =>
       /\ op.repl \in Analyses
       /\ op.pc \in {"gate", "record", "replace"} =>
            prepared[op.repl] = Nil /\ staged[op.repl] = Nil
       /\ op.pc \in {"supersede", "request"} => prepared[op.repl] # Nil

\* The operation under the lock stays what it was admitted as.
OpAdmitted ==
  /\ op.pc = "idle" <=> op = NoOp
  /\ op.kind = "NONE" <=> op.pc = "idle"
  /\ op.kind # "NONE" => op.a \in Analyses /\ prepared[op.a] # Nil
  /\ op.kind \in Commands => op.key \in Keys
  /\ op.pc = "answer" => op.kind \in Commands
  /\ op.pc \in {"replace", "supersede", "request"} => op.kind = "REANALYZE"
  /\ op.kind = "SUBMIT" => /\ op.policy \in Policies
                           /\ op.policy = received[op.a]
                           /\ applied[op.a] = Nil
  /\ op.kind = "APPROVE" => op.a \in approved /\ applied[op.a] = "ALLOW"

\* Only an approval of a never quarantined analysis comes back from the gate
\* with an index outcome.
OutcomeEarned ==
  /\ op.pc = "record" => op.outcome \in Outcomes
  /\ op.kind = "SUBMIT" /\ op.pc = "finish" => op.outcome \in Outcomes
  /\ (op.outcome # Nil /\ op.outcome.action = "INDEX") => op.kind = "APPROVE"
  /\ (op.pc = "record" /\ op.outcome.action = "INDEX") => op.a \notin quarantined

GateInv ==
  /\ TypeOK
  /\ IdsReserved
  /\ OpAdmitted
  /\ OutcomeEarned
  /\ OnlyApprovedIndexed
  /\ QuarantineIsFinal
  /\ AppliedIsReceived
-----------------------------------------------------------------------------
\* A record taken from the types is no None.
LEMMA NotNil ==
  /\ \A x \in Prepared \cup Policies \cup Outcomes \cup Answers : x # Nil
  /\ \A a \in Analyses : a # Nil
BY GatewayAssumption, NilAssumption

\* The analysis an operation works on, with its row.
LEMMA OpRow ==
  TypeOK /\ OpAdmitted /\ op.pc # "idle" =>
    /\ op.a \in Analyses
    /\ prepared[op.a] \in Prepared
    /\ prepared[op.a].doc \in Docs
    /\ prepared[op.a].cand \in Shas
BY DEF TypeOK, OpAdmitted, Prepared

\* Removing the candidate takes its row, adds none and moves none up.
LEMMA RemovalShrinks ==
  TypeOK /\ OpAdmitted /\ op.pc # "idle" /\ RowRemoved =>
    /\ rank' \in [Docs -> [Shas -> Nat]]
    /\ \A d \in Docs, s \in Shas : rank'[d][s] # 0 => rank[d][s] # 0
    /\ rank'[prepared[op.a].doc][prepared[op.a].cand] = 0
    /\ \A d \in Docs, s \in Shas : rank'[d][s] <= rank[d][s]
<1> SUFFICES ASSUME TypeOK, OpAdmitted, op.pc # "idle", RowRemoved
             PROVE  /\ rank' \in [Docs -> [Shas -> Nat]]
                    /\ \A d \in Docs, s \in Shas : rank'[d][s] # 0 => rank[d][s] # 0
                    /\ rank'[prepared[op.a].doc][prepared[op.a].cand] = 0
                    /\ \A d \in Docs, s \in Shas : rank'[d][s] <= rank[d][s]
  OBVIOUS
<1>1. PICK doc \in Docs, cand \in Shas :
        /\ doc = prepared[op.a].doc /\ cand = prepared[op.a].cand
        /\ rank' = [rank EXCEPT ![doc] = Drop(@, cand)]
  BY OpRow DEF RowRemoved
<1>2. rank \in [Docs -> Tables]
  BY DEF TypeOK, Tables
<1>3. /\ Drop(rank[doc], cand) \in Tables
      /\ Stored(Drop(rank[doc], cand)) = Stored(rank[doc]) \ {cand}
  BY <1>2, DropStored
<1>4. rank' \in [Docs -> Tables]
  BY <1>1, <1>2, <1>3
<1>5. ASSUME NEW d \in Docs, NEW s \in Shas
      PROVE  /\ rank'[d][s] # 0 => rank[d][s] # 0
             /\ rank'[d][s] <= rank[d][s]
  <2>1. CASE d = doc
    BY <1>1, <1>2, <1>3, <2>1, OthersNotRaised DEF Stored
  <2>2. CASE d # doc
    BY <1>1, <1>2, <2>2 DEF Tables
  <2> QED
    BY <2>1, <2>2
<1>6. rank'[doc][cand] = 0
  BY <1>1, <1>2, <1>3 DEF Stored
<1> QED
  BY <1>1, <1>4, <1>5, <1>6 DEF Tables

\* What explains a stored version is never taken back: approvals stay
\* admitted, rows are immutable and an applied ALLOW is final.
LEMMA ApprovedKept ==
  /\ OnlyApprovedIndexed
  /\ \A d \in Docs, s \in Shas : rank'[d][s] # 0 => rank[d][s] # 0
  /\ approved \subseteq approved'
  /\ \A a \in approved : prepared[a] # Nil => prepared'[a] = prepared[a]
  /\ \A a \in approved : applied[a] = "ALLOW" => applied'[a] = "ALLOW"
  => OnlyApprovedIndexed'
BY DEF OnlyApprovedIndexed, Row

\* The gate leaves with an outcome: everything but the index follows.
LEMMA LeavesGate ==
  ASSUME GateInv, op.pc = "gate",
         NEW action \in {"INDEX", "HOLD", "QUARANTINE"}, NEW indexed \in BOOLEAN,
         Leaves(action, indexed),
         action = "INDEX" => op.kind = "APPROVE" /\ op.a \notin quarantined,
         rank' \in [Docs -> [Shas -> Nat]],
         faults' \in 0..MaxFaults
  PROVE  /\ TypeOK' /\ IdsReserved' /\ OpAdmitted' /\ OutcomeEarned'
         /\ QuarantineIsFinal' /\ AppliedIsReceived'
<1> DEFINE o == [action |-> action, indexed |-> indexed]
<1>1. o \in Outcomes /\ o # Nil
  BY NotNil DEF Outcomes
<1>2. op' = [op EXCEPT !.pc = "record", !.outcome = o]
  BY DEF Leaves
<1>3. op' \in Operations
  BY <1>1, <1>2 DEF GateInv, TypeOK, Operations
<1>9. /\ op'.pc = "record" /\ op' # NoOp
      /\ op'.kind = op.kind /\ op'.a = op.a /\ op'.key = op.key
      /\ op'.policy = op.policy /\ op'.repl = op.repl
  BY <1>2 DEF GateInv, TypeOK, Operations, NoOp
<1>4. TypeOK'
  BY <1>3 DEF GateInv, TypeOK, Leaves, log
<1>5. IdsReserved'
  BY <1>9 DEF GateInv, IdsReserved, Leaves, log
<1>6. OpAdmitted'
  BY <1>9 DEF GateInv, OpAdmitted, Leaves, log
<1>7. OutcomeEarned'
  BY <1>1, <1>2 DEF GateInv, TypeOK, OutcomeEarned, Leaves, log, Operations
<1>8. QuarantineIsFinal' /\ AppliedIsReceived'
  BY DEF GateInv, QuarantineIsFinal, AppliedIsReceived, Leaves, log
<1> QED
  BY <1>4, <1>5, <1>6, <1>7, <1>8

\* A submission takes the lock: what it carries is what was received.
LEMMA SubmitTakesLock ==
  ASSUME GateInv, NEW a \in Analyses, NEW p \in Policies, SubmitStart(a, p),
         UNCHANGED <<rank, prepared, requested, state, outcome, applied,
                     quarantined, completed, staged, approved, faults>>,
         dispatching' \subseteq dispatching
  PROVE  GateInv'
<1>1. /\ op = NoOp /\ applied[a] = Nil /\ prepared[a] # Nil
      /\ received[a] \in {Nil, p} /\ p # Nil
  BY NotNil DEF SubmitStart, Admissible, GateInv, IdsReserved
<1>2. received' = [received EXCEPT ![a] = p]
  BY <1>1 DEF SubmitStart, GateInv, TypeOK
<1>3. op' = [kind |-> "SUBMIT", pc |-> "gate", a |-> a, key |-> Nil, policy |-> p,
             outcome |-> Nil, repl |-> Nil]
  BY DEF SubmitStart, NoOp
<1>4. TypeOK'
  <2>1. op' \in Operations
    BY <1>3 DEF Operations
  <2> QED
    BY <1>2, <2>1 DEF GateInv, TypeOK
<1>5. IdsReserved' /\ OutcomeEarned'
  BY <1>3 DEF GateInv, IdsReserved, OutcomeEarned
<1>6. OpAdmitted'
  BY <1>1, <1>2, <1>3 DEF GateInv, TypeOK, OpAdmitted, NoOp, Commands
<1>7. OnlyApprovedIndexed' /\ QuarantineIsFinal'
  BY DEF GateInv, OnlyApprovedIndexed, QuarantineIsFinal, Row
<1>8. AppliedIsReceived'
  BY <1>1, <1>2 DEF GateInv, TypeOK, AppliedIsReceived
<1> QED
  BY <1>4, <1>5, <1>6, <1>7, <1>8 DEF GateInv

\* Every step of the gateway keeps the invariant.
LEMMA GateStep == GateInv /\ [Next]_vars => GateInv'
<1> SUFFICES ASSUME GateInv, [Next]_vars PROVE GateInv'
  OBVIOUS
<1> USE DEF GateInv, log
<1>1. ASSUME NEW a \in Analyses, NEW d \in Docs, NEW c \in Shas, PrepareRead(a, d, c)
      PROVE  GateInv'
  <2>1. TypeOK'
    BY <1>1 DEF PrepareRead, TypeOK, Prepared
  <2>2. IdsReserved' /\ OpAdmitted' /\ OutcomeEarned'
    BY <1>1 DEF PrepareRead, TypeOK, IdsReserved, OpAdmitted, OutcomeEarned, Fresh
  <2>3. OnlyApprovedIndexed'
    BY <1>1, ApprovedKept DEF PrepareRead, TypeOK, IdsReserved, OpAdmitted, OutcomeEarned
  <2>4. QuarantineIsFinal' /\ AppliedIsReceived'
    BY <1>1
       DEF PrepareRead, TypeOK, IdsReserved, OpAdmitted, OutcomeEarned, QuarantineIsFinal,
           AppliedIsReceived
  <2> QED
    BY <2>1, <2>2, <2>3, <2>4
<1>2. ASSUME NEW a \in Analyses, RecordPrepared(a)
      PROVE  GateInv'
  <2>1. TypeOK'
    BY <1>2 DEF RecordPrepared, TypeOK, States
  <2>2. IdsReserved' /\ OpAdmitted' /\ OutcomeEarned'
    BY <1>2 DEF RecordPrepared, TypeOK, IdsReserved, OpAdmitted, OutcomeEarned
  <2>3. OnlyApprovedIndexed'
    BY <1>2, ApprovedKept DEF RecordPrepared, TypeOK, IdsReserved, OpAdmitted, OutcomeEarned
  <2>4. QuarantineIsFinal' /\ AppliedIsReceived'
    BY <1>2
       DEF RecordPrepared, TypeOK, IdsReserved, OpAdmitted, OutcomeEarned,
           QuarantineIsFinal, AppliedIsReceived
  <2> QED
    BY <2>1, <2>2, <2>3, <2>4
<1>3. ASSUME NEW a \in Analyses, EnsureRequest(a)
      PROVE  GateInv'
  <2>1. TypeOK'
    BY <1>3 DEF EnsureRequest, TypeOK, States
  <2>2. IdsReserved' /\ OpAdmitted' /\ OutcomeEarned'
    BY <1>3 DEF EnsureRequest, TypeOK, IdsReserved, OpAdmitted, OutcomeEarned, NoOp
  <2>3. OnlyApprovedIndexed'
    BY <1>3, ApprovedKept DEF EnsureRequest, TypeOK, IdsReserved, OpAdmitted, OutcomeEarned
  <2>4. QuarantineIsFinal' /\ AppliedIsReceived'
    BY <1>3
       DEF EnsureRequest, TypeOK, IdsReserved, OpAdmitted, OutcomeEarned,
           QuarantineIsFinal, AppliedIsReceived
  <2> QED
    BY <2>1, <2>2, <2>3, <2>4
<1>4. ASSUME NEW a \in Analyses, DispatchStart(a)
      PROVE  GateInv'
  <2>1. TypeOK'
    BY <1>4 DEF DispatchStart, TypeOK
  <2>2. IdsReserved' /\ OpAdmitted' /\ OutcomeEarned'
    BY <1>4 DEF DispatchStart, TypeOK, IdsReserved, OpAdmitted, OutcomeEarned
  <2>3. OnlyApprovedIndexed'
    BY <1>4, ApprovedKept DEF DispatchStart, TypeOK, IdsReserved, OpAdmitted, OutcomeEarned
  <2>4. QuarantineIsFinal' /\ AppliedIsReceived'
    BY <1>4
       DEF DispatchStart, TypeOK, IdsReserved, OpAdmitted, OutcomeEarned,
           QuarantineIsFinal, AppliedIsReceived
  <2> QED
    BY <2>1, <2>2, <2>3, <2>4
<1>5. ASSUME NEW a \in Analyses, DispatchFails(a)
      PROVE  GateInv'
  <2>1. TypeOK'
    BY <1>5 DEF DispatchFails, TypeOK, States
  <2>2. IdsReserved' /\ OpAdmitted' /\ OutcomeEarned'
    BY <1>5 DEF DispatchFails, TypeOK, IdsReserved, OpAdmitted, OutcomeEarned
  <2>3. OnlyApprovedIndexed'
    BY <1>5, ApprovedKept DEF DispatchFails, TypeOK, IdsReserved, OpAdmitted, OutcomeEarned
  <2>4. QuarantineIsFinal' /\ AppliedIsReceived'
    BY <1>5
       DEF DispatchFails, TypeOK, IdsReserved, OpAdmitted, OutcomeEarned,
           QuarantineIsFinal, AppliedIsReceived
  <2> QED
    BY <2>1, <2>2, <2>3, <2>4
<1>6. ASSUME NEW a \in Analyses, NEW p \in Policies, SubmitPolicyResult(a, p)
      PROVE  GateInv'
  BY <1>6, SubmitTakesLock DEF SubmitPolicyResult, TypeOK
<1>7. ASSUME NEW a \in Analyses, NEW p \in Policies, DispatchAnswers(a, p)
      PROVE  GateInv'
  <2>1. CASE SubmitStart(a, p)
    BY <1>7, <2>1, SubmitTakesLock DEF DispatchAnswers, TypeOK
  <2>2. CASE UNCHANGED <<received, op>>
    BY <1>7, <2>2
       DEF DispatchAnswers, TypeOK, IdsReserved, OpAdmitted, OutcomeEarned,
           OnlyApprovedIndexed, QuarantineIsFinal, AppliedIsReceived, Row
  <2> QED
    BY <2>1, <2>2, <1>7 DEF DispatchAnswers
<1>8. ASSUME NEW a \in Analyses, NEW k \in Keys, NEW c \in Commands,
             NEW r \in Analyses \cup {Nil}, CommandStart(a, k, c, r)
      PROVE  GateInv'
  <2>1. TypeOK'
    BY <1>8 DEF CommandStart, TypeOK, Operations
  <2>2. IdsReserved' /\ OpAdmitted' /\ OutcomeEarned'
    BY <1>8
       DEF CommandStart, TypeOK, IdsReserved, OpAdmitted, OutcomeEarned, Fresh, Commands,
           Allowed, NoOp
  <2>3. OnlyApprovedIndexed'
    BY <1>8, ApprovedKept DEF CommandStart, TypeOK, IdsReserved, OpAdmitted, OutcomeEarned
  <2>4. QuarantineIsFinal' /\ AppliedIsReceived'
    BY <1>8
       DEF CommandStart, TypeOK, IdsReserved, OpAdmitted, OutcomeEarned,
           QuarantineIsFinal, AppliedIsReceived
  <2> QED
    BY <2>1, <2>2, <2>3, <2>4
<1>9. ASSUME GateRemoves
      PROVE  GateInv'
  <2>1. op.pc # "idle" /\ Verdict(op) \in {"HOLD", "QUARANTINE"}
    BY <1>9 DEF GateRemoves
  <2>2. /\ rank' \in [Docs -> [Shas -> Nat]]
        /\ \A d \in Docs, s \in Shas : rank'[d][s] # 0 => rank[d][s] # 0
    BY <1>9, <2>1, RemovalShrinks DEF GateRemoves
  <2>3. OnlyApprovedIndexed'
    BY <1>9, <2>2, ApprovedKept DEF GateRemoves, Leaves
  <2>4. faults' \in 0..MaxFaults
    BY <1>9 DEF GateRemoves, TypeOK
  <2> QED
    BY <1>9, <2>1, <2>2, <2>3, <2>4, LeavesGate DEF GateRemoves
<1>10. ASSUME GateIndexes
      PROVE  GateInv'
  <2>1. /\ op.pc = "gate" /\ op.kind = "APPROVE" /\ op.a \notin quarantined
        /\ prepared[op.a].cand \notin HardShas
    BY <1>10 DEF GateIndexes, Verdict, OpAdmitted, TypeOK, Operations, Commands
  <2>2. PICK doc \in Docs, cand \in Shas :
          /\ doc = prepared[op.a].doc /\ cand = prepared[op.a].cand
          /\ rank' = [rank EXCEPT ![doc] = Put(@, cand)]
    BY <1>10, <2>1, OpRow DEF GateIndexes
  <2>3. rank \in [Docs -> Tables]
    BY DEF TypeOK, Tables
  <2>4. /\ Put(rank[doc], cand) \in Tables
        /\ Stored(Put(rank[doc], cand)) = Stored(rank[doc]) \cup {cand}
    BY <2>3, PutStored
  <2>5. rank' \in [Docs -> Tables]
    BY <2>2, <2>3, <2>4
  <2>6. op.a \in approved /\ prepared[op.a] # Nil /\ applied[op.a] = "ALLOW"
    BY <2>1 DEF OpAdmitted
  <2>7. UNCHANGED <<prepared, applied, approved>>
    BY <1>10 DEF GateIndexes, Leaves
  <2>8. OnlyApprovedIndexed'
    <3> SUFFICES ASSUME NEW d \in Docs, NEW s \in Shas, rank'[d][s] # 0
                 PROVE  /\ s \notin HardShas
                        /\ \E a \in approved : /\ prepared[a] # Nil
                                               /\ Row(a) = <<d, s>>
                                               /\ applied[a] = "ALLOW"
      BY <2>7 DEF OnlyApprovedIndexed, Row
    <3>1. CASE d = doc /\ s = cand
      BY <2>1, <2>2, <2>6, <3>1 DEF Row
    <3>2. CASE ~(d = doc /\ s = cand)
      <4>1. rank[d][s] # 0
        BY <2>2, <2>3, <2>4, <3>2 DEF Stored
      <4> QED
        BY <4>1 DEF OnlyApprovedIndexed
    <3> QED
      BY <3>1, <3>2
  <2>9. faults' \in 0..MaxFaults
    BY <1>10 DEF GateIndexes, TypeOK
  <2> QED
    BY <1>10, <2>1, <2>5, <2>8, <2>9, LeavesGate DEF GateIndexes, Tables
<1>11. ASSUME GateStale
      PROVE  GateInv'
  <2>1. OnlyApprovedIndexed'
    BY <1>11, ApprovedKept DEF GateStale, Leaves
  <2>2. faults' \in 0..MaxFaults /\ rank' \in [Docs -> [Shas -> Nat]]
    BY <1>11 DEF GateStale, TypeOK
  <2> QED
    BY <1>11, <2>1, <2>2, LeavesGate DEF GateStale
<1>12. ASSUME GateRemovalFails
      PROVE  GateInv'
  <2>1. OnlyApprovedIndexed'
    BY <1>12, ApprovedKept DEF GateRemovalFails, Leaves
  <2>2. faults' \in 0..MaxFaults
    BY <1>12, GatewayAssumption DEF GateRemovalFails, Fault, TypeOK
  <2>3. rank' \in [Docs -> [Shas -> Nat]]
    BY <1>12 DEF GateRemovalFails, TypeOK
  <2>4. Verdict(op) \in {"HOLD", "QUARANTINE"}
    BY <1>12 DEF GateRemovalFails
  <2> QED
    BY <1>12, <2>1, <2>2, <2>3, <2>4, LeavesGate DEF GateRemovalFails
<1>13. ASSUME GateDeniesIntegrity
      PROVE  GateInv'
  <2>1. /\ rank' \in [Docs -> [Shas -> Nat]]
        /\ \A d \in Docs, s \in Shas : rank'[d][s] # 0 => rank[d][s] # 0
    BY <1>13, RemovalShrinks DEF GateDeniesIntegrity
  <2>2. OnlyApprovedIndexed'
    BY <1>13, <2>1, ApprovedKept DEF GateDeniesIntegrity, Leaves
  <2>3. faults' \in 0..MaxFaults
    BY <1>13, GatewayAssumption DEF GateDeniesIntegrity, Fault, TypeOK
  <2> QED
    BY <1>13, <2>1, <2>2, <2>3, LeavesGate DEF GateDeniesIntegrity
<1>14. ASSUME GateIndexFails
      PROVE  GateInv'
  <2>1. PICK indexed \in BOOLEAN :
          /\ RowRemoved \/ UNCHANGED rank
          /\ Leaves("QUARANTINE", indexed)
    BY <1>14 DEF GateIndexFails
  <2>2. /\ rank' \in [Docs -> [Shas -> Nat]]
        /\ \A d \in Docs, s \in Shas : rank'[d][s] # 0 => rank[d][s] # 0
    <3>1. CASE RowRemoved
      BY <1>14, <3>1, RemovalShrinks DEF GateIndexFails
    <3>2. CASE UNCHANGED rank
      BY <3>2 DEF TypeOK
    <3> QED
      BY <2>1, <3>1, <3>2
  <2>3. OnlyApprovedIndexed'
    BY <2>1, <2>2, ApprovedKept DEF Leaves
  <2>4. faults' \in 0..MaxFaults
    BY <1>14, GatewayAssumption DEF GateIndexFails, Fault, TypeOK
  <2>5. op.pc = "gate"
    BY <1>14 DEF GateIndexFails
  <2> QED
    BY <2>1, <2>2, <2>3, <2>4, <2>5, LeavesGate
<1>15. ASSUME GateRecords
      PROVE  GateInv'
  <2>1. op' \in Operations
    BY <1>15 DEF GateRecords, TypeOK, Operations
  <2>2. TypeOK'
    <3>1. op.outcome \in Outcomes /\ StateFor(op.outcome, applied[op.a]) \in States
      BY <1>15 DEF GateRecords, OutcomeEarned, StateFor, States
    <3>2. op.a \in Analyses
      BY <1>15 DEF GateRecords, OpAdmitted
    <3> QED
      BY <1>15, <2>1, <3>1, <3>2 DEF GateRecords, TypeOK
  <2>3. IdsReserved' /\ OpAdmitted' /\ OutcomeEarned'
    BY <1>15 DEF GateRecords, TypeOK, IdsReserved, OpAdmitted, OutcomeEarned, Operations, NoOp
  <2>4. OnlyApprovedIndexed'
    BY <1>15, ApprovedKept DEF GateRecords
  <2>5. QuarantineIsFinal' /\ AppliedIsReceived'
    BY <1>15 DEF GateRecords, TypeOK, OpAdmitted, OutcomeEarned, QuarantineIsFinal,
                AppliedIsReceived, StateFor, Outcomes
  <2> QED
    BY <2>2, <2>3, <2>4, <2>5
<1>16. ASSUME FinishSubmit
      PROVE  GateInv'
  <2>1. /\ op.a \in Analyses /\ op.policy \in Policies /\ op.policy = received[op.a]
        /\ applied[op.a] = Nil /\ Nil # "ALLOW"
        /\ op.outcome \in Outcomes /\ op.outcome.action # "INDEX"
    BY <1>16, NotNil DEF FinishSubmit, OpAdmitted, OutcomeEarned, Policies
  <2>2. TypeOK'
    BY <1>16, <2>1 DEF FinishSubmit, TypeOK, Operations, NoOp, StateFor, States
  <2>3. IdsReserved' /\ OpAdmitted' /\ OutcomeEarned'
    BY <1>16 DEF FinishSubmit, TypeOK, IdsReserved, OpAdmitted, OutcomeEarned, NoOp, Commands
  <2>4. OnlyApprovedIndexed'
    BY <1>16, <2>1, ApprovedKept DEF FinishSubmit, TypeOK
  <2>5. QuarantineIsFinal'
    BY <1>16, <2>1 DEF FinishSubmit, TypeOK, QuarantineIsFinal, StateFor
  <2>6. AppliedIsReceived'
    BY <1>16, <2>1 DEF FinishSubmit, TypeOK, AppliedIsReceived
  <2> QED
    BY <2>2, <2>3, <2>4, <2>5, <2>6
<1>17. ASSUME FinishCommand
      PROVE  GateInv'
  <2>1. /\ op.a \in Analyses /\ op.key \in Keys /\ op.kind \in Commands
        /\ Answer \in Answers
    BY <1>17 DEF FinishCommand, OpAdmitted, TypeOK, Operations, Answer, Answers, Commands
  <2>2. /\ op' \in Operations /\ op' # NoOp /\ op'.pc = "answer"
        /\ op'.kind = op.kind /\ op'.a = op.a /\ op'.key = op.key
        /\ op'.policy = op.policy /\ op'.outcome = op.outcome /\ op'.repl = op.repl
    BY <1>17 DEF FinishCommand, TypeOK, Operations, NoOp
  <2>3. completed' \in [Analyses -> [Keys -> Answers \cup {Nil}]]
    BY <1>17, <2>1 DEF FinishCommand, TypeOK
  <2>4. TypeOK'
    BY <1>17, <2>2, <2>3 DEF FinishCommand, TypeOK, States
  <2>5. IdsReserved' /\ OpAdmitted' /\ OutcomeEarned'
    BY <1>17, <2>1, <2>2
       DEF FinishCommand, TypeOK, IdsReserved, OpAdmitted, OutcomeEarned, Commands
  <2>6. OnlyApprovedIndexed'
    BY <1>17, ApprovedKept DEF FinishCommand, TypeOK, IdsReserved, OpAdmitted, OutcomeEarned
  <2>7. QuarantineIsFinal' /\ AppliedIsReceived'
    BY <1>17
       DEF FinishCommand, TypeOK, IdsReserved, OpAdmitted, OutcomeEarned,
           QuarantineIsFinal, AppliedIsReceived, Commands
  <2> QED
    BY <2>4, <2>5, <2>6, <2>7
<1>25. ASSUME AnswerCommand
       PROVE  GateInv'
  <2>1. TypeOK'
    BY <1>25 DEF AnswerCommand, log, TypeOK, Operations, NoOp
  <2>2. IdsReserved' /\ OpAdmitted' /\ OutcomeEarned'
    BY <1>25 DEF AnswerCommand, log, IdsReserved, OpAdmitted, OutcomeEarned, NoOp, Commands
  <2>3. OnlyApprovedIndexed' /\ QuarantineIsFinal' /\ AppliedIsReceived'
    BY <1>25 DEF AnswerCommand, log, OnlyApprovedIndexed, QuarantineIsFinal,
                 AppliedIsReceived, Row
  <2> QED
    BY <2>1, <2>2, <2>3
<1>18. ASSUME Replace
      PROVE  GateInv'
  <2>1. /\ op.kind = "REANALYZE" /\ op.a \in Analyses /\ op.repl \in Analyses
        /\ prepared[op.repl] = Nil /\ staged[op.repl] = Nil
    BY <1>18 DEF Replace, IdsReserved, OpAdmitted
  <2>2. [prepared[op.a] EXCEPT !.supersedes = op.a] \in Prepared
    BY <1>18, <2>1, OpRow DEF Replace, Prepared
  <2>3. PICK row \in Prepared :
          row # Nil /\ prepared' = [prepared EXCEPT ![op.repl] = row]
    BY <1>18, <2>2, NotNil DEF Replace
  <2>4. op' \in Operations /\ op' = [op EXCEPT !.pc = "supersede"]
    BY <1>18 DEF Replace, TypeOK, Operations
  <2>5. TypeOK'
    <3>1. prepared' \in [Analyses -> Prepared \cup {Nil}]
      BY <2>3 DEF TypeOK
    <3>2. state' \in [Analyses -> States]
      BY <1>18 DEF Replace, TypeOK, States
    <3> QED
      BY <1>18, <2>4, <3>1, <3>2 DEF Replace, TypeOK
  <2>6. IdsReserved' /\ OpAdmitted' /\ OutcomeEarned'
    <3>1. /\ op'.pc = "supersede" /\ op' # NoOp
          /\ op'.kind = op.kind /\ op'.a = op.a /\ op'.key = op.key
          /\ op'.policy = op.policy /\ op'.repl = op.repl /\ op'.outcome = op.outcome
      BY <2>4 DEF TypeOK, Operations, NoOp
    <3>2. ASSUME NEW a \in Analyses
          PROVE  /\ prepared[a] # Nil => prepared'[a] # Nil
                 /\ a # op.repl => prepared'[a] = prepared[a]
                 /\ prepared'[op.repl] # Nil
      BY <2>1, <2>3 DEF TypeOK
    <3>3. IdsReserved'
      BY <1>18, <2>1, <3>1, <3>2 DEF Replace, TypeOK, IdsReserved
    <3>4. OpAdmitted' /\ OutcomeEarned'
      BY <1>18, <2>1, <3>1, <3>2 DEF Replace, OpAdmitted, OutcomeEarned
    <3> QED
      BY <3>3, <3>4
  <2>7. OnlyApprovedIndexed'
    BY <1>18, <2>1, <2>3, ApprovedKept DEF Replace, TypeOK
  <2>8. QuarantineIsFinal' /\ AppliedIsReceived'
    BY <1>18 DEF Replace, TypeOK, QuarantineIsFinal, AppliedIsReceived
  <2> QED
    BY <2>5, <2>6, <2>7, <2>8
<1>19. ASSUME Supersede
      PROVE  GateInv'
  <2>1. TypeOK'
    BY <1>19 DEF Supersede, TypeOK, Operations, States
  <2>2. IdsReserved' /\ OpAdmitted' /\ OutcomeEarned'
    BY <1>19
       DEF Supersede, TypeOK, IdsReserved, OpAdmitted, OutcomeEarned, Operations, NoOp,
           Commands
  <2>3. OnlyApprovedIndexed'
    BY <1>19, ApprovedKept DEF Supersede, TypeOK, IdsReserved, OpAdmitted, OutcomeEarned
  <2>4. QuarantineIsFinal' /\ AppliedIsReceived'
    BY <1>19
       DEF Supersede, TypeOK, IdsReserved, OpAdmitted, OutcomeEarned, QuarantineIsFinal,
           AppliedIsReceived
  <2> QED
    BY <2>1, <2>2, <2>3, <2>4
<1>20. ASSUME RequestReplacement
      PROVE  GateInv'
  <2>1. TypeOK'
    BY <1>20 DEF RequestReplacement, TypeOK, IdsReserved, OpAdmitted, Operations, States
  <2>2. IdsReserved' /\ OpAdmitted' /\ OutcomeEarned'
    BY <1>20
       DEF RequestReplacement, TypeOK, IdsReserved, OpAdmitted, OutcomeEarned, Operations,
           NoOp, Commands
  <2>3. OnlyApprovedIndexed'
    BY <1>20, ApprovedKept
       DEF RequestReplacement, TypeOK, IdsReserved, OpAdmitted, OutcomeEarned
  <2>4. QuarantineIsFinal' /\ AppliedIsReceived'
    BY <1>20
       DEF RequestReplacement, TypeOK, IdsReserved, OpAdmitted, OutcomeEarned,
           QuarantineIsFinal, AppliedIsReceived
  <2> QED
    BY <2>1, <2>2, <2>3, <2>4
<1>21. ASSUME GateRecordFails
      PROVE  GateInv'
  <2>1. /\ rank' \in [Docs -> [Shas -> Nat]]
        /\ \A d \in Docs, s \in Shas : rank'[d][s] # 0 => rank[d][s] # 0
    <3>1. CASE RowRemoved
      BY <1>21, <3>1, RemovalShrinks DEF GateRecordFails
    <3>2. CASE UNCHANGED rank
      BY <3>2 DEF TypeOK
    <3> QED
      BY <1>21, <3>1, <3>2 DEF GateRecordFails
  <2>2. TypeOK'
    BY <1>21, <2>1, GatewayAssumption DEF GateRecordFails, TypeOK, Operations, NoOp, Fault
  <2>3. IdsReserved' /\ OpAdmitted' /\ OutcomeEarned'
    BY <1>21 DEF GateRecordFails, IdsReserved, OpAdmitted, OutcomeEarned, NoOp, Commands
  <2>4. OnlyApprovedIndexed'
    BY <1>21, <2>1, ApprovedKept DEF GateRecordFails
  <2>5. QuarantineIsFinal' /\ AppliedIsReceived'
    BY <1>21 DEF GateRecordFails, QuarantineIsFinal, AppliedIsReceived
  <2> QED
    BY <2>2, <2>3, <2>4, <2>5
<1>22. ASSUME OperationFails
      PROVE  GateInv'
  <2>1. TypeOK'
    BY <1>22, GatewayAssumption DEF OperationFails, TypeOK, Operations, NoOp, Fault
  <2>2. IdsReserved' /\ OpAdmitted' /\ OutcomeEarned'
    BY <1>22
       DEF OperationFails, TypeOK, IdsReserved, OpAdmitted, OutcomeEarned, NoOp, Commands
  <2>3. OnlyApprovedIndexed'
    BY <1>22, ApprovedKept
       DEF OperationFails, TypeOK, IdsReserved, OpAdmitted, OutcomeEarned
  <2>4. QuarantineIsFinal' /\ AppliedIsReceived'
    BY <1>22
       DEF OperationFails, TypeOK, IdsReserved, OpAdmitted, OutcomeEarned,
           QuarantineIsFinal, AppliedIsReceived
  <2> QED
    BY <2>1, <2>2, <2>3, <2>4
<1>23. ASSUME Crash
      PROVE  GateInv'
  <2>1. TypeOK'
    BY <1>23, GatewayAssumption DEF Crash, TypeOK, Operations, NoOp, Fault
  <2>2. IdsReserved' /\ OpAdmitted' /\ OutcomeEarned'
    BY <1>23 DEF Crash, TypeOK, IdsReserved, OpAdmitted, OutcomeEarned, NoOp, Commands
  <2>3. OnlyApprovedIndexed'
    BY <1>23, ApprovedKept DEF Crash, TypeOK, IdsReserved, OpAdmitted, OutcomeEarned
  <2>4. QuarantineIsFinal' /\ AppliedIsReceived'
    BY <1>23
       DEF Crash, TypeOK, IdsReserved, OpAdmitted, OutcomeEarned, QuarantineIsFinal,
           AppliedIsReceived
  <2> QED
    BY <2>1, <2>2, <2>3, <2>4
<1>24. CASE UNCHANGED vars
  <2>1. TypeOK' /\ IdsReserved' /\ OpAdmitted' /\ OutcomeEarned'
    BY <1>24 DEF vars, TypeOK, IdsReserved, OpAdmitted, OutcomeEarned
  <2>2. OnlyApprovedIndexed' /\ QuarantineIsFinal' /\ AppliedIsReceived'
    BY <1>24 DEF vars, OnlyApprovedIndexed, QuarantineIsFinal, AppliedIsReceived, Row
  <2> QED
    BY <2>1, <2>2
<1> QED
  BY <1>1, <1>2, <1>3, <1>4, <1>5, <1>6, <1>7, <1>8, <1>9, <1>10, <1>11, <1>12, <1>13,
     <1>14, <1>15, <1>16, <1>17, <1>18, <1>19, <1>20, <1>21, <1>22, <1>23, <1>24, <1>25
     DEF Next, Continue, Gate

\* An empty log and an empty index satisfy the invariant.
LEMMA GateInit == Init => GateInv
<1> SUFFICES ASSUME Init PROVE GateInv
  OBVIOUS
<1>1. TypeOK
  BY GatewayAssumption DEF Init, TypeOK, NoVersions, States, Operations, NoOp
<1>2. IdsReserved /\ OpAdmitted /\ OutcomeEarned
  BY DEF Init, IdsReserved, OpAdmitted, OutcomeEarned, NoOp, Commands
<1>3. OnlyApprovedIndexed /\ QuarantineIsFinal /\ AppliedIsReceived
  BY DEF Init, OnlyApprovedIndexed, QuarantineIsFinal, AppliedIsReceived, NoVersions
<1> QED
  BY <1>1, <1>2, <1>3 DEF GateInv

\* The invariant the theorems below are read off from.
THEOREM GateInvariant == Spec => []GateInv
BY GateInit, GateStep, PTL DEF Spec
-----------------------------------------------------------------------------
\* The variables keep their types.
THEOREM TypeCorrect == Spec => []TypeOK
<1>1. GateInv => TypeOK
  BY DEF GateInv
<1> QED
  BY <1>1, GateInvariant, PTL

\* A version is in the index only with an ALLOW of B and an admitted APPROVE
\* of C for exactly that document and candidate, whatever fails or crashes.
THEOREM IndexNeedsApproval == Spec => []OnlyApprovedIndexed
<1>1. GateInv => OnlyApprovedIndexed
  BY DEF GateInv
<1> QED
  BY <1>1, GateInvariant, PTL

\* No sequence of dispatches, holds and approvals indexes an analysis after
\* the gate quarantined it.
THEOREM QuarantineStays == Spec => []QuarantineIsFinal
<1>1. GateInv => QuarantineIsFinal
  BY DEF GateInv
<1> QED
  BY <1>1, GateInvariant, PTL

\* Of all results sent for a request, the first one received is the one that
\* is applied.
THEOREM FirstResultCounts == Spec => []AppliedIsReceived
<1>1. GateInv => AppliedIsReceived
  BY DEF GateInv
<1> QED
  BY <1>1, GateInvariant, PTL
\* The row of an analysis is immutable.
LEMMA RowsKept ==
  GateInv /\ [Next]_vars =>
    \A a \in Analyses : prepared[a] # Nil => prepared'[a] = prepared[a]
<1> SUFFICES ASSUME GateInv, [Next]_vars, NEW a \in Analyses, prepared[a] # Nil
             PROVE  prepared'[a] = prepared[a]
  OBVIOUS
<1>1. ASSUME NEW b \in Analyses, RecordPrepared(b)
      PROVE  prepared'[a] = prepared[a]
  BY <1>1 DEF RecordPrepared, GateInv, IdsReserved, TypeOK
<1>2. CASE Replace
  BY <1>2 DEF Replace, GateInv, IdsReserved, OpAdmitted, TypeOK
<1>3. CASE UNCHANGED prepared
  BY <1>3
<1>4. \/ \E b \in Analyses : RecordPrepared(b)
      \/ Replace
      \/ UNCHANGED prepared
  BY DEF Next, vars, log, PrepareRead, EnsureRequest, DispatchStart, DispatchFails,
         SubmitPolicyResult, DispatchAnswers, CommandStart, Continue, Gate,
         GateRemoves, GateRemovalFails, GateDeniesIntegrity, GateIndexFails,
         GateIndexes, GateStale, Leaves, GateRecords, GateRecordFails, FinishSubmit,
         FinishCommand, AnswerCommand, Supersede, RequestReplacement, OperationFails,
         Crash
<1> QED
  BY <1>1, <1>2, <1>3, <1>4


-----------------------------------------------------------------------------
(* The projection. GateInv says what was admitted, not what the log of an   *)
(* analysis looks like; the second invariant relates its state, its latest  *)
(* outcome and B's policy, and says what an operation has recorded of       *)
(* itself before it ends.                                                   *)

\* The events of an analysis fit together, in whichever order its result,
\* its commands and its dispatches were handled.
LogExplained ==
  \A a \in Analyses :
    /\ prepared[a] = Nil <=> state[a] = "NONE"
    /\ prepared[a] = Nil => outcome[a] = Nil /\ applied[a] = Nil
    /\ applied[a] # Nil => outcome[a] # Nil
    /\ (outcome[a] # Nil /\ outcome[a].action = "INDEX") =>
         outcome[a].indexed /\ applied[a] = "ALLOW"
    /\ state[a] = "PREPARED" => outcome[a] = Nil
    /\ state[a] \in {"ANALYSIS_REQUESTED", "ANALYSIS_FAILED"} => a \in requested
    /\ state[a] = "AWAITING_APPROVAL" => applied[a] = "ALLOW"
    /\ state[a] \in {"AWAITING_APPROVAL", "HOLD"} =>
         outcome[a] # Nil /\ outcome[a].action = "HOLD"
    /\ state[a] = "INDEXED" => outcome[a] # Nil /\ outcome[a].action = "INDEX"
    /\ state[a] = "QUARANTINED" =>
         outcome[a] # Nil /\ outcome[a].action = "QUARANTINE"

\* An operation past the gate has its outcome on record; holds end held and
\* approvals do not; what is approved was held until then.
OpRecorded ==
  /\ op.pc \in {"replace", "supersede", "request", "finish", "answer"} =>
       op.outcome # Nil /\ outcome[op.a] = op.outcome
  /\ op.outcome # Nil =>
       /\ op.outcome.action = "INDEX" => op.outcome.indexed
       /\ op.kind \in {"HOLD", "REANALYZE"} => op.outcome.action = "HOLD"
       /\ op.kind = "APPROVE" => op.outcome.action # "HOLD"
  /\ op.kind = "REANALYZE" => op.repl # op.a
  /\ op.kind = "HOLD" => op.repl = Nil
  /\ op.kind = "APPROVE" =>
       /\ op.policy = "ALLOW" /\ op.repl = Nil
       /\ op.pc \in {"gate", "record"} =>
            outcome[op.a] # Nil /\ outcome[op.a].action = "HOLD"
       /\ op.pc \in {"finish", "answer"} =>
            state[op.a] \in {StateFor(op.outcome, "ALLOW"), "ANALYSIS_FAILED"}
  /\ op.pc = "answer" =>
       /\ op.kind = "HOLD" => state[op.a] \in {"HOLD", "ANALYSIS_FAILED"}
       /\ op.kind = "REANALYZE" => state[op.a] \in {"SUPERSEDED", "ANALYSIS_FAILED"}

LogInv == LogExplained /\ OpRecorded

\* Without the operation, the log alone is to be kept.
LEMMA LogAlone == LogExplained /\ op = NoOp => LogInv
BY DEF LogInv, OpRecorded, NoOp

\* The gate leaves with an outcome that fits the operation.
LEMMA LeavesLog ==
  ASSUME GateInv, LogInv, op.pc = "gate",
         NEW action \in {"INDEX", "HOLD", "QUARANTINE"}, NEW indexed \in BOOLEAN,
         Leaves(action, indexed),
         action = "INDEX" => indexed,
         op.kind \in {"HOLD", "REANALYZE"} => action = "HOLD",
         op.kind = "APPROVE" => action # "HOLD"
  PROVE  LogInv'
<1> DEFINE o == [action |-> action, indexed |-> indexed]
<1>1. op' = [op EXCEPT !.pc = "record", !.outcome = o] /\ UNCHANGED log
  BY DEF Leaves
<1>2. /\ op'.pc = "record" /\ op'.kind = op.kind /\ op'.a = op.a
      /\ op'.policy = op.policy /\ op'.repl = op.repl /\ op'.outcome = o
  BY <1>1 DEF GateInv, TypeOK, Operations
<1>3. LogExplained'
  BY <1>1 DEF LogInv, LogExplained, log
<1>4. OpRecorded'
  BY <1>1, <1>2 DEF LogInv, OpRecorded, log
<1> QED
  BY <1>3, <1>4 DEF LogInv

\* Every step keeps the projection explained.
LEMMA LogStep == GateInv /\ LogInv /\ [Next]_vars => LogInv'
<1> SUFFICES ASSUME GateInv, LogInv, [Next]_vars PROVE LogInv'
  OBVIOUS
<1> USE DEF LogInv
<1>t. TypeOK
  BY DEF GateInv
<1>1. ASSUME UNCHANGED <<prepared, requested, state, outcome, applied, op>>
      PROVE  LogInv'
  BY <1>1 DEF LogExplained, OpRecorded
<1>2. ASSUME UNCHANGED <<prepared, requested, state, outcome, applied>>, op' = NoOp
      PROVE  LogInv'
  BY <1>2 DEF LogExplained, OpRecorded, NoOp
<1>3. ASSUME NEW a \in Analyses, RecordPrepared(a)
      PROVE  LogInv'
  <2>1. staged[a] # Nil /\ prepared[a] = Nil /\ outcome[a] = Nil
    BY <1>3 DEF RecordPrepared, GateInv, IdsReserved, LogExplained
  <2>2. LogExplained'
    BY <1>3, <1>t, <2>1 DEF RecordPrepared, TypeOK, LogExplained
  <2>3. OpRecorded'
    BY <1>3, <1>t, <2>1 DEF RecordPrepared, TypeOK, OpRecorded, GateInv, OpAdmitted, NoOp
  <2> QED
    BY <2>2, <2>3
<1>4. ASSUME NEW a \in Analyses, EnsureRequest(a)
      PROVE  LogInv'
  BY <1>4, <1>t DEF EnsureRequest, TypeOK, LogExplained, OpRecorded, NoOp
<1>5. ASSUME NEW a \in Analyses, DispatchFails(a)
      PROVE  LogInv'
  <2>1. a \in requested /\ prepared[a] # Nil
    BY <1>5 DEF DispatchFails, GateInv, IdsReserved
  <2> QED
    BY <1>5, <1>t, <2>1 DEF DispatchFails, TypeOK, LogExplained, OpRecorded
<1>6. ASSUME NEW a \in Analyses, NEW p \in Policies, SubmitStart(a, p),
             UNCHANGED <<prepared, requested, state, outcome, applied>>
      PROVE  LogInv'
  BY <1>6 DEF SubmitStart, NoOp, LogExplained, OpRecorded
<1>7. ASSUME NEW a \in Analyses, NEW k \in Keys, NEW c \in Commands,
             NEW r \in Analyses \cup {Nil}, CommandStart(a, k, c, r)
      PROVE  LogInv'
  <2>1. /\ op' = [kind |-> c, pc |-> "gate", a |-> a, key |-> k,
                  policy |-> IF c = "APPROVE" THEN applied[a] ELSE Nil,
                  outcome |-> Nil, repl |-> r]
        /\ prepared[a] # Nil /\ Allowed(a, c)
        /\ IF c = "REANALYZE" THEN r \in Analyses /\ Fresh(r) ELSE r = Nil
        /\ UNCHANGED log
    BY <1>7 DEF CommandStart
  <2>2. LogExplained'
    BY <2>1 DEF LogExplained, log
  <2>3. OpRecorded'
    BY <2>1 DEF LogExplained, OpRecorded, log, Allowed, Fresh
  <2> QED
    BY <2>2, <2>3
<1>8. CASE Gate
  <2>1. PICK action \in {"INDEX", "HOLD", "QUARANTINE"}, indexed \in BOOLEAN :
          /\ op.pc = "gate" /\ Leaves(action, indexed)
          /\ action = "INDEX" => indexed
          /\ op.kind \in {"HOLD", "REANALYZE"} => action = "HOLD"
          /\ op.kind = "APPROVE" => action # "HOLD"
    <3> op.kind = "APPROVE" => op.policy = "ALLOW"
      BY DEF OpRecorded
    <3>1. CASE GateRemoves
      BY <3>1 DEF GateRemoves, Verdict
    <3>2. CASE GateRemovalFails
      BY <3>2 DEF GateRemovalFails, Verdict
    <3>3. CASE GateDeniesIntegrity
      BY <3>3 DEF GateDeniesIntegrity
    <3>4. CASE GateIndexFails
      BY <3>4 DEF GateIndexFails, Verdict
    <3>5. CASE GateIndexes
      BY <3>5 DEF GateIndexes, Verdict
    <3>6. CASE GateStale
      BY <3>6 DEF GateStale, Verdict
    <3> QED
      BY <1>8, <3>1, <3>2, <3>3, <3>4, <3>5, <3>6 DEF Gate
  <2> QED
    BY <2>1, LeavesLog
<1>9. CASE GateRecords
  <2>1. /\ op.a \in Analyses /\ prepared[op.a] # Nil /\ op.outcome \in Outcomes
        /\ op.outcome # Nil
        /\ op.kind = "APPROVE" => applied[op.a] = "ALLOW"
        /\ op.kind # "APPROVE" => op.outcome.action # "INDEX"
    BY <1>9, NotNil DEF GateRecords, GateInv, OpAdmitted, OutcomeEarned
  <2>2. /\ op'.kind = op.kind /\ op'.a = op.a /\ op'.policy = op.policy
        /\ op'.outcome = op.outcome /\ op'.repl = op.repl
        /\ op'.pc = IF op.kind = "REANALYZE" THEN "replace" ELSE "finish"
    BY <1>9, <1>t DEF GateRecords, TypeOK, Operations
  <2>3. LogExplained'
    BY <1>9, <1>t, <2>1 DEF GateRecords, TypeOK, LogExplained, OpRecorded, StateFor, Outcomes
  <2>4. OpRecorded'
    BY <1>9, <1>t, <2>1, <2>2 DEF GateRecords, TypeOK, OpRecorded, StateFor
  <2> QED
    BY <2>3, <2>4
<1>10. CASE FinishSubmit
  <2>1. /\ op.a \in Analyses /\ prepared[op.a] # Nil /\ op.outcome \in Outcomes
        /\ op.outcome # Nil /\ op.policy # Nil
        /\ op.outcome.action # "INDEX"
    BY <1>10, NotNil DEF FinishSubmit, GateInv, OpAdmitted, OutcomeEarned
  <2>2. LogExplained'
    BY <1>10, <1>t, <2>1 DEF FinishSubmit, TypeOK, LogExplained, OpRecorded, StateFor, Outcomes
  <2> QED
    BY <1>10, <2>2, LogAlone DEF FinishSubmit, OpRecorded, NoOp
<1>11. CASE FinishCommand
  <2>1. /\ op.a \in Analyses /\ prepared[op.a] # Nil /\ op.outcome # Nil
        /\ outcome[op.a] = op.outcome
        /\ op.kind \in {"HOLD", "REANALYZE"} => op.outcome.action = "HOLD"
    BY <1>11 DEF FinishCommand, GateInv, OpAdmitted, OpRecorded, Commands
  <2>2. LogExplained'
    BY <1>11, <1>t, <2>1 DEF FinishCommand, TypeOK, LogExplained, Commands
  <2>3. /\ op'.kind = op.kind /\ op'.a = op.a /\ op'.policy = op.policy
        /\ op'.outcome = op.outcome /\ op'.repl = op.repl /\ op'.pc = "answer"
    BY <1>11, <1>t DEF FinishCommand, TypeOK, Operations
  <2>4. OpRecorded'
    BY <1>11, <1>t, <2>1, <2>3 DEF FinishCommand, TypeOK, OpRecorded, StateFor
  <2> QED
    BY <2>2, <2>4
<1>12. CASE Replace
  <2>1. /\ op.kind = "REANALYZE" /\ op.repl \in Analyses /\ prepared[op.repl] = Nil
        /\ op.repl # op.a
    BY <1>12 DEF Replace, GateInv, OpAdmitted, IdsReserved, OpRecorded
  <2>2. [prepared[op.a] EXCEPT !.supersedes = op.a] \in Prepared
    BY <1>12, OpRow, <1>t DEF Replace, GateInv, OpAdmitted, Prepared
  <2>3. /\ op'.kind = op.kind /\ op'.a = op.a /\ op'.policy = op.policy
        /\ op'.outcome = op.outcome /\ op'.repl = op.repl /\ op'.pc = "supersede"
    BY <1>12, <1>t DEF Replace, TypeOK, Operations
  <2>4. LogExplained'
    <3>1. /\ prepared'[op.repl] # Nil /\ state'[op.repl] = "PREPARED"
          /\ \A a \in Analyses : a # op.repl => prepared'[a] = prepared[a] /\ state'[a] = state[a]
          /\ UNCHANGED <<outcome, applied, requested>>
      BY <1>12, <1>t, <2>1, <2>2, NotNil DEF Replace, TypeOK
    <3>2. outcome[op.repl] = Nil /\ applied[op.repl] = Nil
      BY <1>12, <2>1 DEF LogExplained
    <3> QED
      BY <2>1, <3>1, <3>2, NotNil DEF LogExplained
  <2>5. OpRecorded'
    BY <1>12, <2>1, <2>3 DEF Replace, OpRecorded
  <2> QED
    BY <2>4, <2>5
<1>13. CASE Supersede
  <2>1. op.kind = "REANALYZE" /\ op.a \in Analyses /\ prepared[op.a] # Nil
    BY <1>13 DEF Supersede, GateInv, OpAdmitted
  <2>2. /\ op'.kind = op.kind /\ op'.a = op.a /\ op'.policy = op.policy
        /\ op'.outcome = op.outcome /\ op'.repl = op.repl /\ op'.pc = "request"
    BY <1>13, <1>t DEF Supersede, TypeOK, Operations
  <2>3. LogExplained'
    BY <1>13, <1>t, <2>1 DEF Supersede, TypeOK, LogExplained
  <2>4. OpRecorded'
    BY <1>13, <2>1, <2>2 DEF Supersede, OpRecorded
  <2> QED
    BY <2>3, <2>4
<1>14. CASE RequestReplacement
  <2>1. op.kind = "REANALYZE" /\ op.repl \in Analyses /\ prepared[op.repl] # Nil
    BY <1>14 DEF RequestReplacement, GateInv, OpAdmitted, IdsReserved
  <2>2. /\ op'.kind = op.kind /\ op'.a = op.a /\ op'.policy = op.policy
        /\ op'.outcome = op.outcome /\ op'.repl = op.repl /\ op'.pc = "finish"
    BY <1>14, <1>t DEF RequestReplacement, TypeOK, Operations
  <2>3. LogExplained'
    BY <1>14, <1>t, <2>1 DEF RequestReplacement, TypeOK, LogExplained
  <2>4. OpRecorded'
    BY <1>14, <2>1, <2>2 DEF RequestReplacement, OpRecorded
  <2> QED
    BY <2>3, <2>4
<1>15. CASE AnswerCommand \/ GateRecordFails \/ OperationFails \/ Crash
  BY <1>15, <1>2 DEF AnswerCommand, GateRecordFails, OperationFails, Crash, log
<1>16. ASSUME NEW a \in Analyses, DispatchStart(a) \/ \E d \in Docs, c \in Shas : PrepareRead(a, d, c)
       PROVE  LogInv'
  BY <1>16, <1>1 DEF DispatchStart, PrepareRead, log
<1>17. ASSUME NEW a \in Analyses, NEW p \in Policies,
              SubmitPolicyResult(a, p) \/ DispatchAnswers(a, p)
       PROVE  LogInv'
  BY <1>17, <1>1, <1>6 DEF SubmitPolicyResult, DispatchAnswers
<1> QED
  BY <1>1, <1>3, <1>4, <1>5, <1>7, <1>8, <1>9, <1>10, <1>11, <1>12, <1>13, <1>14,
     <1>15, <1>16, <1>17 DEF Next, Continue, vars

\* What is on record of an analysis fits together, whatever failed between
\* the appends.
THEOREM LogInvariant == Spec => []LogInv
<1>1. Init => LogInv
  BY DEF Init, LogInv, LogExplained, OpRecorded, NoOp
<1> QED
  BY <1>1, LogStep, GateInvariant, PTL DEF Spec
-----------------------------------------------------------------------------
(* The index                                                               *)

\* Only an approval moves a version up, by index_atomic's compare-and-set with
\* the immutable row of the analysis the lock was taken for.
LEMMA RaisesReviewed == GateInv /\ [Next]_vars => [RaisedOnBaseline]_vars
<1> SUFFICES ASSUME GateInv, [Next]_vars, NEW d \in Docs, NEW s \in Shas,
                    rank'[d][s] > rank[d][s]
             PROVE  \E a \in approved : /\ Row(a) = <<d, s>>
                                        /\ IsCurrent(rank[d], prepared[a].expected)
  BY DEF RaisedOnBaseline
<1>1. rank \in [Docs -> Tables] /\ ~(rank[d][s] > rank[d][s])
  BY DEF GateInv, TypeOK, Tables
<1>2. CASE RowRemoved /\ op.pc # "idle"
  <2>1. rank'[d][s] <= rank[d][s] /\ rank' \in [Docs -> [Shas -> Nat]]
    BY <1>2, RemovalShrinks DEF GateInv
  <2> QED
    BY <1>1, <2>1 DEF Tables
<1>3. CASE GateIndexes
  <2>1. op.kind = "APPROVE" /\ op.a \in approved /\ op.pc # "idle"
    BY <1>3 DEF GateIndexes, Verdict, GateInv, OpAdmitted, TypeOK, Operations, Commands
  <2>2. PICK doc \in Docs, cand \in Shas :
          /\ doc = prepared[op.a].doc /\ cand = prepared[op.a].cand
          /\ rank' = [rank EXCEPT ![doc] = Put(@, cand)]
          /\ IsCurrent(rank[doc], prepared[op.a].expected)
    BY <1>3, <2>1, OpRow DEF GateIndexes, GateInv
  <2>3. d = doc
    BY <1>1, <2>2
  <2>4. Put(rank[doc], cand) \in Tables /\ rank[doc] \in Tables
    BY <1>1, PutStored
  <2>5. s = cand
    <3>1. s # cand => Put(rank[doc], cand)[s] <= rank[doc][s]
      BY <1>1, OthersNotRaised
    <3>2. rank'[d] = Put(rank[doc], cand)
      BY <1>1, <2>2, <2>3
    <3>3. Put(rank[doc], cand)[s] > rank[doc][s]
      BY <2>3, <3>2
    <3>4. Put(rank[doc], cand)[s] \in Nat /\ rank[doc][s] \in Nat
      BY <2>4 DEF Tables
    <3> QED
      BY <3>1, <3>3, <3>4
  <2> QED
    BY <2>1, <2>2, <2>3, <2>5 DEF Row
<1>4. UNCHANGED rank \/ (RowRemoved /\ op.pc # "idle") \/ GateIndexes
  BY DEF Next, vars, log, PrepareRead, RecordPrepared, EnsureRequest, DispatchStart,
         DispatchFails, SubmitPolicyResult, DispatchAnswers, CommandStart, Continue,
         Gate, GateRemoves, GateRemovalFails, GateDeniesIntegrity, GateIndexFails,
         GateStale, Leaves, GateRecords, GateRecordFails, FinishSubmit, FinishCommand,
         AnswerCommand, Replace, Supersede, RequestReplacement, OperationFails, Crash
<1> QED
  BY <1>1, <1>2, <1>3, <1>4

\* Whatever fails or crashes, no approval overwrites a version its reviewer
\* never saw.
THEOREM BaselineReviewed == Spec => IndexOnReviewedBaseline
BY RaisesReviewed, GateInvariant, PTL DEF Spec, IndexOnReviewedBaseline
-----------------------------------------------------------------------------
(* The audit log and the index, while only appends and integrity checks    *)
(* fail. Between the index commit and its event the log is behind, so the  *)
(* invariant looks at the outcome an analysis has once the operation under *)
(* way has recorded. (A crash or a failing index does leave versions the   *)
(* log denies: the run gateway_crash shows one.)                           *)

Latest(a) == IF op.pc = "record" /\ a = op.a THEN op.outcome ELSE outcome[a]

\* Analysis a accounts for a stored version d, s.
Accounts(a, d, s) ==
  /\ prepared[a] # Nil /\ Row(a) = <<d, s>>
  /\ Latest(a) # Nil /\ Latest(a).indexed

StoredAccounted ==
  \A d \in Docs, s \in Shas :
    rank[d][s] # 0 => \E a \in Analyses : Accounts(a, d, s)

\* What is on record as indexed was indexed: no removal failed.
Contained ==
  /\ \A a \in Analyses :
       outcome[a] # Nil /\ outcome[a].indexed => outcome[a].action = "INDEX"
  /\ op.outcome # Nil /\ op.outcome.indexed => op.outcome.action = "INDEX"

LEMMA ContainedStep ==
  ASSUME "indexer" \notin FaultKinds, GateInv, LogInv, Contained, [Next]_vars
  PROVE  Contained'
<1>t. TypeOK
  BY DEF GateInv
<1>1. ASSUME UNCHANGED <<outcome, op>> PROVE Contained'
  BY <1>1 DEF Contained
<1>2. ASSUME UNCHANGED outcome, op' = NoOp PROVE Contained'
  BY <1>2 DEF Contained, NoOp
<1>3. CASE Gate
  <2>1. PICK action \in {"INDEX", "HOLD", "QUARANTINE"}, indexed \in BOOLEAN :
          Leaves(action, indexed) /\ (indexed => action = "INDEX")
    BY <1>3 DEF Gate, GateRemoves, GateIndexes, GateStale, GateRemovalFails,
                GateDeniesIntegrity, GateIndexFails, Fault
  <2> QED
    BY <1>t, <2>1 DEF Leaves, log, Contained, TypeOK, Operations
<1>4. ASSUME NEW a \in Analyses, NEW p \in Policies,
             SubmitPolicyResult(a, p) \/ DispatchAnswers(a, p)
      PROVE  Contained'
  BY <1>4 DEF SubmitPolicyResult, DispatchAnswers, SubmitStart, NoOp, Contained
<1>5. ASSUME NEW a \in Analyses, NEW k \in Keys, NEW c \in Commands,
             NEW r \in Analyses \cup {Nil}, CommandStart(a, k, c, r)
      PROVE  Contained'
  BY <1>5 DEF CommandStart, log, Contained
<1>6. CASE GateRecords
  BY <1>6, <1>t DEF GateRecords, TypeOK, Operations, Contained
<1>7. CASE FinishSubmit
  BY <1>7, <1>t DEF FinishSubmit, NoOp, TypeOK, Contained
<1>8. CASE Replace \/ Supersede \/ RequestReplacement \/ FinishCommand
  BY <1>8, <1>t DEF Replace, Supersede, RequestReplacement, FinishCommand, TypeOK,
                    Operations, Contained
<1> QED
  BY <1>1, <1>2, <1>3, <1>4, <1>5, <1>6, <1>7, <1>8
     DEF Next, vars, log, Continue, PrepareRead, RecordPrepared, EnsureRequest,
         DispatchStart, DispatchFails, AnswerCommand, GateRecordFails,
         OperationFails, Crash

\* A step that stores nothing new and takes no account back.
LEMMA AccountsKept ==
  ASSUME GateInv, [Next]_vars, StoredAccounted,
         \A d \in Docs, s \in Shas : rank'[d][s] # 0 => rank[d][s] # 0,
         \A a \in Analyses, d \in Docs, s \in Shas :
           (Accounts(a, d, s) /\ rank'[d][s] # 0) =>
             \E b \in Analyses : /\ prepared[b] # Nil /\ Row(b) = <<d, s>>
                                 /\ Latest(b)' # Nil /\ Latest(b)'.indexed
  PROVE  StoredAccounted'
<1> SUFFICES ASSUME NEW d \in Docs, NEW s \in Shas, rank'[d][s] # 0
             PROVE  \E a \in Analyses : Accounts(a, d, s)'
  BY DEF StoredAccounted
<1>1. PICK a \in Analyses : Accounts(a, d, s)
  BY DEF StoredAccounted
<1>2. PICK b \in Analyses : /\ prepared[b] # Nil /\ Row(b) = <<d, s>>
                            /\ Latest(b)' # Nil /\ Latest(b)'.indexed
  BY <1>1
<1> QED
  BY <1>2, RowsKept DEF Accounts, Row

LEMMA AccountedStep ==
  ASSUME FaultKinds \cap {"indexer", "crash"} = {},
         GateInv, LogInv, Contained, StoredAccounted, [Next]_vars
  PROVE  StoredAccounted'
<1>t. TypeOK /\ OpAdmitted
  BY DEF GateInv
<1>1. ASSUME UNCHANGED rank, \A a \in Analyses : Latest(a)' = Latest(a)
      PROVE  StoredAccounted'
  BY <1>1, AccountsKept DEF Accounts
<1>2. ASSUME UNCHANGED <<rank, outcome>>, op.pc # "record", op'.pc # "record"
      PROVE  StoredAccounted'
  BY <1>2, <1>1 DEF Latest
\* The row of the operation's analysis went, and its outcome says so.
<1>3. ASSUME op.pc = "gate", RowRemoved, NEW action \in {"HOLD", "QUARANTINE"},
             Leaves(action, FALSE)
      PROVE  StoredAccounted'
  <2>1. /\ \A d \in Docs, s \in Shas : rank'[d][s] # 0 => rank[d][s] # 0
        /\ rank'[prepared[op.a].doc][prepared[op.a].cand] = 0
    BY <1>3, <1>t, RemovalShrinks
  <2>2. \A a \in Analyses : a # op.a => Latest(a)' = Latest(a)
    BY <1>3, <1>t DEF Leaves, log, Latest, TypeOK, Operations
  <2> QED
    BY <2>1, <2>2, AccountsKept DEF Accounts, Row
<1>4. CASE GateIndexes
  <2>1. PICK w \in Analyses : w = op.a /\ prepared[w] # Nil /\ op.pc # "idle"
    BY <1>4, <1>t DEF GateIndexes, OpAdmitted
  <2>2. PICK doc \in Docs, cand \in Shas :
          /\ doc = prepared[w].doc /\ cand = prepared[w].cand
          /\ rank' = [rank EXCEPT ![doc] = Put(@, cand)]
    BY <1>4, <1>t, <2>1, OpRow DEF GateIndexes
  <2>3. rank \in [Docs -> Tables]
    BY <1>t DEF TypeOK, Tables
  <2>4. Stored(Put(rank[doc], cand)) = Stored(rank[doc]) \cup {cand}
    BY <2>3, PutStored
  <2>5. PICK o \in Outcomes : o = [action |-> "INDEX", indexed |-> TRUE]
    BY DEF Outcomes
  <2>6. /\ Latest(w)' = o
        /\ \A a \in Analyses : a # w => Latest(a)' = Latest(a)
        /\ UNCHANGED prepared
    BY <1>4, <1>t, <2>1, <2>5 DEF GateIndexes, Leaves, log, Latest, TypeOK, Operations
  <2>7. o # Nil /\ o.indexed
    BY <2>5, NotNil
  <2>8. ASSUME NEW d \in Docs, NEW s \in Shas, rank'[d][s] # 0
        PROVE  \E a \in Analyses : Accounts(a, d, s)'
    <3>1. CASE d = doc /\ s = cand
      BY <2>1, <2>2, <2>6, <2>7, <3>1 DEF Accounts, Row
    <3>2. CASE ~(d = doc /\ s = cand)
      <4>1. rank[d][s] # 0
        BY <2>2, <2>3, <2>4, <2>8, <3>2 DEF Stored
      <4>2. PICK a \in Analyses : Accounts(a, d, s)
        BY <4>1 DEF StoredAccounted
      <4> QED
        BY <2>6, <2>7, <4>2 DEF Accounts, Row
    <3> QED
      BY <3>1, <3>2
  <2> QED
    BY <2>8 DEF StoredAccounted
\* Nothing is removed, but the analysis was held and accounted for nothing.
<1>5. CASE GateStale
  <2>1. op.pc = "gate" /\ op.kind = "APPROVE" /\ op.a \in Analyses
    BY <1>5, <1>t DEF GateStale, Verdict, OpAdmitted, TypeOK, Operations, Commands
  <2>2. ~(Latest(op.a) # Nil /\ Latest(op.a).indexed)
    BY <2>1 DEF Latest, LogInv, OpRecorded, Contained
  <2>3. \A a \in Analyses : a # op.a => Latest(a)' = Latest(a)
    BY <1>5, <1>t DEF GateStale, Leaves, log, Latest, TypeOK, Operations
  <2> QED
    BY <1>5, <2>2, <2>3, AccountsKept DEF GateStale, Accounts
<1>6. CASE GateRecords
  BY <1>6, <1>t, <1>1 DEF GateRecords, Latest, TypeOK, Operations
\* The index is taken back; an outcome of a hold or denial accounted for nothing.
<1>7. CASE GateRecordFails
  <2>1. op.pc = "record" /\ op'.pc = "idle" /\ op.outcome # Nil /\ UNCHANGED outcome
    BY <1>7, NotNil DEF GateRecordFails, NoOp, log, GateInv, OutcomeEarned
  <2>2. \A a \in Analyses : a # op.a => Latest(a)' = Latest(a)
    BY <2>1 DEF Latest
  <2>3. CASE op.outcome.action = "INDEX" /\ RowRemoved
    <3>1. /\ \A d \in Docs, s \in Shas : rank'[d][s] # 0 => rank[d][s] # 0
          /\ rank'[prepared[op.a].doc][prepared[op.a].cand] = 0
      BY <1>t, <2>1, <2>3, RemovalShrinks
    <3> QED
      BY <2>2, <3>1, AccountsKept DEF Accounts, Row
  <2>4. CASE op.outcome.action # "INDEX" /\ UNCHANGED rank
    <3>1. ~Latest(op.a).indexed
      BY <2>1, <2>4 DEF Latest, Contained
    <3> QED
      BY <2>2, <2>4, <3>1, AccountsKept DEF Accounts
  <2> QED
    BY <1>7, <2>3, <2>4 DEF GateRecordFails
<1>8. CASE FinishSubmit
  <2>1. op.pc = "finish" /\ outcome[op.a] = op.outcome
    BY <1>8 DEF FinishSubmit, LogInv, OpRecorded
  <2> QED
    BY <1>8, <1>t, <2>1, <1>1 DEF FinishSubmit, Latest, NoOp, TypeOK
<1>9. ASSUME NEW a \in Analyses, NEW p \in Policies,
             SubmitPolicyResult(a, p) \/ DispatchAnswers(a, p)
      PROVE  StoredAccounted'
  <2>1. /\ UNCHANGED <<rank, outcome>>
        /\ UNCHANGED op \/ (op = NoOp /\ op'.pc = "gate")
    BY <1>9 DEF SubmitPolicyResult, DispatchAnswers, SubmitStart, NoOp
  <2> QED
    BY <2>1, <1>1, <1>2 DEF NoOp, Latest
<1>10. ASSUME NEW a \in Analyses, NEW k \in Keys, NEW c \in Commands,
              NEW r \in Analyses \cup {Nil}, CommandStart(a, k, c, r)
       PROVE  StoredAccounted'
  BY <1>10, <1>2 DEF CommandStart, log, NoOp
<1>11. CASE \/ FinishCommand \/ AnswerCommand \/ Replace \/ Supersede
            \/ RequestReplacement \/ OperationFails
  BY <1>11, <1>t, <1>2 DEF FinishCommand, AnswerCommand, Replace, Supersede, RequestReplacement,
     OperationFails, log, NoOp, TypeOK, Operations
<1>12. CASE Gate
  BY <1>12, <1>3, <1>4, <1>5
     DEF Gate, GateRemoves, GateRemovalFails, GateDeniesIntegrity, GateIndexFails, Fault
<1>13. CASE UNCHANGED <<rank, outcome, op>>
  BY <1>13, <1>1 DEF Latest
<1> QED
  BY <1>6, <1>7, <1>8, <1>9, <1>10, <1>11, <1>12, <1>13
     DEF Next, vars, log, Continue, PrepareRead, RecordPrepared, EnsureRequest,
         DispatchStart, DispatchFails, Crash, Fault

\* While appends and integrity checks may fail at every step, but neither the
\* index nor the process does: between operations every stored version is on
\* record as indexed (_record's compensation takes it out otherwise).
THEOREM AuditExplains ==
  ASSUME FaultKinds \cap {"indexer", "crash"} = {}
  PROVE  Spec => []AuditExplainsIndex
<1>1. Init => Contained /\ StoredAccounted
  BY DEF Init, Contained, StoredAccounted, NoOp, NoVersions
<1>2. GateInv /\ LogInv /\ Contained /\ StoredAccounted /\ [Next]_vars
        => (Contained /\ StoredAccounted)'
  BY ContainedStep, AccountedStep
<1>3. StoredAccounted => AuditExplainsIndex
  BY DEF StoredAccounted, Accounts, Latest, AuditExplainsIndex, NoOp
<1> QED
  BY <1>1, <1>2, <1>3, GateInvariant, LogInvariant, PTL DEF Spec

\* Then a held or quarantined candidate is out of the index as well, unless
\* another analysis of the same content accounts for it.
THEOREM HeldRemoved ==
  ASSUME FaultKinds \cap {"indexer", "crash"} = {}
  PROVE  Spec => []HeldIsRemoved
<1>1. GateInv /\ LogInv /\ AuditExplainsIndex => HeldIsRemoved
  <2> SUFFICES ASSUME GateInv, LogInv, AuditExplainsIndex, op = NoOp,
                      NEW a \in Analyses, outcome[a] # Nil, ~outcome[a].indexed,
                      IsStored(a)
               PROVE  IndexedByAnother(a)
    BY DEF HeldIsRemoved
  <2>1. prepared[a] \in Prepared
    BY DEF LogInv, LogExplained, GateInv, TypeOK
  <2> QED
    BY <2>1 DEF AuditExplainsIndex, IsStored, IndexedByAnother, Row, Prepared
<1> QED
  BY <1>1, AuditExplains, GateInvariant, LogInvariant, PTL
-----------------------------------------------------------------------------
(* The promise: every commit of the gateway is one step of ReviewedIndex   *)
(* or none.                                                                *)

\* Only a reanalysis repeats another analysis: a prepare call does not.
StagedFirst == \A a \in Analyses : staged[a] # Nil => staged[a].supersedes = Nil

LEMMA StagedAreFirst == Spec => []StagedFirst
<1>1. Init => StagedFirst
  BY DEF Init, StagedFirst
<1>2. TypeOK /\ StagedFirst /\ [Next]_vars => StagedFirst'
  <2> SUFFICES ASSUME TypeOK, StagedFirst, [Next]_vars PROVE StagedFirst'
    OBVIOUS
  <2>1. ASSUME NEW a \in Analyses, NEW d \in Docs, NEW c \in Shas, PrepareRead(a, d, c)
        PROVE  StagedFirst'
    BY <2>1 DEF PrepareRead, StagedFirst, TypeOK
  <2>2. ASSUME NEW a \in Analyses, RecordPrepared(a) PROVE StagedFirst'
    BY <2>2 DEF RecordPrepared, StagedFirst, TypeOK
  <2>3. CASE Crash
    BY <2>3 DEF Crash, StagedFirst
  <2>4. CASE UNCHANGED staged
    BY <2>4 DEF StagedFirst
  <2>5. \/ \E a \in Analyses, d \in Docs, c \in Shas : PrepareRead(a, d, c)
        \/ \E a \in Analyses : RecordPrepared(a)
        \/ Crash \/ UNCHANGED staged
    BY DEF Next, vars, EnsureRequest, DispatchStart, DispatchFails,
           SubmitPolicyResult, DispatchAnswers, CommandStart, Continue, Gate,
           GateRemoves, GateRemovalFails, GateDeniesIntegrity, GateIndexFails,
           GateIndexes, GateStale, Leaves, GateRecords, GateRecordFails,
           FinishSubmit, FinishCommand, AnswerCommand, Replace, Supersede, RequestReplacement,
           OperationFails
  <2> QED
    BY <2>1, <2>2, <2>3, <2>4, <2>5
<1> QED
  BY <1>1, <1>2, TypeCorrect, PTL DEF Spec

\* Both modules speak of the same tables and of the same rows of analyses.
LEMMA SameTables ==
  /\ \A r, s : Promise!Put(r, s) = Put(r, s) /\ Promise!Drop(r, s) = Drop(r, s)
  /\ \A r, c : Promise!IsCurrent(r, c) = IsCurrent(r, c)
  /\ Promise!NoVersions = NoVersions
  /\ Promise!Comparison = Prepared
BY DEF Promise!Put, Put, Promise!Drop, Drop, Promise!IsCurrent, IsCurrent,
       Promise!Stored, Stored, Promise!Cardinality, Cardinality,
       Promise!NoVersions, NoVersions, Promise!Comparison, Prepared

LEMMA PromiseInit == Init => Promise!Init
BY SameTables DEF Init, Promise!Init, Consented, NoOp

\* A step that leaves log and index alone keeps the consent or spends it.
LEMMA LapseMaps ==
  ASSUME UNCHANGED <<prepared, received, quarantined, rank>>,
         Consented' \in {Consented, Nil}
  PROVE  [Promise!Next]_(Promise!vars)
BY DEF Promise!Next, Promise!Lapse, Promise!vars

LEMMA PrepareMaps ==
  ASSUME GateInv, StagedFirst, NEW a \in Analyses, RecordPrepared(a)
  PROVE  Promise!Prepare(a)
<1>1. /\ staged[a] \in Prepared /\ staged[a].supersedes = Nil
      /\ prepared[a] = Nil
      /\ prepared' = [prepared EXCEPT ![a] = staged[a]]
  BY DEF RecordPrepared, GateInv, TypeOK, IdsReserved, StagedFirst
<1>2. Consented' = Consented
  BY DEF RecordPrepared, Consented
<1> QED
  BY <1>1, <1>2, SameTables DEF Promise!Prepare, RecordPrepared

LEMMA ReplaceMaps ==
  ASSUME GateInv, Replace
  PROVE  op.repl \in Analyses /\ Promise!Prepare(op.repl)
<1>1. /\ op.kind = "REANALYZE" /\ op.pc = "replace"
      /\ op.a \in Analyses /\ prepared[op.a] \in Prepared /\ prepared[op.a] # Nil
      /\ op.repl \in Analyses /\ prepared[op.repl] = Nil
  BY OpRow DEF Replace, GateInv, OpAdmitted, IdsReserved
<1> DEFINE c == [prepared[op.a] EXCEPT !.supersedes = op.a]
<1>2. /\ c \in Prepared /\ c.supersedes = op.a
      /\ c.doc = prepared[op.a].doc /\ c.cand = prepared[op.a].cand
      /\ c.expected = prepared[op.a].expected
  BY <1>1 DEF Prepared
<1>3. Promise!Repeats(c, prepared[c.supersedes])
  BY <1>1, <1>2 DEF Promise!Repeats
<1>4. prepared' = [prepared EXCEPT ![op.repl] = c]
  BY DEF Replace
<1>5. Consented' = Consented
  BY <1>1 DEF Replace, Consented, GateInv, TypeOK, Operations
<1> QED
  BY <1>1, <1>2, <1>3, <1>4, <1>5, SameTables DEF Promise!Prepare, Replace

LEMMA HearMaps ==
  ASSUME GateInv, NEW a \in Analyses, NEW p \in Policies, SubmitStart(a, p),
         UNCHANGED <<prepared, quarantined, rank>>
  PROVE  [Promise!Next]_(Promise!vars)
<1>1. Consented = Nil /\ Consented' = Nil
  BY DEF SubmitStart, Consented, NoOp
<1>2. prepared[a] # Nil
  BY DEF SubmitStart, Admissible, GateInv, IdsReserved
<1>3. CASE received[a] = Nil
  <2>1. received' = [received EXCEPT ![a] = p]
    BY <1>3 DEF SubmitStart
  <2> QED
    BY <1>1, <1>2, <1>3, <2>1 DEF Promise!Next, Promise!Hear
<1>4. CASE received[a] # Nil
  <2>1. received' = received
    BY <1>4 DEF SubmitStart, GateInv, TypeOK
  <2> QED
    BY <1>1, <2>1, LapseMaps
<1> QED
  BY <1>3, <1>4

\* What was applied is what was received, so the operator consents to B's
\* first and only result.
LEMMA ConsentMaps ==
  ASSUME GateInv, NEW a \in Analyses, NEW k \in Keys, NEW c \in Commands,
         NEW r \in Analyses \cup {Nil}, CommandStart(a, k, c, r)
  PROVE  [Promise!Next]_(Promise!vars)
<1>1. /\ UNCHANGED <<prepared, received, quarantined, rank>>
      /\ Consented = Nil
      /\ Consented' = IF c = "APPROVE" THEN a ELSE Nil
  BY DEF CommandStart, log, Consented, NoOp
<1>2. CASE c = "APPROVE"
  <2>1. received[a] = "ALLOW"
    BY <1>2, NotNil DEF CommandStart, Allowed, GateInv, AppliedIsReceived, Policies
  <2> QED
    BY <1>1, <1>2, <2>1 DEF Promise!Next, Promise!Consent
<1>3. CASE c # "APPROVE"
  BY <1>1, <1>3, LapseMaps
<1> QED
  BY <1>2, <1>3

\* Between the gate and its record no consent is left.
LEMMA LeavesConsent ==
  ASSUME TypeOK, NEW action, NEW indexed, Leaves(action, indexed)
  PROVE  Consented' = Nil /\ UNCHANGED <<prepared, received, quarantined>>
BY DEF Leaves, log, Consented, TypeOK, Operations

LEMMA TakeOutMaps ==
  ASSUME GateInv, op.pc # "idle", RowRemoved, Consented' = Nil,
         UNCHANGED <<prepared, received, quarantined>>
  PROVE  [Promise!Next]_(Promise!vars)
<1>1. op.a \in Analyses /\ prepared[op.a] # Nil
  BY OpRow DEF GateInv, OpAdmitted
<1> QED
  BY <1>1, SameTables DEF RowRemoved, Promise!Next, Promise!TakeOut

LEMMA PutOnTopMaps ==
  ASSUME GateInv, GateIndexes
  PROVE  [Promise!Next]_(Promise!vars)
<1>1. /\ op.kind = "APPROVE" /\ op.pc = "gate" /\ op.a \in Analyses
      /\ op.a \notin quarantined
      /\ prepared[op.a].cand \notin HardShas
  BY OpRow DEF GateIndexes, Verdict, GateInv, OpAdmitted, TypeOK, Operations, Commands
<1>2. Consented = op.a
  BY <1>1 DEF Consented
<1>3. Consented' = Nil /\ UNCHANGED <<prepared, received, quarantined>>
  BY LeavesConsent DEF GateIndexes, GateInv
<1>4. Promise!PutOnTop(op.a)
  BY <1>1, <1>2, <1>3, SameTables DEF GateIndexes, Promise!PutOnTop
<1> QED
  BY <1>1, <1>4 DEF Promise!Next

LEMMA GateMaps ==
  ASSUME GateInv, Gate
  PROVE  [Promise!Next]_(Promise!vars)
<1>1. CASE GateIndexes
  BY <1>1, PutOnTopMaps
<1>2. CASE RowRemoved /\ \E action, indexed : Leaves(action, indexed)
  <2>1. op.pc # "idle"
    BY DEF Gate, GateRemoves, GateIndexes, GateStale, GateRemovalFails,
           GateDeniesIntegrity, GateIndexFails
  <2> QED
    BY <1>2, <2>1, LeavesConsent, TakeOutMaps DEF GateInv
<1>3. CASE UNCHANGED rank /\ \E action, indexed : Leaves(action, indexed)
  BY <1>3, LeavesConsent, LapseMaps DEF GateInv
<1> QED
  BY <1>1, <1>2, <1>3
     DEF Gate, GateRemoves, GateStale, GateRemovalFails, GateDeniesIntegrity,
         GateIndexFails

LEMMA RecordMaps ==
  ASSUME GateInv, GateRecords
  PROVE  [Promise!Next]_(Promise!vars)
<1>1. /\ Consented = Nil /\ Consented' = Nil
      /\ UNCHANGED <<prepared, received, rank>>
  BY DEF GateRecords, Consented, GateInv, TypeOK, Operations
<1>2. op.a \in Analyses /\ prepared[op.a] # Nil
  BY OpRow DEF GateRecords, GateInv, OpAdmitted
<1>3. CASE quarantined' = quarantined \cup {op.a}
  BY <1>1, <1>2, <1>3 DEF Promise!Next, Promise!Bar
<1>4. CASE quarantined' = quarantined
  BY <1>1, <1>4, LapseMaps
<1> QED
  BY <1>3, <1>4 DEF GateRecords

LEMMA RecordFailsMaps ==
  ASSUME GateInv, GateRecordFails
  PROVE  [Promise!Next]_(Promise!vars)
<1>1. Consented' = Nil /\ UNCHANGED <<prepared, received, quarantined>>
  BY DEF GateRecordFails, Consented, NoOp, log
<1>2. RowRemoved \/ UNCHANGED rank
  BY DEF GateRecordFails
<1>3. op.pc # "idle"
  BY DEF GateRecordFails
<1> QED
  BY <1>1, <1>2, <1>3, TakeOutMaps, LapseMaps

\* The steps the promise does not speak of: they may at most end a consent.
Silent ==
  \/ \E a \in Analyses, d \in Docs, c \in Shas : PrepareRead(a, d, c)
  \/ \E a \in Analyses : EnsureRequest(a) \/ DispatchStart(a) \/ DispatchFails(a)
  \/ FinishSubmit \/ FinishCommand \/ AnswerCommand \/ Supersede \/ RequestReplacement
  \/ OperationFails \/ Crash \/ UNCHANGED vars

LEMMA SilentMaps ==
  ASSUME GateInv, Silent
  PROVE  [Promise!Next]_(Promise!vars)
<1>1. UNCHANGED <<prepared, received, quarantined, rank>>
  BY DEF Silent, PrepareRead, EnsureRequest, DispatchStart, DispatchFails,
         FinishSubmit, FinishCommand, AnswerCommand, Supersede, RequestReplacement,
         OperationFails, Crash, log, vars
<1>2. Consented' \in {Consented, Nil}
  <2>1. CASE UNCHANGED op
    BY <2>1 DEF Consented
  <2>2. CASE op' = NoOp
    BY <2>2 DEF Consented, NoOp
  <2>3. CASE op.pc \in {"supersede", "request", "finish"} /\ op' = [op EXCEPT !.pc = op'.pc]
             /\ op'.pc \in {"request", "finish", "answer"}
    BY <2>3 DEF Consented
  <2>4. UNCHANGED op \/ op' = NoOp
        \/ (op.pc \in {"supersede", "request", "finish"} /\ op' = [op EXCEPT !.pc = op'.pc]
            /\ op'.pc \in {"request", "finish", "answer"})
    BY DEF Silent, PrepareRead, EnsureRequest, DispatchStart, DispatchFails,
           FinishSubmit, FinishCommand, AnswerCommand, Supersede, RequestReplacement,
           OperationFails, Crash, log, vars, GateInv, TypeOK, Operations
  <2> QED
    BY <2>1, <2>2, <2>3, <2>4
<1> QED
  BY <1>1, <1>2, LapseMaps

\* Every step of the gateway is a step of the promise, or none.
LEMMA PromiseStep ==
  GateInv /\ StagedFirst /\ [Next]_vars => [Promise!Next]_(Promise!vars)
<1> SUFFICES ASSUME GateInv, StagedFirst, [Next]_vars
             PROVE  [Promise!Next]_(Promise!vars)
  OBVIOUS
<1>1. ASSUME NEW a \in Analyses, RecordPrepared(a) PROVE Promise!Next
  BY <1>1, PrepareMaps DEF Promise!Next
<1>2. CASE Replace
  BY <1>2, ReplaceMaps DEF Promise!Next
<1>3. ASSUME NEW a \in Analyses, NEW p \in Policies,
             SubmitPolicyResult(a, p) \/ DispatchAnswers(a, p)
      PROVE  [Promise!Next]_(Promise!vars)
  <2>1. UNCHANGED <<prepared, quarantined, rank>>
    BY <1>3 DEF SubmitPolicyResult, DispatchAnswers
  <2>2. CASE SubmitStart(a, p)
    BY <2>1, <2>2, HearMaps
  <2>3. CASE UNCHANGED <<received, op>>
    BY <2>1, <2>3, LapseMaps DEF Consented
  <2> QED
    BY <1>3, <2>2, <2>3 DEF SubmitPolicyResult, DispatchAnswers
<1>4. ASSUME NEW a \in Analyses, NEW k \in Keys, NEW c \in Commands,
             NEW r \in Analyses \cup {Nil}, CommandStart(a, k, c, r)
      PROVE  [Promise!Next]_(Promise!vars)
  BY <1>4, ConsentMaps
<1>5. CASE Gate
  BY <1>5, GateMaps
<1>6. CASE GateRecords
  BY <1>6, RecordMaps
<1>7. CASE GateRecordFails
  BY <1>7, RecordFailsMaps
<1>8. CASE Silent
  BY <1>8, SilentMaps
<1> QED
  BY <1>1, <1>2, <1>3, <1>4, <1>5, <1>6, <1>7, <1>8 DEF Next, Continue, Silent

\* The gateway implements ReviewedIndex: the audit log, the two databases, the
\* lock, the retries and every failure between two commits are invisible in
\* what is indexed, on whose consent and over which version.
THEOREM ImplementsPromise == Spec => PromiseKept
BY PromiseInit, PromiseStep, GateInvariant, StagedAreFirst, PTL
   DEF Spec, PromiseKept, Promise!Spec
=============================================================================
