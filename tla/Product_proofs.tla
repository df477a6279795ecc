--------------------------- MODULE Product_proofs ---------------------------
(***************************************************************************)
(* The product pipeline and the process beside it, for any number of        *)
(* analyses and versions, and the git monitor. An operation carries what it *)
(* read when it began through the steps of the other process, so the        *)
(* invariants say what each operation under way knows: the row it works on, *)
(* that only an approval is on its way to the index, and, while nobody else *)
(* works on its analysis, how log and index differ until it has recorded    *)
(* its outcome.                                                             *)
(***************************************************************************)
EXTENDS ProductPipeline, GitMonitor, VersionOrder_proofs, SequenceTheorems

LogRecords ==
  [state : States, policy : Policies \cup {Nil}, request : Nat,
   received : [Requests -> Policies \cup {Nil}], answered : SUBSET Nat,
   action : Actions, quarantined : BOOLEAN, allowed : BOOLEAN]

\* What is known of an operation j, given the rows, the approvals and the log.
JobOK(j, rows, admitted, events) ==
  /\ j \in Jobs
  /\ j.pc # "idle" => j.a \in Analyses /\ rows[j.a] # Nil
  /\ j.pc \in {"receive", "judge"} => j.kind \in {"SUBMIT", "APPROVE"}
  /\ j.kind = "APPROVE" => j.a \in admitted /\ events[j.a].allowed
  /\ j.pc = "index" /\ j.action = "INDEX" => j.kind = "APPROVE"

JobsOK ==
  /\ job \in [Processes -> Jobs]
  /\ \A p \in Processes : JobOK(job[p], prepared, approved, log)

\* A row expects the version it is compared with, or an empty document.
RowsOK ==
  /\ prepared \in [Analyses -> Prepared \cup {Nil}]
  /\ \A a \in Analyses :
       prepared[a] # Nil => prepared[a].expected \in {NoSha, prepared[a].baseline}
  /\ approved \subseteq {a \in Analyses : prepared[a] # Nil}

LogsOK ==
  /\ log \in [Analyses -> LogRecords]
  /\ \A a \in Analyses :
       /\ prepared[a] = Nil => log[a].request = 0
       /\ log[a].policy = "ALLOW" => log[a].allowed

IndexOK == rank \in Tables /\ ApprovedByBoth

RuntimeInv == JobsOK /\ RowsOK /\ LogsOK /\ IndexOK

\* The scan event on its way to a row.
WatchOK ==
  /\ {file, seen} \subseteq Shas \cup {NoSha}
  /\ pc = "snapshot" => event.before \in Shas \cup {NoSha} /\ event.after \in Shas
  /\ pc \in {"prepare", "insert"} => baseline \in Shas \cup {Torn} /\ event.after \in Shas
  /\ pc = "insert" => expected \in (Shas \cup {NoSha}) \cap {NoSha, baseline}
  /\ pc \in {"request", "dispatch", "waiting", "hold"} =>
       handled \in Analyses /\ prepared[handled] # Nil

ProductInv == RuntimeInv /\ WatchOK
-----------------------------------------------------------------------------
(* What a step of one process leaves to the others *)

\* Rows, approvals and applied results are never taken back.
Kept ==
  /\ \A a \in Analyses : prepared[a] # Nil => prepared'[a] = prepared[a]
  /\ approved \subseteq approved'
  /\ \A a \in Analyses : log[a].allowed => log'[a].allowed

LEMMA JobsKept ==
  ASSUME RuntimeInv, Kept,
         NEW p \in Processes, NEW k,
         JobOK(k, prepared', approved', log'),
         job' = [job EXCEPT ![p] = k]
  PROVE  JobsOK'
<1>1. job' \in [Processes -> Jobs]
  BY DEF RuntimeInv, JobsOK, JobOK
<1>2. ASSUME NEW q \in Processes
      PROVE  JobOK(job'[q], prepared', approved', log')
  <2>1. CASE q = p
    BY <2>1 DEF RuntimeInv, JobsOK
  <2>2. CASE q # p
    <3>1. job'[q] = job[q] /\ JobOK(job[q], prepared, approved, log)
      BY <2>2 DEF RuntimeInv, JobsOK
    <3>2. job[q].kind = "APPROVE" => job[q].a \in Analyses
      BY <3>1 DEF JobOK, RuntimeInv, RowsOK
    <3> QED
      BY <3>1, <3>2 DEF JobOK, Kept
  <2> QED
    BY <2>1, <2>2
<1> QED
  BY <1>1, <1>2 DEF JobsOK

LEMMA ApprovalsKept ==
  ASSUME RuntimeInv, Kept, Stored(rank') \subseteq Stored(rank)
  PROVE  ApprovedByBoth'
BY DEF RuntimeInv, IndexOK, RowsOK, Kept, ApprovedByBoth

\* Beginning an operation.
LEMMA BeginInv ==
  ASSUME RuntimeInv, NEW p \in Processes, NEW j, Begin(p, j),
         UNCHANGED <<rank, prepared, log>>,
         approved \subseteq approved',
         approved' \subseteq {a \in Analyses : prepared[a] # Nil},
         JobOK(j, prepared', approved', log')
  PROVE  RuntimeInv'
<1>1. Kept
  BY DEF Kept
<1>2. JobsOK'
  BY <1>1, JobsKept DEF Begin
<1>3. RowsOK' /\ LogsOK'
  BY DEF RuntimeInv, RowsOK, LogsOK
<1>4. IndexOK'
  BY <1>1, ApprovalsKept DEF RuntimeInv, IndexOK
<1> QED
  BY <1>2, <1>3, <1>4 DEF RuntimeInv

\* Appending to the log of one analysis, and going on.
LEMMA AppendInv ==
  ASSUME RuntimeInv, NEW a \in Analyses, NEW l \in LogRecords,
         prepared[a] # Nil,
         log' = [log EXCEPT ![a] = l],
         log[a].allowed \/ l.policy = "ALLOW" => l.allowed,
         UNCHANGED <<rank, prepared, approved>>,
         \/ job' = job
         \/ \E p \in Processes :
               \E k : /\ JobOK(k, prepared', approved', log')
                     /\ job' = [job EXCEPT ![p] = k]
  PROVE  RuntimeInv'
<1>1. Kept
  BY DEF Kept, RuntimeInv, LogsOK
<1>2. JobsOK'
  <2>1. CASE job' = job
    <3>1. ASSUME NEW q \in Processes
          PROVE  JobOK(job[q], prepared', approved', log')
      BY <1>1 DEF Kept, JobOK, RuntimeInv, JobsOK, RowsOK
    <3> QED
      BY <2>1, <3>1 DEF RuntimeInv, JobsOK
  <2>2. CASE job' # job
    BY <2>2, <1>1, JobsKept
  <2> QED
    BY <2>1, <2>2
<1>3. RowsOK'
  BY DEF RuntimeInv, RowsOK
<1>4. LogsOK'
  BY DEF RuntimeInv, LogsOK
<1>5. IndexOK'
  BY <1>1, ApprovalsKept DEF RuntimeInv, IndexOK
<1> QED
  BY <1>2, <1>3, <1>4, <1>5 DEF RuntimeInv
-----------------------------------------------------------------------------
(* Beginnings *)

LEMMA RequestStartInv ==
  ASSUME RuntimeInv, NEW p \in Processes, NEW a \in Analyses, RequestStart(p, a)
  PROVE  RuntimeInv'
<1> DEFINE j == [NoJob EXCEPT !.kind = "REQUEST", !.pc = "request", !.a = a]
<1>1. j \in Jobs /\ j.kind = "REQUEST" /\ j.pc = "request" /\ j.a = a
  BY DEF NoJob, Jobs, Kinds, Actions
<1>2. Begin(p, j) /\ prepared[a] # Nil /\ UNCHANGED <<rank, prepared, log, approved>>
  BY DEF RequestStart
<1>3. JobOK(j, prepared', approved', log')
  BY <1>1, <1>2 DEF JobOK
<1> HIDE DEF j
<1> QED
  BY <1>2, <1>3, BeginInv DEF RuntimeInv, RowsOK

LEMMA SubmitStartInv ==
  ASSUME RuntimeInv, NEW p \in Processes, NEW a \in Analyses, NEW r \in Nat,
         NEW policy \in Policies, SubmitStart(p, a, r, policy)
  PROVE  RuntimeInv'
<1> DEFINE j == [NoJob EXCEPT !.kind = "SUBMIT", !.a = a, !.req = r, !.policy = policy,
                              !.pc = IF log[a].received[r] = Nil THEN "receive" ELSE "judge"]
<1>1. j \in Jobs /\ j.kind = "SUBMIT" /\ j.pc \in {"receive", "judge"} /\ j.a = a
  BY DEF NoJob, Jobs, Kinds, Actions
<1>2. Begin(p, j) /\ UNCHANGED <<rank, prepared, log, approved>>
  BY DEF SubmitStart
<1>3. prepared[a] # Nil
  BY DEF SubmitStart, Admissible, RuntimeInv, LogsOK
<1>4. JobOK(j, prepared', approved', log')
  BY <1>1, <1>2, <1>3 DEF JobOK
<1> HIDE DEF j
<1> QED
  BY <1>2, <1>4, BeginInv DEF RuntimeInv, RowsOK

LEMMA ApproveStartInv ==
  ASSUME RuntimeInv, NEW p \in Processes, NEW a \in Analyses, ApproveStart(p, a)
  PROVE  RuntimeInv'
<1> DEFINE j == [NoJob EXCEPT !.kind = "APPROVE", !.pc = "judge", !.a = a, !.policy = "ALLOW"]
<1>1. j \in Jobs /\ j.kind = "APPROVE" /\ j.pc = "judge" /\ j.a = a
  BY DEF NoJob, Jobs, Kinds, Actions, Policies
<1>2. /\ Begin(p, j) /\ prepared[a] # Nil /\ log[a].policy = "ALLOW"
      /\ approved' = approved \cup {a} /\ UNCHANGED <<rank, prepared, log>>
  BY DEF ApproveStart
<1>3. JobOK(j, prepared', approved', log')
  BY <1>1, <1>2 DEF JobOK, RuntimeInv, LogsOK
<1> HIDE DEF j
<1> QED
  BY <1>2, <1>3, BeginInv DEF RuntimeInv, RowsOK

LEMMA HoldStartInv ==
  ASSUME RuntimeInv, NEW p \in Processes, NEW a \in Analyses, prepared[a] # Nil,
         HoldStart(p, a) \/ UnavailableStart(p, a)
  PROVE  RuntimeInv'
<1> PICK kind \in {"HOLD", "UNAVAILABLE"} :
      Begin(p, [NoJob EXCEPT !.kind = kind, !.pc = "index", !.a = a, !.action = "HOLD"])
  BY DEF HoldStart, UnavailableStart
<1> DEFINE j == [NoJob EXCEPT !.kind = kind, !.pc = "index", !.a = a, !.action = "HOLD"]
<1>1. j \in Jobs /\ j.kind # "APPROVE" /\ j.pc = "index" /\ j.action = "HOLD" /\ j.a = a
  BY DEF NoJob, Jobs, Kinds, Actions
<1>2. UNCHANGED <<rank, prepared, log, approved>>
  BY DEF HoldStart, UnavailableStart
<1>3. JobOK(j, prepared', approved', log')
  BY <1>1, <1>2 DEF JobOK
<1> QED
  BY <1>2, <1>3, BeginInv DEF RuntimeInv, RowsOK
-----------------------------------------------------------------------------
(* The steps under way *)

\* The operation of p, with its row and its type.
LEMMA JobRow ==
  ASSUME RuntimeInv, NEW p \in Processes, job[p].pc # "idle"
  PROVE  /\ job[p] \in Jobs /\ JobOK(job[p], prepared, approved, log)
         /\ job[p].a \in Analyses
         /\ prepared[job[p].a] # Nil /\ prepared[job[p].a] \in Prepared
         /\ prepared[job[p].a].cand \in Shas
         /\ log[job[p].a] \in LogRecords
<1>1. job[p] \in Jobs /\ JobOK(job[p], prepared, approved, log)
  BY DEF RuntimeInv, JobsOK
<1>2. job[p].a \in Analyses /\ prepared[job[p].a] # Nil
  BY <1>1 DEF JobOK
<1> QED
  BY <1>1, <1>2 DEF RuntimeInv, RowsOK, LogsOK, Prepared

\* An operation that ends needs to know nothing.
LEMMA NoJobOK ==
  \A rows, admitted, events : JobOK(NoJob, rows, admitted, events)
BY DEF JobOK, NoJob, Jobs, Kinds, Actions

LEMMA RequestAppendInv ==
  ASSUME RuntimeInv, NEW p \in Processes, RequestAppend(p)
  PROVE  RuntimeInv'
<1> DEFINE a == job[p].a
           l == [log[a] EXCEPT !.request = @ + 1, !.state = "ANALYSIS_REQUESTED"]
<1>1. a \in Analyses /\ prepared[a] # Nil /\ log[a] \in LogRecords
  BY JobRow DEF RequestAppend
<1>2. l \in LogRecords /\ l.policy = log[a].policy /\ l.allowed = log[a].allowed
  <2>1. log[a].request + 1 \in Nat /\ "ANALYSIS_REQUESTED" \in States
    BY <1>1 DEF LogRecords, States
  <2> DEFINE n == log[a].request + 1
  <2>2. l = [log[a] EXCEPT !.request = n, !.state = "ANALYSIS_REQUESTED"]
    OBVIOUS
  <2> HIDE DEF n, a
  <2>3. [log[a] EXCEPT !.request = n, !.state = "ANALYSIS_REQUESTED"] \in LogRecords
    BY <1>1, <2>1 DEF LogRecords, n
  <2> QED
    BY <1>1, <2>2, <2>3 DEF LogRecords
<1>3. log' = [log EXCEPT ![a] = l]
  BY <1>1 DEF RequestAppend, Requested, RuntimeInv, LogsOK
<1>4. log[a].allowed \/ l.policy = "ALLOW" => l.allowed
  BY <1>1, <1>2 DEF RuntimeInv, LogsOK
<1>5. \E q \in Processes : \E k : /\ JobOK(k, prepared', approved', log')
                              /\ job' = [job EXCEPT ![q] = k]
  BY NoJobOK DEF RequestAppend, Ends
<1> HIDE DEF l, a
<1> QED
  BY <1>1, <1>2, <1>3, <1>4, <1>5, AppendInv DEF RequestAppend

LEMMA ReceiveInv ==
  ASSUME RuntimeInv, NEW p \in Processes, Receive(p)
  PROVE  RuntimeInv'
<1> DEFINE a == job[p].a
           l == [log[a] EXCEPT !.received[job[p].req] = job[p].policy]
           k == [job[p] EXCEPT !.pc = "judge"]
<1>1. /\ a \in Analyses /\ prepared[a] # Nil /\ log[a] \in LogRecords
      /\ job[p] \in Jobs /\ JobOK(job[p], prepared, approved, log)
  BY JobRow DEF Receive
<1>2. l \in LogRecords /\ l.policy = log[a].policy /\ l.allowed = log[a].allowed
  <2> DEFINE now == [log[a].received EXCEPT ![job[p].req] = job[p].policy]
  <2>1. job[p].policy \in Policies \cup {Nil}
    BY <1>1 DEF Jobs
  <2>2. now \in [Requests -> Policies \cup {Nil}]
    BY <1>1, <2>1 DEF LogRecords
  <2>3. l = [log[a] EXCEPT !.received = now]
    OBVIOUS
  <2> HIDE DEF now
  <2> QED
    BY <1>1, <2>2, <2>3 DEF LogRecords
<1>3. log' = [log EXCEPT ![a] = l] /\ job' = [job EXCEPT ![p] = k]
  BY <1>1 DEF Receive, ReceivedFor, Goes, RuntimeInv, LogsOK, JobsOK
<1>4. log[a].allowed \/ l.policy = "ALLOW" => l.allowed
  BY <1>1, <1>2 DEF RuntimeInv, LogsOK
<1>5. k \in Jobs /\ k.pc = "judge" /\ k.a = a /\ k.kind = job[p].kind
  BY <1>1 DEF Jobs
<1>6. log'[a].allowed = log[a].allowed /\ UNCHANGED <<prepared, approved>>
  BY <1>1, <1>2, <1>3 DEF Receive, RuntimeInv, LogsOK
<1>7. JobOK(k, prepared', approved', log')
  BY <1>1, <1>5, <1>6 DEF JobOK, Receive
<1> HIDE DEF l, a, k
<1> QED
  BY <1>1, <1>2, <1>3, <1>4, <1>7, AppendInv DEF Receive

\* Only an approval leaves the log's reading with INDEX.
LEMMA JudgeInv ==
  ASSUME RuntimeInv, NEW p \in Processes, Judge(p)
  PROVE  RuntimeInv'
<1>1. /\ job[p] \in Jobs /\ JobOK(job[p], prepared, approved, log)
      /\ job[p].pc = "judge" /\ UNCHANGED <<rank, prepared, log, approved>>
  BY JobRow DEF Judge
<1>2. PICK action \in {"QUARANTINE", "HOLD", "INDEX"} :
        /\ job' = [job EXCEPT ![p] = [job[p] EXCEPT !.pc = "index", !.action = action]]
        /\ action = "INDEX" => job[p].kind # "SUBMIT"
  BY DEF Judge, RuntimeInv, JobsOK
<1> DEFINE k == [job[p] EXCEPT !.pc = "index", !.action = action]
<1>3. k \in Jobs /\ k.pc = "index" /\ k.action = action /\ k.a = job[p].a /\ k.kind = job[p].kind
  BY <1>1, <1>2 DEF Jobs, Actions
<1>4. JobOK(k, prepared', approved', log')
  BY <1>1, <1>2, <1>3 DEF JobOK
<1> HIDE DEF k
<1>5. Kept
  BY <1>1 DEF Kept
<1>6. JobsOK'
  BY <1>2, <1>4, <1>5, JobsKept DEF k
<1>7. RowsOK' /\ LogsOK' /\ IndexOK'
  BY <1>1, <1>5, ApprovalsKept DEF RuntimeInv, RowsOK, LogsOK, IndexOK
<1> QED
  BY <1>6, <1>7 DEF RuntimeInv

\* A step of an operation that has left the gate, on the table.
LEMMA GateStepInv ==
  ASSUME RuntimeInv, NEW p \in Processes, job[p].pc = "index",
         UNCHANGED <<prepared, log, approved>>,
         rank' \in Tables, ApprovedByBoth',
         NEW action \in Actions,
         job' = [job EXCEPT ![p] = [job[p] EXCEPT !.pc = "record", !.action = action]]
  PROVE  RuntimeInv'
<1> DEFINE k == [job[p] EXCEPT !.pc = "record", !.action = action]
<1>1. job[p] \in Jobs /\ JobOK(job[p], prepared, approved, log)
  BY JobRow
<1>2. k \in Jobs /\ k.pc = "record" /\ k.a = job[p].a /\ k.kind = job[p].kind
  BY <1>1 DEF Jobs
<1>3. JobOK(k, prepared', approved', log')
  BY <1>1, <1>2 DEF JobOK
<1>4. Kept
  BY DEF Kept
<1>5. job' = [job EXCEPT ![p] = k]
  OBVIOUS
<1> HIDE DEF k
<1>6. JobsOK'
  BY <1>3, <1>4, <1>5, JobsKept
<1>7. RowsOK' /\ LogsOK' /\ IndexOK'
  BY DEF RuntimeInv, RowsOK, LogsOK, IndexOK
<1> QED
  BY <1>6, <1>7 DEF RuntimeInv

LEMMA RemovesInv ==
  ASSUME RuntimeInv, NEW p \in Processes, Removes(p)
  PROVE  RuntimeInv'
<1>1. prepared[job[p].a].cand \in Shas /\ job[p] \in Jobs
  BY JobRow DEF Removes
<1>2. rank' \in Tables /\ Stored(rank') \subseteq Stored(rank)
  BY <1>1, DropStored DEF Removes, RuntimeInv, IndexOK
<1>3. ApprovedByBoth'
  BY <1>2, ApprovalsKept DEF Removes, Kept
<1>4. job' = [job EXCEPT ![p] = [job[p] EXCEPT !.pc = "record", !.action = job[p].action]]
  BY <1>1 DEF Removes, Goes, RuntimeInv, JobsOK, Jobs
<1>5. job[p].action \in Actions
  BY <1>1 DEF Jobs
<1> QED
  BY <1>2, <1>3, <1>4, <1>5, GateStepInv DEF Removes

\* What is put into the index was approved, and its result was ALLOW.
LEMMA IndexesInv ==
  ASSUME RuntimeInv, NEW p \in Processes, Indexes(p)
  PROVE  RuntimeInv'
<1> DEFINE a == job[p].a
<1>1. /\ prepared[a].cand \in Shas /\ job[p] \in Jobs
      /\ JobOK(job[p], prepared, approved, log)
  BY JobRow DEF Indexes
<1>2. rank' \in Tables /\ Stored(rank') = Stored(rank) \cup {prepared[a].cand}
  BY <1>1, PutStored DEF Indexes, RuntimeInv, IndexOK
<1>3. a \in approved /\ log[a].allowed
  BY <1>1 DEF JobOK, Indexes
<1>4. ApprovedByBoth'
  BY <1>2, <1>3 DEF Indexes, RuntimeInv, IndexOK, ApprovedByBoth
<1>5. job' = [job EXCEPT ![p] = [job[p] EXCEPT !.pc = "record", !.action = job[p].action]]
  BY <1>1 DEF Indexes, Goes, RuntimeInv, JobsOK, Jobs
<1>6. job[p].action \in Actions
  BY <1>1 DEF Jobs
<1> QED
  BY <1>2, <1>4, <1>5, <1>6, GateStepInv DEF Indexes

LEMMA StaleInv ==
  ASSUME RuntimeInv, NEW p \in Processes, Stale(p)
  PROVE  RuntimeInv'
<1>1. job' = [job EXCEPT ![p] = [job[p] EXCEPT !.pc = "record", !.action = "QUARANTINE"]]
  BY DEF Stale, RuntimeInv, JobsOK
<1>2. rank' \in Tables /\ ApprovedByBoth'
  BY DEF Stale, RuntimeInv, IndexOK, ApprovedByBoth
<1> QED
  BY <1>1, <1>2, GateStepInv DEF Stale, Actions

LEMMA StateType ==
  ASSUME NEW action \in Actions, NEW policy
  PROVE  StateFor(action, policy) \in States
BY DEF StateFor, States, Actions

\* The outcome is recorded, and what was allowed stays so.
LEMMA RecordInv ==
  ASSUME RuntimeInv, NEW p \in Processes, Record(p)
  PROVE  RuntimeInv'
<1> DEFINE a == job[p].a
           act == job[p].action
           st == StateFor(act, log[a].policy)
           q == log[a].quarantined \/ act = "QUARANTINE"
           l == [log[a] EXCEPT !.state = st, !.action = act, !.quarantined = q]
           k == [job[p] EXCEPT !.pc = "finish"]
<1>1. /\ a \in Analyses /\ prepared[a] # Nil /\ log[a] \in LogRecords
      /\ job[p] \in Jobs /\ JobOK(job[p], prepared, approved, log) /\ act \in Actions
  BY JobRow DEF Record, Jobs
<1>2. st \in States /\ q \in BOOLEAN
  BY <1>1, StateType
<1>3. log' = [log EXCEPT ![a] = l]
  BY <1>1 DEF Record, GateApplied, RuntimeInv, LogsOK
<1>4. l \in LogRecords /\ l.policy = log[a].policy /\ l.allowed = log[a].allowed
  <2> HIDE DEF st, q, act, a
  <2> QED
    BY <1>1, <1>2 DEF LogRecords
<1>5. log[a].allowed \/ l.policy = "ALLOW" => l.allowed
  BY <1>1, <1>4 DEF RuntimeInv, LogsOK
<1>6. k \in Jobs /\ k.pc = "finish" /\ k.a = a /\ k.kind = job[p].kind
  BY <1>1 DEF Jobs
<1>7. log'[a].allowed = log[a].allowed /\ UNCHANGED <<rank, prepared, approved>>
  <2> HIDE DEF l
  <2> QED
    BY <1>1, <1>3, <1>4 DEF Record, RuntimeInv, LogsOK
<1>8. JobOK(k, prepared', approved', log')
  BY <1>1, <1>6, <1>7 DEF JobOK
<1>9. job' = [job EXCEPT ![p] = NoJob] \/ job' = [job EXCEPT ![p] = k]
  BY DEF Record, Ends, Goes, RuntimeInv, JobsOK
<1>10. \E r \in Processes : \E j : /\ JobOK(j, prepared', approved', log')
                               /\ job' = [job EXCEPT ![r] = j]
  <2> HIDE DEF k
  <2> QED
    BY <1>8, <1>9, NoJobOK
<1> HIDE DEF l, a
<1> QED
  BY <1>1, <1>3, <1>4, <1>5, <1>7, <1>10, AppendInv

\* A result is applied, a command completed.
LEMMA FinishInv ==
  ASSUME RuntimeInv, NEW p \in Processes, Finish(p)
  PROVE  RuntimeInv'
<1> DEFINE a == job[p].a
           policy == job[p].policy
<1>1. /\ a \in Analyses /\ prepared[a] # Nil /\ log[a] \in LogRecords
      /\ job[p] \in Jobs /\ policy \in Policies \cup {Nil} /\ job[p].req \in Nat
      /\ job[p].action \in Actions
  BY JobRow DEF Finish, Jobs
<1>2. UNCHANGED <<rank, prepared, approved>> /\ job' = [job EXCEPT ![p] = NoJob]
  BY DEF Finish, Ends
<1>3. PICK l \in LogRecords :
        /\ log' = [log EXCEPT ![a] = l]
        /\ log[a].allowed \/ l.policy = "ALLOW" => l.allowed
  <2>1. CASE job[p].kind = "SUBMIT"
    <3> DEFINE st == StateFor(job[p].action, policy)
               ans == log[a].answered \cup {job[p].req}
               alw == log[a].allowed \/ policy = "ALLOW"
               l == [log[a] EXCEPT !.state = st, !.policy = policy,
                                   !.answered = ans, !.allowed = alw]
    <3>1. st \in States /\ ans \in SUBSET Nat /\ alw \in BOOLEAN
      BY <1>1, StateType DEF LogRecords
    <3>2. log' = [log EXCEPT ![a] = l]
      BY <1>1, <2>1 DEF Finish, Applied, RuntimeInv, LogsOK
    <3>3. l \in LogRecords /\ l.policy = policy /\ l.allowed = alw
      <4> HIDE DEF st, ans, alw, policy, a
      <4> QED
        BY <1>1, <3>1 DEF LogRecords
    <3> QED
      BY <3>2, <3>3
  <2>2. CASE job[p].kind # "SUBMIT"
    <3>1. log[a].policy = "ALLOW" => log[a].allowed
      BY <1>1 DEF RuntimeInv, LogsOK
    <3>2. CASE job[p].kind = "HOLD"
      <4> DEFINE l == [log[a] EXCEPT !.state = "HOLD"]
      <4>1. log' = [log EXCEPT ![a] = l]
        BY <1>1, <2>2, <3>2 DEF Finish, Completed, RuntimeInv, LogsOK
      <4>2. l \in LogRecords /\ l.policy = log[a].policy /\ l.allowed = log[a].allowed
        BY <1>1 DEF LogRecords, States
      <4> QED
        BY <3>1, <4>1, <4>2
    <3>3. CASE job[p].kind # "HOLD"
      <4>1. log' = log
        BY <2>2, <3>3 DEF Finish, Completed
      <4> QED
        BY <1>1, <3>1, <4>1 DEF RuntimeInv, LogsOK
    <3> QED
      BY <3>2, <3>3
  <2> QED
    BY <2>1, <2>2
<1>4. \E q \in Processes : \E k : /\ JobOK(k, prepared', approved', log')
                              /\ job' = [job EXCEPT ![q] = k]
  BY <1>2, NoJobOK
<1> QED
  BY <1>1, <1>2, <1>3, <1>4, AppendInv

LEMMA ContinueInv ==
  ASSUME RuntimeInv, NEW p \in Processes, Continue(p)
  PROVE  RuntimeInv'
BY RequestAppendInv, ReceiveInv, JudgeInv, RemovesInv, IndexesInv, StaleInv,
   RecordInv, FinishInv DEF Continue

LEMMA RuntimeStutterInv ==
  RuntimeInv /\ UNCHANGED runtimeVars => RuntimeInv'
<1> SUFFICES ASSUME RuntimeInv, UNCHANGED runtimeVars PROVE RuntimeInv'
  OBVIOUS
<1> USE DEF runtimeVars
<1>1. JobsOK'
  BY DEF RuntimeInv, JobsOK
<1>2. RowsOK' /\ LogsOK' /\ IndexOK'
  BY DEF RuntimeInv, RowsOK, LogsOK, IndexOK, ApprovedByBoth
<1> QED
  BY <1>1, <1>2 DEF RuntimeInv
-----------------------------------------------------------------------------
(* poll_once, and the process beside it *)

LEMMA ProductInitInv ==
  Init => ProductInv
<1> SUFFICES ASSUME Init PROVE ProductInv
  OBVIOUS
<1>1. /\ RuntimeInit /\ file \in Shas \cup {NoSha} /\ seen = NoSha /\ pc \in {"idle"}
  BY DEF Init
<1>2. JobsOK
  <2>1. NoJob \in Jobs
    BY DEF NoJob, Jobs, Kinds, Actions
  <2> QED
    BY <1>1, <2>1, NoJobOK DEF RuntimeInit, JobsOK
<1>3. RowsOK
  BY <1>1 DEF RuntimeInit, RowsOK
<1>4. LogsOK
  <2>1. NoEvents \in LogRecords /\ NoEvents.request = 0 /\ NoEvents.policy = Nil
    BY DEF NoEvents, LogRecords, States, Actions
  <2>2. Nil # "ALLOW"
    BY NilAssumption DEF Policies
  <2> QED
    BY <1>1, <2>1, <2>2 DEF RuntimeInit, LogsOK
<1>5. IndexOK
  BY <1>1 DEF RuntimeInit, IndexOK, ApprovedByBoth, NoVersions, Stored, Tables
<1> QED
  BY <1>1, <1>2, <1>3, <1>4, <1>5 DEF ProductInv, RuntimeInv, WatchOK

\* The steps of poll_once that leave the runtime alone.
LEMMA PollInv ==
  ASSUME ProductInv, UNCHANGED runtimeVars,
         \/ FileEdit \/ Scan \/ PollBreaks \/ StoreSnapshot \/ SnapshotFails
         \/ PrepareRead \/ NoAnalyzer \/ Dispatch
  PROVE  ProductInv'
<1>1. RuntimeInv'
  BY RuntimeStutterInv DEF ProductInv
<1> USE DEF ProductInv, WatchOK, runtimeVars
<1>2. CASE FileEdit
  BY <1>1, <1>2 DEF FileEdit
<1>3. CASE Scan
  BY <1>1, <1>3 DEF Scan
<1>4. CASE PollBreaks \/ SnapshotFails \/ NoAnalyzer
  BY <1>1, <1>4 DEF PollBreaks, SnapshotFails, NoAnalyzer, EventDone
<1>5. CASE StoreSnapshot
  <2>1. ComparedWith \in Shas \cup {Torn}
    BY <1>5 DEF StoreSnapshot, ComparedWith
  <2> QED
    BY <1>1, <1>5, <2>1 DEF StoreSnapshot, EventDone
<1>6. CASE PrepareRead
  BY <1>1, <1>6 DEF PrepareRead, EventDone
<1>7. CASE Dispatch
  BY <1>1, <1>7 DEF Dispatch
<1> QED
  BY <1>2, <1>3, <1>4, <1>5, <1>6, <1>7

\* The row that is inserted expects what its content is compared with.
LEMMA PrepareInsertInv ==
  ASSUME ProductInv, PrepareInsert
  PROVE  ProductInv'
<1>1. PICK a \in Analyses :
        /\ prepared[a] = Nil /\ handled' = a
        /\ prepared' = [prepared EXCEPT ![a] =
             [baseline |-> baseline, cand |-> event.after, expected |-> expected]]
  BY DEF PrepareInsert
<1> DEFINE row == [baseline |-> baseline, cand |-> event.after, expected |-> expected]
<1>2. /\ row \in Prepared /\ row # Nil
      /\ row.expected \in {NoSha, row.baseline}
  BY NilAssumption DEF PrepareInsert, ProductInv, WatchOK, Prepared
<1>3. UNCHANGED <<rank, log, job, approved, file, seen>> /\ pc' = "request"
  BY DEF PrepareInsert
<1> HIDE DEF row
<1>4. prepared' = [prepared EXCEPT ![a] = row]
  BY <1>1 DEF row
<1>5. Kept
  BY <1>1, <1>3, <1>4 DEF Kept, ProductInv, RuntimeInv, RowsOK
<1>6. RowsOK' /\ prepared'[a] # Nil
  BY <1>2, <1>3, <1>4, <1>5 DEF ProductInv, RuntimeInv, RowsOK
<1>7. LogsOK'
  BY <1>1, <1>3, <1>4 DEF ProductInv, RuntimeInv, LogsOK, RowsOK
<1>8. JobsOK'
  <2>1. ASSUME NEW p \in Processes
        PROVE  JobOK(job[p], prepared', approved', log')
    BY <1>3, <1>5 DEF Kept, JobOK, ProductInv, RuntimeInv, JobsOK
  <2> QED
    BY <1>3, <2>1 DEF ProductInv, RuntimeInv, JobsOK
<1>9. IndexOK'
  BY <1>3, <1>5, ApprovalsKept DEF ProductInv, RuntimeInv, IndexOK
<1>10. WatchOK'
  BY <1>1, <1>3, <1>6 DEF ProductInv, WatchOK
<1> QED
  BY <1>6, <1>7, <1>8, <1>9, <1>10 DEF ProductInv, RuntimeInv

LEMMA HandledInv ==
  ASSUME ProductInv,
         PrepareRequest \/ DispatchAnswers \/ DispatchFails \/ HoldUnavailable
  PROVE  ProductInv'
<1>1. /\ RuntimeInv /\ handled \in Analyses /\ prepared[handled] # Nil
      /\ Watch \in Processes /\ log[handled] \in LogRecords
  BY ProductAssumption DEF ProductInv, WatchOK, RuntimeInv, LogsOK,
                           PrepareRequest, DispatchAnswers, DispatchFails, HoldUnavailable
<1>2. CASE PrepareRequest
  <2>1. RuntimeInv' /\ prepared' = prepared
    BY <1>1, <1>2, RequestStartInv, RuntimeStutterInv
       DEF PrepareRequest, RequestStart, runtimeVars
  <2>2. WatchOK'
    BY <1>2, <2>1 DEF PrepareRequest, ProductInv, WatchOK
  <2> QED
    BY <2>1, <2>2 DEF ProductInv
<1>3. CASE DispatchAnswers
  <2>1. PICK policy \in Answers :
          IF Admissible(handled, asked, policy)
          THEN SubmitStart(Watch, handled, asked, policy)
          ELSE UNCHANGED runtimeVars
    BY <1>3 DEF DispatchAnswers
  <2>2. Admissible(handled, asked, policy) => asked \in Nat
    BY <1>1 DEF Admissible, LogRecords
  <2>3. policy \in Policies
    BY ProductAssumption
  <2>4. RuntimeInv' /\ prepared' = prepared
    BY <1>1, <2>1, <2>2, <2>3, SubmitStartInv, RuntimeStutterInv DEF SubmitStart, runtimeVars
  <2>5. WatchOK'
    BY <1>3 DEF DispatchAnswers, EventDone, ProductInv, WatchOK
  <2> QED
    BY <2>4, <2>5 DEF ProductInv
<1>4. CASE DispatchFails
  <2> DEFINE l == [log[handled] EXCEPT !.state = "ANALYSIS_FAILED"]
  <2>1. log' = [log EXCEPT ![handled] = l]
    BY <1>4 DEF DispatchFails, DispatchFailed, ProductInv, RuntimeInv, LogsOK
  <2>2. l \in LogRecords /\ l.policy = log[handled].policy /\ l.allowed = log[handled].allowed
    BY <1>1 DEF LogRecords, States
  <2>3. log[handled].allowed \/ l.policy = "ALLOW" => l.allowed
    BY <1>1, <2>2 DEF RuntimeInv, LogsOK
  <2>4. UNCHANGED <<rank, prepared, job, approved>>
    BY <1>4 DEF DispatchFails
  <2> HIDE DEF l
  <2>5. RuntimeInv'
    BY <1>1, <2>1, <2>2, <2>3, <2>4, AppendInv
  <2>6. WatchOK'
    BY <1>4 DEF DispatchFails, ProductInv, WatchOK
  <2> QED
    BY <2>5, <2>6 DEF ProductInv
<1>5. CASE HoldUnavailable
  <2>1. RuntimeInv'
    BY <1>1, <1>5, HoldStartInv DEF HoldUnavailable
  <2>2. WatchOK'
    BY <1>5 DEF HoldUnavailable, EventDone, ProductInv, WatchOK
  <2> QED
    BY <2>1, <2>2 DEF ProductInv
<1> QED
  BY <1>2, <1>3, <1>4, <1>5

LEMMA DeskInv ==
  ASSUME ProductInv, DeskOperates
  PROVE  ProductInv'
<1>1. PICK a \in Analyses : BCalls(a) \/ CCalls(a)
  BY DEF DeskOperates
<1>2. RuntimeInv /\ Desk \in Processes /\ log[a].request \in Nat
  BY ProductAssumption DEF ProductInv, RuntimeInv, LogsOK, LogRecords
<1>3. RuntimeInv' /\ prepared' = prepared
  <2>1. CASE RequestStart(Desk, a)
    BY <1>2, <2>1, RequestStartInv DEF RequestStart
  <2>2. ASSUME NEW policy \in Answers, SubmitStart(Desk, a, log[a].request, policy)
        PROVE  RuntimeInv' /\ prepared' = prepared
    BY <1>2, <2>2, ProductAssumption, SubmitStartInv DEF SubmitStart
  <2>3. CASE ApproveStart(Desk, a)
    BY <1>2, <2>3, ApproveStartInv DEF ApproveStart
  <2>4. CASE HoldStart(Desk, a)
    BY <1>2, <2>4, HoldStartInv DEF HoldStart
  <2> QED
    BY <1>1, <2>1, <2>2, <2>3, <2>4 DEF BCalls, CCalls
<1>4. WatchOK'
  BY <1>3 DEF DeskOperates, ProductInv, WatchOK
<1> QED
  BY <1>3, <1>4 DEF ProductInv

LEMMA ProductNextInv ==
  ProductInv /\ [Next]_vars => ProductInv'
<1> SUFFICES ASSUME ProductInv, [Next]_vars PROVE ProductInv'
  OBVIOUS
<1>1. CASE \/ FileEdit \/ Scan \/ PollBreaks \/ StoreSnapshot \/ SnapshotFails
           \/ PrepareRead \/ NoAnalyzer \/ Dispatch
  <2>1. UNCHANGED runtimeVars
    BY <1>1 DEF FileEdit, Scan, PollBreaks, StoreSnapshot, SnapshotFails,
                PrepareRead, NoAnalyzer, Dispatch
  <2> QED
    BY <1>1, <2>1, PollInv
<1>2. CASE PrepareInsert
  BY <1>2, PrepareInsertInv
<1>3. CASE PrepareRequest \/ DispatchAnswers \/ DispatchFails \/ HoldUnavailable
  BY <1>3, HandledInv
<1>4. CASE DeskOperates
  BY <1>4, DeskInv
<1>5. CASE Operates
  <2>1. PICK p \in Processes : Continue(p)
    BY <1>5 DEF Operates
  <2>2. RuntimeInv' /\ prepared' = prepared
    BY <2>1, ContinueInv DEF ProductInv, Continue, RequestAppend, Receive, Judge,
                             Removes, Indexes, Stale, Record, Finish
  <2>3. WatchOK'
    BY <1>5, <2>2 DEF Operates, watchVars, ProductInv, WatchOK
  <2> QED
    BY <2>2, <2>3 DEF ProductInv
<1>6. CASE UNCHANGED <<runtimeVars, watchVars>>
  <2>1. RuntimeInv'
    BY <1>6, RuntimeStutterInv DEF ProductInv
  <2>2. WatchOK'
    BY <1>6 DEF runtimeVars, watchVars, ProductInv, WatchOK
  <2> QED
    BY <2>1, <2>2 DEF ProductInv
<1> QED
  BY <1>1, <1>2, <1>3, <1>4, <1>5, <1>6 DEF Next, vars

LEMMA ProductInvariant == Spec => []ProductInv
BY ProductInitInv, ProductNextInv, PTL DEF Spec
-----------------------------------------------------------------------------
(* The theorems *)

\* For any number of analyses and versions, and whatever the two processes do
\* between each other's reads and commits: what is in the index was approved,
\* for an analysis whose result was ALLOW.
THEOREM IndexedIsApproved == Spec => []ApprovedByBoth
<1>1. ProductInv => ApprovedByBoth
  BY DEF ProductInv, RuntimeInv, IndexOK
<1> QED
  BY <1>1, ProductInvariant, PTL

\* Only index_atomic's own commit takes an operation from the gate's decision
\* INDEX to its record.
LEMMA OnlyIndexesCommits ==
  ASSUME ProductInv, [Next]_vars, NEW p \in Processes,
         job[p].pc = "index", job[p].action = "INDEX",
         job'[p].action = "INDEX", job'[p].pc = "record"
  PROVE  Indexes(p)
<1>1. job' # job /\ job \in [Processes -> Jobs]
  BY DEF ProductInv, RuntimeInv, JobsOK
<1>2. ASSUME NEW q \in Processes, Continue(q)
      PROVE  q = p /\ Indexes(p)
  <2>1. q = p
    BY <1>1, <1>2 DEF Continue, RequestAppend, Receive, Judge, Removes, Indexes,
                      Stale, Record, Finish, Ends, Goes
  <2>2. ~RequestAppend(p) /\ ~Receive(p) /\ ~Judge(p) /\ ~Removes(p) /\ ~Record(p) /\ ~Finish(p)
    BY DEF RequestAppend, Receive, Judge, Removes, Record, Finish
  <2>3. ~Stale(p)
    BY <1>1 DEF Stale, Jobs
  <2> QED
    BY <1>2, <2>1, <2>2, <2>3 DEF Continue
<1>3. ASSUME NEW q, NEW j, Begin(q, j)
      PROVE  FALSE
  BY <1>1, <1>3 DEF Begin, NoJob
<1>4. Operates
  BY <1>1, <1>3
     DEF Next, vars, runtimeVars, FileEdit, Scan, PollBreaks, StoreSnapshot,
         SnapshotFails, PrepareRead, PrepareInsert, PrepareRequest, NoAnalyzer, Dispatch,
         DispatchAnswers, DispatchFails, HoldUnavailable, DeskOperates, BCalls, CCalls,
         RequestStart, SubmitStart, ApproveStart, HoldStart, UnavailableStart
<1> QED
  BY <1>2, <1>4 DEF Operates

\* Whoever else indexes between the comparison and the commit: a version is
\* replaced only by content that was compared with it.
THEOREM ReplacementCompared == Spec => ReplacedWasCompared
<1> DEFINE Compared(p) ==
      (job[p].pc = "index" /\ job[p].action = "INDEX" /\ job'[p].action = "INDEX"
         /\ job'[p].pc = "record")
      => \/ Stored(rank) = {}
         \/ IsCurrent(rank, prepared[job[p].a].baseline)
<1>1. ProductInv /\ [Next]_vars => [\A p \in Processes : Compared(p)]_runtimeVars
  <2> SUFFICES ASSUME ProductInv, [Next]_vars, NEW p \in Processes,
                      job[p].pc = "index", job[p].action = "INDEX",
                      job'[p].action = "INDEX", job'[p].pc = "record"
               PROVE  \/ Stored(rank) = {}
                      \/ IsCurrent(rank, prepared[job[p].a].baseline)
    OBVIOUS
  <2> DEFINE row == prepared[job[p].a]
  <2>1. IsCurrent(rank, row.expected)
    BY OnlyIndexesCommits DEF Indexes
  <2>2. row.expected \in {NoSha, row.baseline}
    BY JobRow DEF ProductInv, RuntimeInv, RowsOK
  <2>3. IsCurrent(rank, NoSha) => Stored(rank) = {}
    BY ShasAssumption DEF IsCurrent, Stored
  <2> QED
    BY <2>1, <2>2, <2>3
<1>2. Spec => [][Next]_vars
  BY PTL DEF Spec
<1> QED
  BY <1>1, <1>2, ProductInvariant, PTL DEF ReplacedWasCompared
-----------------------------------------------------------------------------
(* What a step does to the runtime directory *)

\* p begins an operation on a.
Starts(p, a) ==
  \/ RequestStart(p, a)
  \/ \E r \in Nat, policy \in Policies : SubmitStart(p, a, r, policy)
  \/ ApproveStart(p, a) \/ HoldStart(p, a)
  \/ prepared[a] # Nil /\ UnavailableStart(p, a)

LEMMA RuntimeSteps ==
  ASSUME ProductInv, [Next]_vars
  PROVE  \/ UNCHANGED runtimeVars
         \/ PrepareInsert \/ (DispatchFails /\ handled \in Analyses /\ prepared[handled] # Nil)
         \/ \E p \in Processes, a \in Analyses : Starts(p, a)
         \/ \E p \in Processes : Continue(p)
<1>1. CASE \/ FileEdit \/ Scan \/ PollBreaks \/ StoreSnapshot \/ SnapshotFails
           \/ PrepareRead \/ NoAnalyzer \/ Dispatch
  BY <1>1 DEF FileEdit, Scan, PollBreaks, StoreSnapshot, SnapshotFails,
              PrepareRead, NoAnalyzer, Dispatch
<1>2. CASE PrepareRequest \/ DispatchAnswers \/ DispatchFails \/ HoldUnavailable
  <2>1. /\ handled \in Analyses /\ prepared[handled] # Nil
        /\ Watch \in Processes /\ log[handled].request \in Nat
    BY <1>2, ProductAssumption
       DEF ProductInv, WatchOK, RuntimeInv, LogsOK, LogRecords,
           PrepareRequest, DispatchAnswers, DispatchFails, HoldUnavailable
  <2>2. CASE PrepareRequest
    BY <2>1, <2>2 DEF PrepareRequest, Starts
  <2>3. CASE DispatchAnswers
    <3>1. PICK policy \in Answers :
            IF Admissible(handled, asked, policy)
            THEN SubmitStart(Watch, handled, asked, policy)
            ELSE UNCHANGED runtimeVars
      BY <2>3 DEF DispatchAnswers
    <3>2. Admissible(handled, asked, policy) => asked \in Nat
      BY <2>1 DEF Admissible
    <3>3. policy \in Policies
      BY ProductAssumption
    <3> QED
      BY <2>1, <3>1, <3>2, <3>3 DEF Starts
  <2>4. CASE HoldUnavailable
    BY <2>1, <2>4 DEF HoldUnavailable, Starts
  <2> QED
    BY <1>2, <2>1, <2>2, <2>3, <2>4
<1>3. CASE DeskOperates
  <2>1. PICK a \in Analyses : BCalls(a) \/ CCalls(a)
    BY <1>3 DEF DeskOperates
  <2>2. Desk \in Processes /\ log[a].request \in Nat /\ Answers \subseteq Policies
    BY ProductAssumption DEF ProductInv, RuntimeInv, LogsOK, LogRecords
  <2>3. Starts(Desk, a)
    BY <2>1, <2>2 DEF BCalls, CCalls, Starts
  <2> QED
    BY <2>2, <2>3
<1>4. CASE Operates
  BY <1>4 DEF Operates
<1>5. CASE UNCHANGED <<runtimeVars, watchVars>>
  BY <1>5
<1>6. CASE PrepareInsert
  BY <1>6
<1> QED
  BY <1>1, <1>2, <1>3, <1>4, <1>5, <1>6 DEF Next, vars

\* A beginning changes one job only, and tells what kind of job.
LEMMA StartedJob ==
  ASSUME ProductInv, NEW p \in Processes, NEW a \in Analyses, Starts(p, a)
  PROVE  \E j \in Jobs :
           /\ Begin(p, j) /\ j.a = a /\ prepared[a] # Nil
           /\ j.pc \in {"request", "receive", "judge", "index"}
           /\ j.pc = "request" => log[a].request = 0
           /\ j.kind = "SUBMIT" => j.req # 0 /\ j.req = log[a].request
           /\ j.kind = "APPROVE" => log[a].state \in {"AWAITING_APPROVAL", "HOLD"}
           /\ j.pc = "index" => j.action = "HOLD" 
           /\ UNCHANGED <<rank, prepared, log>>
<1> USE DEF NoJob, Jobs, Kinds, Actions, Policies
<1>1. CASE RequestStart(p, a)
  <2> DEFINE j == [NoJob EXCEPT !.kind = "REQUEST", !.pc = "request", !.a = a]
  <2>1. j \in Jobs /\ j.kind = "REQUEST" /\ j.pc = "request" /\ j.a = a
    OBVIOUS
  <2>2. /\ Begin(p, j) /\ prepared[a] # Nil /\ log[a].request = 0
        /\ UNCHANGED <<rank, prepared, log>>
    BY <1>1 DEF RequestStart
  <2> HIDE DEF j
  <2> QED
    BY <2>1, <2>2
<1>2. CASE \E r \in Nat, policy \in Policies : SubmitStart(p, a, r, policy)
  <2>1. PICK r \in Nat, policy \in Policies : SubmitStart(p, a, r, policy)
    BY <1>2
  <2> DEFINE j == [NoJob EXCEPT !.kind = "SUBMIT", !.a = a, !.req = r, !.policy = policy,
                                !.pc = IF log[a].received[r] = Nil THEN "receive" ELSE "judge"]
  <2>2. /\ j \in Jobs /\ j.kind = "SUBMIT" /\ j.pc \in {"receive", "judge"}
        /\ j.a = a /\ j.req = r
    OBVIOUS
  <2>3. Begin(p, j) /\ Admissible(a, r, policy) /\ UNCHANGED <<rank, prepared, log>>
    BY <2>1 DEF SubmitStart
  <2>4. prepared[a] # Nil /\ r # 0 /\ r = log[a].request
    BY <2>3 DEF Admissible, ProductInv, RuntimeInv, LogsOK
  <2> HIDE DEF j
  <2> QED
    BY <2>2, <2>3, <2>4
<1>3. CASE ApproveStart(p, a)
  <2> DEFINE j == [NoJob EXCEPT !.kind = "APPROVE", !.pc = "judge", !.a = a, !.policy = "ALLOW"]
  <2>1. j \in Jobs /\ j.kind = "APPROVE" /\ j.pc = "judge" /\ j.a = a
    OBVIOUS
  <2>2. /\ Begin(p, j) /\ prepared[a] # Nil
        /\ log[a].state \in {"AWAITING_APPROVAL", "HOLD"}
        /\ UNCHANGED <<rank, prepared, log>>
    BY <1>3 DEF ApproveStart
  <2> HIDE DEF j
  <2> QED
    BY <2>1, <2>2
<1>4. CASE HoldStart(p, a) \/ (prepared[a] # Nil /\ UnavailableStart(p, a))
  <2>1. PICK kind \in {"HOLD", "UNAVAILABLE"} :
          Begin(p, [NoJob EXCEPT !.kind = kind, !.pc = "index", !.a = a, !.action = "HOLD"])
    BY <1>4 DEF HoldStart, UnavailableStart
  <2> DEFINE j == [NoJob EXCEPT !.kind = kind, !.pc = "index", !.a = a, !.action = "HOLD"]
  <2>2. /\ j \in Jobs /\ j.kind \notin {"SUBMIT", "APPROVE"}
        /\ j.pc = "index" /\ j.a = a /\ j.action = "HOLD"
    OBVIOUS
  <2>3. Begin(p, j) /\ prepared[a] # Nil /\ UNCHANGED <<rank, prepared, log>>
    BY <1>4, <2>1 DEF HoldStart, UnavailableStart
  <2> HIDE DEF j
  <2> QED
    BY <2>2, <2>3
<1> QED
  BY <1>1, <1>2, <1>3, <1>4 DEF Starts
-----------------------------------------------------------------------------
(* Requests, and the types *)

Pending(p, a) == job[p].pc = "request" /\ job[p].a = a

\* Only a process that found no request appends one: two at most, and none is
\* on its way once both are there.
RequestsOK(a) ==
  /\ log[a].request \in 0..2 /\ log[a].answered \subseteq 1..2
  /\ log[a].request = 1 => \A p, q \in Processes : Pending(p, a) /\ Pending(q, a) => p = q
  /\ log[a].request = 2 => \A p \in Processes : ~Pending(p, a)
  /\ prepared[a] = Nil => log[a] = NoEvents

RequestsInv ==
  /\ \A a \in Analyses : RequestsOK(a)
  /\ \A p \in Processes : job[p].kind = "SUBMIT" => job[p].req \in 1..2
  /\ overlapped \subseteq Analyses

LEMMA TwoProcesses == Requests = 1..2 /\ \A p, q, r \in Processes : p = q \/ p = r \/ q = r
<1>1. Cardinality({Watch}) = 1 /\ IsFiniteSet({Watch})
  BY FS_Singleton
<1>2. Cardinality({Watch} \cup {Desk}) = 2
  BY <1>1, FS_AddElement, ProductAssumption
<1>3. Processes = {Watch} \cup {Desk}
  BY ProductAssumption
<1> QED
  BY <1>2, <1>3 DEF Requests

LEMMA RequestsInitInv == Init => RequestsInv
<1> SUFFICES ASSUME Init PROVE RequestsInv
  OBVIOUS
<1>1. RuntimeInit
  BY DEF Init
<1> QED
  BY <1>1 DEF RuntimeInit, RequestsInv, RequestsOK, NoEvents, NoJob, Pending

LEMMA RequestsBegun ==
  ASSUME ProductInv, RequestsInv, NEW p \in Processes, NEW b \in Analyses, Starts(p, b)
  PROVE  RequestsInv'
<1>1. PICK j \in Jobs :
        /\ Begin(p, j) /\ j.a = b
        /\ j.pc = "request" => log[b].request = 0
        /\ j.kind = "SUBMIT" => j.req # 0 /\ j.req = log[b].request
        /\ UNCHANGED <<rank, prepared, log>>
  BY StartedJob
<1>2. /\ job' = [job EXCEPT ![p] = j] /\ overlapped' \subseteq overlapped \cup {b}
      /\ job \in [Processes -> Jobs]
  BY <1>1 DEF Begin, ProductInv, RuntimeInv, JobsOK
<1>3. ASSUME NEW a \in Analyses
      PROVE  RequestsOK(a)'
  <2>1. \A q \in Processes : Pending(q, a)' => Pending(q, a) \/ log[a].request = 0
    BY <1>1, <1>2 DEF Pending
  <2> QED
    BY <1>1, <2>1 DEF RequestsInv, RequestsOK
<1>4. \A q \in Processes : job'[q].kind = "SUBMIT" => job'[q].req \in 1..2
  <2>1. log[b].request \in 0..2
    BY DEF RequestsInv, RequestsOK
  <2> QED
    BY <1>1, <1>2, <2>1 DEF RequestsInv
<1> QED
  BY <1>2, <1>3, <1>4 DEF RequestsInv

\* Every other step appends for a row that is there, and requests nothing.
LEMMA RequestsKept ==
  ASSUME ProductInv, RequestsInv,
         \A a \in Analyses :
           \/ log'[a] = log[a]
           \/ /\ prepared[a] # Nil /\ log'[a].request = log[a].request
              /\ log'[a].answered \subseteq 1..2,
         \A q \in Processes :
           /\ job'[q].pc = "request" => job'[q] = job[q]
           /\ job'[q].kind = "SUBMIT" => job'[q].req = job[q].req /\ job[q].kind = "SUBMIT",
         \A a \in Analyses : prepared[a] # Nil => prepared'[a] # Nil,
         overlapped' = overlapped
  PROVE  RequestsInv'
<1>1. ASSUME NEW a \in Analyses
      PROVE  RequestsOK(a)'
  <2>1. \A q \in Processes : Pending(q, a)' => Pending(q, a)
    BY DEF Pending
  <2>2. log'[a].request = log[a].request /\ log'[a].answered \subseteq 1..2
    BY DEF RequestsInv, RequestsOK
  <2>3. prepared'[a] = Nil => log'[a] = NoEvents
    BY DEF RequestsInv, RequestsOK
  <2> QED
    BY <2>1, <2>2, <2>3 DEF RequestsInv, RequestsOK
<1> QED
  BY <1>1 DEF RequestsInv

LEMMA RequestsAppended ==
  ASSUME ProductInv, RequestsInv, NEW p \in Processes, RequestAppend(p)
  PROVE  RequestsInv'
<1> DEFINE b == job[p].a
<1>1. /\ b \in Analyses /\ prepared[b] # Nil /\ job[p].pc = "request"
      /\ job \in [Processes -> Jobs] /\ log \in [Analyses -> LogRecords]
  BY JobRow DEF RequestAppend, ProductInv, RuntimeInv, JobsOK, LogsOK
<1>2. /\ job' = [job EXCEPT ![p] = NoJob] /\ UNCHANGED <<prepared, overlapped>>
      /\ log' = [log EXCEPT ![b].request = @ + 1, ![b].state = "ANALYSIS_REQUESTED"]
  BY DEF RequestAppend, Requested, Ends
<1>3. \A q \in Processes, a \in Analyses : Pending(q, a)' <=> q # p /\ Pending(q, a)
  BY <1>1, <1>2 DEF Pending, NoJob
<1>4. ASSUME NEW a \in Analyses
      PROVE  RequestsOK(a)'
  <2>1. CASE a = b
    <3>1. log'[a].request = log[a].request + 1 /\ log'[a].answered = log[a].answered
      BY <1>1, <1>2, <2>1 DEF LogRecords
    <3>2. Pending(p, a)
      BY <1>1, <2>1 DEF Pending
    <3>3. /\ log[a].request \in 0..2 /\ log[a].answered \subseteq 1..2 /\ log[a].request # 2
          /\ log[a].request = 1 => \A q \in Processes : Pending(q, a) => p = q
      BY <3>2 DEF RequestsInv, RequestsOK
    <3>4. prepared'[a] # Nil
      BY <1>1, <1>2, <2>1
    <3>5. \A q, r \in Processes : Pending(q, a)' /\ Pending(r, a)' => q = r
      BY <1>3, TwoProcesses
    <3> QED
      BY <1>3, <3>1, <3>3, <3>4, <3>5 DEF RequestsOK
  <2>2. CASE a # b
    <3>1. log'[a] = log[a] /\ prepared'[a] = prepared[a]
      BY <1>1, <1>2, <2>2
    <3> QED
      BY <1>3, <3>1 DEF RequestsInv, RequestsOK
  <2> QED
    BY <2>1, <2>2
<1>5. \A q \in Processes : job'[q].kind = "SUBMIT" => job'[q].req \in 1..2
  BY <1>1, <1>2 DEF RequestsInv, NoJob
<1> QED
  BY <1>2, <1>4, <1>5 DEF RequestsInv

\* The steps of an operation after its beginning.
LEMMA RequestsContinued ==
  ASSUME ProductInv, RequestsInv, NEW p \in Processes, Continue(p)
  PROVE  RequestsInv'
<1>1. CASE RequestAppend(p)
  BY <1>1, RequestsAppended
<1>2. CASE Receive(p) \/ Judge(p) \/ Removes(p) \/ Indexes(p) \/ Stale(p) \/ Record(p) \/ Finish(p)
  <2> DEFINE b == job[p].a
  <2>1. job[p].pc # "idle"
    BY <1>2 DEF Receive, Judge, Removes, Indexes, Stale, Record, Finish
  <2>2. /\ b \in Analyses /\ prepared[b] # Nil /\ log[b] \in LogRecords /\ job[p] \in Jobs
        /\ job \in [Processes -> Jobs] /\ log \in [Analyses -> LogRecords]
    BY <2>1, JobRow DEF ProductInv, RuntimeInv, JobsOK, LogsOK
  <2>3. UNCHANGED <<prepared, overlapped>>
    BY <1>2 DEF Receive, Judge, Removes, Indexes, Stale, Record, Finish
  <2>4. \A q \in Processes : q # p => job'[q] = job[q]
    BY <1>2, <2>2 DEF Receive, Judge, Removes, Indexes, Stale, Record, Finish, Goes, Ends
  <2>5. /\ job'[p].pc # "request"
        /\ job'[p].kind = "SUBMIT" => job'[p].req = job[p].req /\ job[p].kind = "SUBMIT"
    BY <1>2, <2>2 DEF Receive, Judge, Removes, Indexes, Stale, Record, Finish,
                      Goes, Ends, NoJob, Jobs
  <2>6. \A a \in Analyses : a # b => log'[a] = log[a]
    BY <1>2, <2>2 DEF Receive, Judge, Removes, Indexes, Stale, Record, Finish,
                      ReceivedFor, GateApplied, Applied, Completed
  <2>7. log'[b].request = log[b].request
    <3>1. CASE Receive(p)
      BY <2>2, <3>1 DEF Receive, ReceivedFor, LogRecords
    <3>2. CASE Judge(p) \/ Removes(p) \/ Indexes(p) \/ Stale(p)
      BY <3>2 DEF Judge, Removes, Indexes, Stale
    <3>3. CASE Record(p)
      BY <2>2, <3>3 DEF Record, GateApplied, LogRecords
    <3>4. CASE Finish(p)
      BY <2>2, <3>4 DEF Finish, Applied, Completed, LogRecords
    <3> QED
      BY <1>2, <3>1, <3>2, <3>3, <3>4
  <2>8. CASE job[p].kind = "SUBMIT" /\ Finish(p)
    <3>1. log'[b].answered = log[b].answered \cup {job[p].req}
      BY <2>2, <2>8 DEF Finish, Applied, LogRecords
    <3> QED
      BY <2>2, <2>3, <2>4, <2>5, <2>6, <2>7, <2>8, <3>1, RequestsKept DEF RequestsInv, RequestsOK
  <2>9. CASE ~(job[p].kind = "SUBMIT" /\ Finish(p))
    <3>1. log'[b].answered = log[b].answered
      <4>1. CASE Receive(p)
        BY <2>2, <4>1 DEF Receive, ReceivedFor, LogRecords
      <4>2. CASE Judge(p) \/ Removes(p) \/ Indexes(p) \/ Stale(p)
        BY <4>2 DEF Judge, Removes, Indexes, Stale
      <4>3. CASE Record(p)
        BY <2>2, <4>3 DEF Record, GateApplied, LogRecords
      <4>4. CASE Finish(p)
        BY <2>2, <2>9, <4>4 DEF Finish, Completed, LogRecords
      <4> QED
        BY <1>2, <4>1, <4>2, <4>3, <4>4
    <3> QED
      BY <2>2, <2>3, <2>4, <2>5, <2>6, <2>7, <3>1, RequestsKept DEF RequestsInv, RequestsOK
  <2> QED
    BY <2>8, <2>9
<1> QED
  BY <1>1, <1>2 DEF Continue

LEMMA RequestsNextInv ==
  ProductInv /\ RequestsInv /\ [Next]_vars => RequestsInv'
<1> SUFFICES ASSUME ProductInv, RequestsInv, [Next]_vars PROVE RequestsInv'
  OBVIOUS
<1>1. CASE UNCHANGED runtimeVars
  BY <1>1 DEF runtimeVars, RequestsInv, RequestsOK, Pending
<1>2. CASE PrepareInsert
  <2>1. PICK a \in Analyses : \E row : prepared' = [prepared EXCEPT ![a] = row]
    BY <1>2 DEF PrepareInsert
  <2>2. /\ UNCHANGED <<log, job, overlapped>>
        /\ \A c \in Analyses : prepared[c] # Nil => prepared'[c] # Nil
    BY <1>2, PrepareInsertInv DEF PrepareInsert, ProductInv, RuntimeInv, RowsOK
  <2> QED
    BY <2>2, RequestsKept
<1>3. CASE DispatchFails /\ handled \in Analyses /\ prepared[handled] # Nil
  <2>1. UNCHANGED <<prepared, job, overlapped>> /\ log \in [Analyses -> LogRecords]
    BY <1>3 DEF DispatchFails, ProductInv, RuntimeInv, LogsOK
  <2>2. \A a \in Analyses :
           \/ log'[a] = log[a]
           \/ /\ prepared[a] # Nil /\ log'[a].request = log[a].request
              /\ log'[a].answered \subseteq 1..2
    BY <1>3, <2>1 DEF DispatchFails, DispatchFailed, LogRecords, RequestsInv, RequestsOK
  <2> QED
    BY <2>1, <2>2, RequestsKept
<1> QED
  BY <1>1, <1>2, <1>3, RuntimeSteps, RequestsBegun, RequestsContinued
-----------------------------------------------------------------------------
(* The repository *)

\* What the commands of a capture may return.
Readings == Heads \cup Branches \cup {NoValue} \cup Patches \cup BOOLEAN

\* What a command of a capture with these silent commands returns.
Returned(command) == IF command \in silent THEN NoValue ELSE Answer(command)

\* A capture under way read the repository as it is, if nothing disturbed it,
\* but for its silent commands, and so did the last one that was finished.
CapturesOK ==
  /\ repo \in Repositories /\ emitInitial \in BOOLEAN /\ changes \in 0..MaxChanges
  /\ undisturbed \in BOOLEAN
  /\ reads \in Seq(Readings) /\ Len(reads) <= 8
  /\ undisturbed => \A i \in 1..Len(reads) : reads[i] = Returned(Commands[i])
  /\ reads # None => \A i \in (Len(reads) + 1)..8 : Commands[i] \notin silent
  /\ undisturbed /\ reads = None => previous = Truth

\* The receiver was told of a capture with the digest of the last one, or of
\* none while the repository is clean.
ToldOK ==
  /\ previous = None => told = None
  /\ previous # None => IF told = None THEN ~emitInitial /\ ~Dirty(previous)
                        ELSE Digest(told) = Digest(previous)

GitInv == CapturesOK /\ ToldOK

Elements(s) == {s[i] : i \in DOMAIN s}

LEMMA ElementsJoined ==
  ASSUME NEW S, NEW s \in Seq(S), NEW t \in Seq(S)
  PROVE  /\ s \o t \in Seq(S)
         /\ s \o t = <<>> <=> s = <<>> /\ t = <<>>
         /\ Elements(s \o t) = Elements(s) \cup Elements(t)
<1> DEFINE m == Len(s)
           n == Len(t)
           u == s \o t
<1>1. /\ u \in Seq(S) /\ Len(u) = m + n /\ m \in Nat /\ n \in Nat
      /\ \A i \in 1..(m + n) : u[i] = IF i <= m THEN s[i] ELSE t[i - m]
  BY ConcatProperties
<1>2. DOMAIN u = 1..(m + n) /\ DOMAIN s = 1..m /\ DOMAIN t = 1..n
  BY <1>1
<1>3. u = <<>> <=> s = <<>> /\ t = <<>>
  BY ConcatEqualIffEmpty
<1> HIDE DEF u, m, n
<1>4. ASSUME NEW i \in DOMAIN u
      PROVE  u[i] \in Elements(s) \cup Elements(t)
  <2>1. CASE i <= m
    BY <1>1, <1>2, <2>1 DEF Elements
  <2>2. CASE i > m
    <3>1. i - m \in DOMAIN t /\ u[i] = t[i - m]
      BY <1>1, <1>2, <2>2
    <3> QED
      BY <3>1 DEF Elements
  <2> QED
    BY <1>1, <1>2, <2>1, <2>2
<1>5. ASSUME NEW i \in DOMAIN s
      PROVE  s[i] \in Elements(u)
  <2>1. i \in DOMAIN u /\ u[i] = s[i]
    BY <1>1, <1>2
  <2> QED
    BY <2>1 DEF Elements
<1>6. ASSUME NEW i \in DOMAIN t
      PROVE  t[i] \in Elements(u)
  <2>1. m + i \in DOMAIN u /\ u[m + i] = t[i]
    BY <1>1, <1>2
  <2> QED
    BY <2>1 DEF Elements
<1>7. Elements(u) = Elements(s) \cup Elements(t)
  BY <1>4, <1>5, <1>6 DEF Elements
<1> QED
  BY <1>1, <1>3, <1>7 DEF u

\* A part of the list of names, empty or of one name.
LEMMA ElementsOfPart ==
  ASSUME NEW S, NEW x \in S, NEW b, NEW s, s = IF b THEN <<x>> ELSE <<>>
  PROVE  s \in Seq(S) /\ (s = <<>> <=> ~b) /\ Elements(s) = IF b THEN {x} ELSE {}
<1>1. CASE b
  <2>1. s = <<x>>
    BY <1>1
  <2>2. s \in Seq(S) /\ Len(s) = 1 /\ s[1] = x /\ DOMAIN s = 1..1
    BY <2>1
  <2>3. s # <<>>
    BY <2>2, EmptySeq
  <2>4. Elements(s) = {x}
    BY <2>2 DEF Elements
  <2> QED
    BY <1>1, <2>2, <2>3, <2>4
<1>2. CASE ~b
  <2>1. s = <<>> /\ s \in Seq(S) /\ DOMAIN s = {}
    BY <1>2
  <2>2. Elements(s) = {}
    BY <2>1 DEF Elements
  <2> QED
    BY <1>2, <2>1, <2>2
<1> QED
  BY <1>1, <1>2

\* Where a list of names ends is not in the digest, but that there is none is.
LEMMA NamesTell ==
  ASSUME NEW c
  PROVE  /\ Names(c) = <<>> <=> ~Dirty(c)
         /\ ChangedFiles(c) = (IF c[6] \/ c[7] THEN {"tracked"} ELSE {})
                              \cup (IF c[8] THEN {"new"} ELSE {})
<1> DEFINE S == {"tracked", "new"}
           u == IF c[7] THEN <<"tracked">> ELSE <<>>
           s == IF c[6] THEN <<"tracked">> ELSE <<>>
           n == IF c[8] THEN <<"new">> ELSE <<>>
           v == u \o s
<1>1. u \in Seq(S) /\ (u = <<>> <=> ~c[7]) /\ Elements(u) = IF c[7] THEN {"tracked"} ELSE {}
  BY ElementsOfPart
<1>2. s \in Seq(S) /\ (s = <<>> <=> ~c[6]) /\ Elements(s) = IF c[6] THEN {"tracked"} ELSE {}
  BY ElementsOfPart
<1>3. n \in Seq(S) /\ (n = <<>> <=> ~c[8]) /\ Elements(n) = IF c[8] THEN {"new"} ELSE {}
  BY ElementsOfPart
<1>4. Names(c) = v \o n
  BY DEF Names
<1> HIDE DEF S, u, s, n
<1>5. /\ v \in Seq(S) /\ (v = <<>> <=> ~c[7] /\ ~c[6])
      /\ Elements(v) = IF c[6] \/ c[7] THEN {"tracked"} ELSE {}
  BY <1>1, <1>2, ElementsJoined
<1> HIDE DEF v
<1>6. /\ Names(c) = <<>> <=> ~c[7] /\ ~c[6] /\ ~c[8]
      /\ Elements(Names(c)) = Elements(v) \cup Elements(n)
  <2>1. /\ v \o n = <<>> <=> v = <<>> /\ n = <<>>
        /\ Elements(v \o n) = Elements(v) \cup Elements(n)
    BY <1>3, <1>5, ElementsJoined
  <2> QED
    BY <1>3, <1>4, <1>5, <2>1
<1>7. Names(c) = <<>> <=> ~Dirty(c)
  BY <1>6 DEF Dirty
<1>8. ChangedFiles(c) = Elements(Names(c))
  BY DEF ChangedFiles, Elements
<1> QED
  BY <1>3, <1>5, <1>6, <1>7, <1>8

LEMMA NothingRead ==
  None \in Seq(Readings) /\ Len(None) = 0
BY DEF None

LEMMA EightCommands ==
  /\ Len(Commands) = 8
  /\ repo \in Repositories =>
       /\ \A i \in 1..8 : Returned(Commands[i]) \in Readings
       /\ Truth \in Seq(Readings) /\ Len(Truth) = 8
<1>1. Len(Commands) = 8
  BY DEF Commands
<1>2. ASSUME repo \in Repositories, NEW i \in 1..8
      PROVE  Answer(Commands[i]) \in Readings
  BY <1>2 DEF Commands, Answer, Readings, Repositories
<1>3. ASSUME repo \in Repositories, NEW i \in 1..8
      PROVE  Returned(Commands[i]) \in Readings
  BY <1>2, <1>3 DEF Returned, Readings
<1>4. Truth = [i \in 1..8 |-> Returned(Commands[i])]
  BY <1>1 DEF Truth, Returned
<1> QED
  BY <1>1, <1>3, <1>4

\* No command comes twice.
LEMMA CommandsDiffer ==
  \A i, j \in 1..8 : Commands[i] = Commands[j] => i = j
BY DEF Commands

LEMMA GitInitInv == GitInit => GitInv
<1> SUFFICES ASSUME GitInit PROVE GitInv
  OBVIOUS
<1>1. repo \in Repositories /\ emitInitial \in BOOLEAN /\ changes \in 0..MaxChanges
  BY GitAssumption DEF GitInit
<1>2. /\ reads = None /\ previous = None /\ told = None
      /\ undisturbed = FALSE
  BY DEF GitInit
<1>3. ToldOK
  BY <1>2 DEF ToldOK
<1>4. reads \in Seq(Readings) /\ Len(reads) <= 8
  BY <1>2, NothingRead
<1>5. CapturesOK
  BY <1>1, <1>2, <1>4 DEF CapturesOK
<1> QED
  BY <1>3, <1>5 DEF GitInv

\* A change, a failing command: what was read does not count as undisturbed.
LEMMA DisturbedInv ==
  ASSUME GitInv, Change \/ CommandFails
  PROVE  GitInv'
<1>1. repo' \in Repositories /\ changes' \in 0..MaxChanges
  BY GitAssumption DEF GitInv, CapturesOK, Change, CommandFails
<1>2. undisturbed' = FALSE /\ UNCHANGED <<previous, told, emitInitial, silent>>
  BY DEF Change, CommandFails
<1>3. reads' = reads \/ reads' = None
  BY DEF Change, CommandFails
<1>4. /\ reads' \in Seq(Readings) /\ Len(reads') <= 8
      /\ reads' # None => \A i \in (Len(reads') + 1)..8 : Commands[i] \notin silent'
  <2>1. /\ reads \in Seq(Readings) /\ Len(reads) <= 8
        /\ reads # None => \A i \in (Len(reads) + 1)..8 : Commands[i] \notin silent
    BY DEF GitInv, CapturesOK
  <2>2. CASE reads' = reads
    BY <1>2, <2>1, <2>2
  <2>3. CASE reads' = None
    <3>1. Len(reads') = 0
      BY <2>3, NothingRead
    <3> QED
      BY <2>3, <3>1, NothingRead
  <2> QED
    BY <1>3, <2>2, <2>3
<1>5. CapturesOK'
  BY <1>1, <1>2, <1>4 DEF GitInv, CapturesOK
<1>6. ToldOK'
  BY <1>2 DEF GitInv, ToldOK
<1> QED
  BY <1>5, <1>6 DEF GitInv

\* A command returns something, or nothing when it is one of the two that may.
LEMMA ReadInv ==
  ASSUME GitInv, Read \/ ReadNothing
  PROVE  GitInv'
<1> DEFINE n == Len(reads) + 1
           command == Commands[n]
           value == IF command \in silent' THEN NoValue ELSE Answer(command)
<1>1. /\ reads \in Seq(Readings) /\ n \in 1..8 /\ repo \in Repositories
      /\ emitInitial \in BOOLEAN /\ changes \in 0..MaxChanges
      /\ UNCHANGED <<repo, previous, told, emitInitial, changes>>
  BY EightCommands DEF GitInv, CapturesOK, Read, ReadNothing
<1>2. reads = None => command \notin Optional
  BY NothingRead DEF Commands, Optional
<1>3. reads # None => \A i \in n..8 : Commands[i] \notin silent
  BY DEF GitInv, CapturesOK
<1>4. undisturbed' \in BOOLEAN /\ (undisturbed' => reads = None \/ undisturbed)
  <2>1. undisturbed \in BOOLEAN
    BY DEF GitInv, CapturesOK
  <2>2. CASE Read
    BY <2>1, <2>2 DEF Read
  <2>3. CASE ReadNothing
    BY <2>1, <2>3 DEF ReadNothing
  <2> QED
    BY <2>2, <2>3
<1>5. \A c : Answer(c)' = Answer(c)
  BY <1>1 DEF Answer
<1>6. /\ reads' = Append(reads, value)
      /\ reads = None => silent' \subseteq {command}
      /\ reads # None => silent \subseteq silent' /\ silent' \subseteq silent \cup {command}
  <2>1. CASE Read
    <3>1. reads' = Append(reads, Answer(command))
      BY <2>1 DEF Read
    <3>2. silent' = IF reads = None THEN {} ELSE silent
      BY <2>1 DEF Read
    <3>3. command \notin silent'
      BY <1>1, <1>3, <3>2
    <3>4. value = Answer(command)
      BY <3>3
    <3> QED
      BY <3>1, <3>2, <3>4
  <2>2. CASE ReadNothing
    <3>1. reads' = Append(reads, NoValue) /\ silent' = silent \cup {command}
          /\ command \in Optional
      BY <2>2 DEF ReadNothing
    <3>2. value = NoValue
      BY <3>1
    <3> QED
      BY <1>2, <3>1, <3>2
  <2> QED
    BY <2>1, <2>2
<1>7. value \in Readings
  <2>1. Answer(command) \in Readings
    <3> HIDE DEF n
    <3> QED
      BY <1>1 DEF Commands, Answer, Readings, Repositories
  <2>2. NoValue \in Readings
    BY DEF Readings
  <2> QED
    BY <2>1, <2>2
<1>8. /\ reads' \in Seq(Readings) /\ Len(reads') = n /\ reads' # None
      /\ reads'[n] = value /\ \A i \in 1..(n - 1) : reads'[i] = reads[i]
  <2> HIDE DEF value
  <2> QED
    BY <1>1, <1>6, <1>7 DEF None
<1>9. ASSUME NEW i \in (n + 1)..8 PROVE Commands[i] \notin silent'
  <2>1. i \in 1..8 /\ i # n /\ i \in n..8
    BY <1>1
  <2>2. Commands[i] # command
    BY <1>1, <2>1, CommandsDiffer
  <2> QED
    BY <1>3, <1>6, <2>1, <2>2
<1>10. ASSUME undisturbed', NEW i \in 1..n
       PROVE  reads'[i] = Returned(Commands[i])'
  <2>1. CASE i = n
    BY <1>5, <1>8, <2>1 DEF Returned
  <2>2. CASE i # n
    <3>1. i \in 1..Len(reads) /\ i \in 1..8 /\ reads # None
      BY <1>1, <2>2 DEF None
    <3>2. Commands[i] # command
      BY <1>1, <2>2, <3>1, CommandsDiffer
    <3>3. Commands[i] \in silent' <=> Commands[i] \in silent
      BY <1>6, <3>1, <3>2
    <3>4. Returned(Commands[i])' = Returned(Commands[i])
      BY <1>5, <3>3 DEF Returned
    <3>5. reads[i] = Returned(Commands[i])
      BY <1>4, <1>10, <3>1 DEF GitInv, CapturesOK
    <3> QED
      BY <1>8, <3>1, <3>4, <3>5
  <2> QED
    BY <2>1, <2>2
<1> HIDE DEF n, value
<1>11. CapturesOK'
  BY <1>1, <1>4, <1>8, <1>9, <1>10 DEF CapturesOK
<1>12. ToldOK'
  BY <1>1 DEF GitInv, ToldOK
<1> QED
  BY <1>11, <1>12 DEF GitInv

\* Without an event the receiver knows already what the capture says.
LEMMA PollTells ==
  ASSUME GitInv, Poll
  PROVE  GitInv'
<1>1. /\ Len(reads) = 8 /\ reads # None /\ reads \in Seq(Readings)
      /\ repo \in Repositories
      /\ previous' = reads /\ reads' = None
      /\ UNCHANGED <<repo, emitInitial, undisturbed, silent, changes>>
  <2>1. Len(reads) = 8 /\ reads \in Seq(Readings) /\ repo \in Repositories
    BY EightCommands DEF Poll, GitInv, CapturesOK
  <2>2. reads # None
    BY <2>1, NothingRead
  <2> QED
    BY <2>1, <2>2 DEF Poll
<1>2. undisturbed => reads = Truth
  <2> SUFFICES ASSUME undisturbed PROVE reads = Truth
    OBVIOUS
  <2>1. \A i \in 1..8 : reads[i] = Truth[i]
    BY <1>1, EightCommands DEF GitInv, CapturesOK, Truth, Returned
  <2> QED
    BY <1>1, <2>1, EightCommands
<1>3. Truth' = Truth
  BY <1>1 DEF Truth, Answer
<1>4. CapturesOK'
  <2>1. Len(reads') = 0 /\ reads' \in Seq(Readings)
    BY <1>1, NothingRead
  <2> QED
    BY <1>1, <1>2, <1>3, <2>1 DEF GitInv, CapturesOK
<1> DEFINE type == EventType(previous, reads)
<1>5. told' = IF type = "NONE" THEN told ELSE reads
  BY DEF Poll
<1>6. CASE type # "NONE"
  BY <1>1, <1>4, <1>5, <1>6 DEF GitInv, ToldOK
<1>7. CASE type = "NONE"
  <2>1. UNCHANGED told
    BY <1>5, <1>7
  <2>2. CASE previous = None
    <3>1. told = None /\ ~emitInitial /\ ~Dirty(reads)
      BY <1>7, <2>2 DEF EventType, GitInv, ToldOK
    <3> QED
      BY <1>1, <1>4, <2>1, <3>1 DEF GitInv, ToldOK
  <2>3. CASE previous # None
    <3>1. Digest(previous) = Digest(reads)
      BY <1>7, <2>3 DEF EventType
    <3>2. Names(previous) = Names(reads)
      BY <3>1 DEF Digest
    <3>3. Dirty(previous) = Dirty(reads)
      BY <3>2, NamesTell DEF Dirty
    <3> QED
      BY <1>1, <1>4, <2>1, <2>3, <3>1, <3>3 DEF GitInv, ToldOK
  <2> QED
    BY <2>2, <2>3
<1> QED
  BY <1>6, <1>7

LEMMA GitNextInv ==
  GitInv /\ [GitNext]_gitVars => GitInv'
<1> SUFFICES ASSUME GitInv, [GitNext]_gitVars PROVE GitInv'
  OBVIOUS
<1>1. CASE UNCHANGED gitVars
  <2>1. UNCHANGED Truth
    BY <1>1 DEF gitVars, Truth, Answer
  <2>2. \A command : UNCHANGED Returned(command)
    BY <1>1 DEF gitVars, Returned, Answer
  <2> QED
    BY <1>1, <2>1, <2>2 DEF gitVars, GitInv, CapturesOK, ToldOK
<1>2. CASE GitNext
  BY <1>2, DisturbedInv, ReadInv, PollTells DEF GitNext
<1> QED
  BY <1>1, <1>2

LEMMA GitInvariant == GitSpec => []GitInv
BY GitInitInv, GitNextInv, PTL DEF GitSpec

\* After a capture that nothing disturbed the receiver of the events knows
\* changed files and patches, and commit and branch as far as their commands
\* answered, for any commits, branches, patches and changes, however many
\* captures before it were torn, had no answer for one of them or were given
\* up.
THEOREM ReceiverInformed == GitSpec => []ReceiverKnows
<1>1. GitInv => ReceiverKnows
  <2> SUFFICES ASSUME GitInv, undisturbed, reads = None
               PROVE  ReceiverKnows
    BY DEF ReceiverKnows
  <2>1. previous = Truth
    BY DEF GitInv, CapturesOK
  <2>2. Truth # None
    <3>1. Len(Truth) = 8
      BY EightCommands DEF GitInv, CapturesOK
    <3> QED
      BY <3>1, NothingRead
  <2>3. CASE told = None
    BY <2>1, <2>2, <2>3 DEF GitInv, ToldOK, ReceiverKnows
  <2>4. CASE told # None
    <3>1. Digest(told) = Digest(Truth)
      BY <2>1, <2>2, <2>4 DEF GitInv, ToldOK
    <3>2. Names(told) = Names(Truth)
      BY <3>1 DEF Digest
    <3>3. ChangedFiles(told) = ChangedFiles(Truth)
      BY <3>2 DEF ChangedFiles
    <3>4. /\ Commit(told) = Commit(Truth) /\ Branch(told) = Branch(Truth)
          /\ UnstagedPatch(told) = UnstagedPatch(Truth)
          /\ StagedPatch(told) = StagedPatch(Truth)
      BY <3>1 DEF Digest
    <3> QED
      BY <2>4, <3>3, <3>4 DEF ReceiverKnows
  <2> QED
    BY <2>3, <2>4
<1> QED
  BY <1>1, GitInvariant, PTL

\* The poll's variables.
WatchTypes ==
  /\ {event.before, event.after, expected} \subseteq Shas \cup {NoSha}
  /\ snaps \in [Shas -> {"none", "whole", "torn"}]
  /\ pc \in {"idle", "snapshot", "prepare", "insert", "request",
             "dispatch", "waiting", "hold"}
  /\ handled \in Analyses \cup {Nil}
  /\ baseline \in Shas \cup {Torn, NoSha} /\ asked \in Nat
  /\ edits \in 0..MaxEdits /\ operations \in 0..MaxOperations

LEMMA WatchTypesInit == Init => WatchTypes
BY ProductAssumption DEF Init, WatchTypes, NoEvent

LEMMA WatchTypesNext ==
  ProductInv /\ WatchTypes /\ [Next]_vars => WatchTypes'
<1> SUFFICES ASSUME ProductInv, WatchTypes, [Next]_vars PROVE WatchTypes'
  OBVIOUS
<1> USE DEF WatchTypes
<1>1. CASE EventDone /\ (UNCHANGED snaps \/ snaps' \in [Shas -> {"none", "whole", "torn"}])
  BY <1>1 DEF EventDone, NoEvent
<1>2. CASE PollBreaks \/ SnapshotFails \/ NoAnalyzer \/ DispatchAnswers \/ HoldUnavailable
  BY <1>1, <1>2 DEF PollBreaks, SnapshotFails, NoAnalyzer, DispatchAnswers, HoldUnavailable
<1>3. CASE FileEdit
  BY <1>3, ProductAssumption DEF FileEdit
<1>4. CASE Scan
  BY <1>4 DEF Scan, ProductInv, WatchOK
<1>5. CASE StoreSnapshot
  <2>1. snaps' \in [Shas -> {"none", "whole", "torn"}]
    BY <1>5 DEF StoreSnapshot
  <2>2. ComparedWith \in Shas \cup {Torn, NoSha}
    BY DEF ComparedWith
  <2> QED
    BY <1>1, <1>5, <2>1, <2>2 DEF StoreSnapshot
<1>6. CASE PrepareRead
  BY <1>1, <1>6 DEF PrepareRead
<1>7. CASE PrepareInsert
  BY <1>7 DEF PrepareInsert, NoEvent
<1>8. CASE PrepareRequest \/ DispatchFails
  BY <1>8 DEF PrepareRequest, DispatchFails
<1>9. CASE Dispatch
  <2>1. log[handled].request \in Nat
    BY <1>9 DEF Dispatch, ProductInv, WatchOK, RuntimeInv, LogsOK, LogRecords
  <2> QED
    BY <1>9, <2>1 DEF Dispatch
<1>10. CASE DeskOperates
  BY <1>10, ProductAssumption DEF DeskOperates
<1>11. CASE Operates \/ UNCHANGED watchVars
  BY <1>11 DEF Operates, watchVars
<1> QED
  BY <1>2, <1>3, <1>4, <1>5, <1>6, <1>7, <1>8, <1>9, <1>10, <1>11 DEF Next, vars

LEMMA TypesInvariant == Spec => [](RequestsInv /\ WatchTypes)
<1>1. Init => RequestsInv /\ WatchTypes
  BY RequestsInitInv, WatchTypesInit
<1>2. ProductInv /\ RequestsInv /\ WatchTypes /\ [Next]_vars => (RequestsInv /\ WatchTypes)'
  BY RequestsNextInv, WatchTypesNext
<1> QED
  BY <1>1, <1>2, ProductInvariant, PTL DEF Spec

\* The variables of the pipeline and of the process beside it keep their types. That two processes leave at most two requests in the log
\* of an analysis is part of it.
THEOREM TypeCorrect == Spec => []TypeOK
<1>1. ProductInv /\ RequestsInv => RuntimeTypeOK
  <2> SUFFICES ASSUME ProductInv, RequestsInv PROVE RuntimeTypeOK
    OBVIOUS
  <2>1. ASSUME NEW a \in Analyses
        PROVE  /\ prepared[a] \in Prepared \cup {Nil}
               /\ prepared[a] = Nil => log[a] = NoEvents
               /\ log[a] \in Logs
    <3>1. log[a] \in LogRecords
      BY DEF ProductInv, RuntimeInv, LogsOK
    <3>2. log[a].request \in Requests \cup {0} /\ log[a].answered \subseteq Requests
      BY TwoProcesses DEF RequestsInv, RequestsOK
    <3> QED
      BY <3>1, <3>2 DEF LogRecords, Logs, ProductInv, RuntimeInv, RowsOK, RequestsInv, RequestsOK
  <2> QED
    BY <2>1 DEF RuntimeTypeOK, ProductInv, RuntimeInv, IndexOK, JobsOK, RowsOK, Tables, RequestsInv
<1>2. ProductInv /\ RequestsInv /\ WatchTypes => TypeOK
  BY <1>1 DEF TypeOK, WatchTypes, ProductInv, WatchOK
<1> QED
  BY <1>2, ProductInvariant, TypesInvariant, PTL
-----------------------------------------------------------------------------
(* Outcomes *)

\* Jobs that are over are on no analysis.
JobsRest == \A p \in Processes : job[p].pc = "idle" => job[p].a = Nil

\* What an operation j alone on its analysis knows of the log l.
JobFits(j, l) ==
  /\ j.pc = "request" => l.request = 0
  /\ j.kind = "APPROVE" /\ j.pc \in {"receive", "judge", "index"} => l.action # "INDEX"
  /\ j.kind # "APPROVE" /\ j.pc \in {"index", "record", "finish"} => j.action # "INDEX"
  /\ j.pc = "finish" => l.action = j.action

\* What is indexed is not approved again.
LogFits(l) ==
  /\ l.request <= 1
  /\ l.action = "INDEX" => l.state \notin {"AWAITING_APPROVAL", "HOLD"}

IsIndexed(a) == prepared[a].cand \in Stored(rank)

\* The index is as the log says, or as the operation says that is about to
\* record it.
IndexFits(a) ==
  (prepared[a] # Nil /\ Candidates(a) = {a}) =>
    /\ (\A p \in Busy(a) : job[p].pc # "record") => ((log[a].action = "INDEX") = IsIndexed(a))
    /\ \A p \in Busy(a) : job[p].pc = "record" => ((job[p].action = "INDEX") = IsIndexed(a))

OutcomeOK(a) ==
  /\ \A p, q \in Busy(a) : p = q
  /\ LogFits(log[a])
  /\ \A p \in Busy(a) : JobFits(job[p], log[a])
  /\ IndexFits(a)

OutcomesOK == JobsRest /\ \A a \in Analyses \ overlapped : OutcomeOK(a)

LEMMA OutcomesInit == Init => OutcomesOK
<1> SUFFICES ASSUME Init PROVE OutcomesOK
  OBVIOUS
<1>1. RuntimeInit
  BY DEF Init
<1>2. \A a \in Analyses : Busy(a) = {}
  BY <1>1, NilAssumption DEF RuntimeInit, Busy, NoJob
<1>3. \A a \in Analyses : LogFits(log[a]) /\ prepared[a] = Nil
  BY <1>1 DEF RuntimeInit, LogFits, NoEvents
<1> QED
  BY <1>1, <1>2, <1>3 DEF RuntimeInit, OutcomesOK, OutcomeOK, IndexFits, JobsRest, NoJob

\* The analyses a step is not about.
LEMMA OutcomeKept ==
  ASSUME NEW a \in Analyses, OutcomeOK(a),
         log'[a].request = log[a].request, log'[a].action = log[a].action,
         log'[a].state \in {log[a].state, "ANALYSIS_FAILED"},
         prepared[a] # Nil => prepared'[a] = prepared[a],
         Busy(a)' = Busy(a), \A p \in Busy(a) : job'[p] = job[p],
         prepared'[a] # Nil /\ Candidates(a)' = {a} =>
           prepared[a] # Nil /\ Candidates(a) = {a} /\ IsIndexed(a)' = IsIndexed(a)
  PROVE  OutcomeOK(a)'
<1>1. LogFits(log'[a])
  BY DEF OutcomeOK, LogFits
<1>2. \A p \in Busy(a)' : JobFits(job'[p], log'[a])
  BY DEF OutcomeOK, JobFits
<1>3. IndexFits(a)'
  BY DEF OutcomeOK, IndexFits
<1> QED
  BY <1>1, <1>2, <1>3 DEF OutcomeOK

\* Rows of other analyses are about other content, if a is alone about its.
LEMMA OtherContent ==
  ASSUME ProductInv, NEW a \in Analyses, NEW b \in Analyses, a # b,
         prepared[b] # Nil, Candidates(a) = {a}
  PROVE  prepared[b].cand # prepared[a].cand
BY DEF Candidates

\* A step of the operation of p on b, without a new row: it is enough to look
\* at b.
LEMMA OutcomesStep ==
  ASSUME ProductInv, OutcomesOK, NEW p \in Processes, NEW b \in Analyses,
         prepared[b] # Nil, job[p].pc = "idle" \/ job[p].a = b,
         NEW k, job' = [job EXCEPT ![p] = k], k.a \in {b, Nil}, k.pc = "idle" => k.a = Nil,
         \A a \in Analyses : a # b => log'[a] = log[a],
         UNCHANGED prepared, overlapped \subseteq overlapped',
         Stored(rank) \ {prepared[b].cand} = Stored(rank') \ {prepared[b].cand},
         b \notin overlapped' => OutcomeOK(b)'
  PROVE  OutcomesOK'
<1>1. job \in [Processes -> Jobs]
  BY DEF ProductInv, RuntimeInv, JobsOK
<1>2. JobsRest'
  BY <1>1 DEF OutcomesOK, JobsRest
<1>3. ASSUME NEW a \in Analyses, a \notin overlapped', a # b
      PROVE  OutcomeOK(a)'
  <2>1. job[p].a # a /\ k.a # a
    BY <1>3, NilAssumption DEF OutcomesOK, JobsRest
  <2>2. Busy(a)' = Busy(a) /\ \A q \in Busy(a) : job'[q] = job[q]
    BY <1>1, <2>1 DEF Busy
  <2>3. Candidates(a)' = Candidates(a)
    BY DEF Candidates
  <2>4. Candidates(a) = {a} => IsIndexed(a)' = IsIndexed(a)
    BY <1>3, OtherContent DEF IsIndexed
  <2> QED
    BY <1>3, <2>2, <2>3, <2>4, OutcomeKept DEF OutcomesOK
<1> QED
  BY <1>2, <1>3 DEF OutcomesOK

\* What there is to show of b, when p alone works on it.
LEMMA OwnOutcome ==
  ASSUME ProductInv, NEW p \in Processes, NEW b \in Analyses,
         \A q \in Busy(b) : q = p,
         NEW k, job' = [job EXCEPT ![p] = k],
         LogFits(log'[b]), k.a = b => JobFits(k, log'[b]),
         prepared'[b] # Nil /\ Candidates(b)' = {b} =>
           IF k.a = b /\ k.pc = "record"
           THEN (k.action = "INDEX") = IsIndexed(b)'
           ELSE (log'[b].action = "INDEX") = IsIndexed(b)'
  PROVE  OutcomeOK(b)'
<1>1. job \in [Processes -> Jobs]
  BY DEF ProductInv, RuntimeInv, JobsOK
<1>2. \A q \in Busy(b)' : q = p /\ job'[q] = k /\ k.a = b
  BY <1>1 DEF Busy
<1>3. k.a = b => p \in Busy(b)'
  BY <1>1 DEF Busy
<1>4. IndexFits(b)'
  BY <1>2, <1>3 DEF IndexFits
<1> QED
  BY <1>2, <1>4 DEF OutcomeOK

LEMMA OutcomesBegun ==
  ASSUME ProductInv, OutcomesOK, NEW p \in Processes, NEW b \in Analyses, Starts(p, b)
  PROVE  OutcomesOK'
<1>1. PICK j \in Jobs :
        /\ Begin(p, j) /\ j.a = b /\ prepared[b] # Nil
        /\ j.pc \in {"request", "receive", "judge", "index"}
        /\ j.pc = "request" => log[b].request = 0
        /\ j.kind = "APPROVE" => log[b].state \in {"AWAITING_APPROVAL", "HOLD"}
        /\ j.pc = "index" => j.action = "HOLD"
        /\ UNCHANGED <<rank, prepared, log>>
  BY StartedJob
<1>2. /\ job[p].pc = "idle" /\ job' = [job EXCEPT ![p] = j]
      /\ overlapped \subseteq overlapped'
      /\ b \notin overlapped' => Busy(b) = {} /\ b \notin overlapped
  BY <1>1 DEF Begin, NoJob
<1>3. ASSUME b \notin overlapped'
      PROVE  OutcomeOK(b)'
  <2>1. OutcomeOK(b) /\ Busy(b) = {}
    BY <1>2, <1>3 DEF OutcomesOK
  <2>2. LogFits(log[b]) /\ JobFits(j, log[b])
    BY <1>1, <2>1 DEF OutcomeOK, LogFits, JobFits
  <2>3. prepared[b] # Nil /\ Candidates(b) = {b} => (log[b].action = "INDEX") = IsIndexed(b)
    BY <2>1 DEF OutcomeOK, IndexFits
  <2>4. Candidates(b)' = Candidates(b) /\ IsIndexed(b)' = IsIndexed(b)
    BY <1>1 DEF Candidates, IsIndexed
  <2> QED
    BY <1>1, <1>2, <2>1, <2>2, <2>3, <2>4, OwnOutcome
<1> QED
  BY <1>1, <1>2, <1>3, OutcomesStep

\* What is known of the operation of p if nobody else worked on its analysis.
LEMMA OutcomeUnderWay ==
  ASSUME ProductInv, OutcomesOK, NEW p \in Processes, NEW b \in Analyses,
         job[p].a = b, b \notin overlapped
  PROVE  /\ \A q \in Busy(b) : q = p
         /\ LogFits(log[b]) /\ JobFits(job[p], log[b])
         /\ prepared[b] # Nil /\ Candidates(b) = {b} =>
              IF job[p].pc = "record"
              THEN (job[p].action = "INDEX") = IsIndexed(b)
              ELSE (log[b].action = "INDEX") = IsIndexed(b)
<1>1. p \in Busy(b)
  BY DEF Busy
<1>2. OutcomeOK(b)
  BY DEF OutcomesOK
<1> QED
  BY <1>1, <1>2 DEF OutcomeOK, IndexFits

\* A step under way, on to the job k: what it has to establish if nobody else
\* worked on b.
LEMMA OutcomesLogged ==
  ASSUME ProductInv, OutcomesOK, NEW p \in Processes, NEW b \in Analyses,
         job[p].a = b, prepared[b] # Nil,
         NEW k, job' = [job EXCEPT ![p] = k], k.a \in {b, Nil}, k.pc = "idle" => k.a = Nil,
         \A a \in Analyses : a # b => log'[a] = log[a],
         UNCHANGED <<prepared, overlapped>>,
         Stored(rank) \ {prepared[b].cand} = Stored(rank') \ {prepared[b].cand},
         b \notin overlapped =>
           /\ LogFits(log'[b])
           /\ k.a = b => JobFits(k, log'[b])
           /\ Candidates(b) = {b} =>
                IF k.a = b /\ k.pc = "record"
                THEN (k.action = "INDEX") = IsIndexed(b)'
                ELSE (log'[b].action = "INDEX") = IsIndexed(b)'
  PROVE  OutcomesOK'
<1>1. ASSUME b \notin overlapped
      PROVE  OutcomeOK(b)'
  <2>1. \A q \in Busy(b) : q = p
    BY <1>1, OutcomeUnderWay
  <2>2. Candidates(b)' = Candidates(b)
    BY DEF Candidates
  <2> QED
    BY <1>1, <2>1, <2>2, OwnOutcome
<1> QED
  BY <1>1, OutcomesStep

LEMMA OutcomesContinued ==
  ASSUME ProductInv, OutcomesOK, NEW p \in Processes, Continue(p)
  PROVE  OutcomesOK'
<1>1. job[p].pc # "idle"
  BY DEF Continue, RequestAppend, Receive, Judge, Removes, Indexes, Stale, Record, Finish
<1> PICK b \in Analyses : job[p].a = b
  BY <1>1, JobRow DEF ProductInv
<1>2. /\ job[p] \in Jobs /\ JobOK(job[p], prepared, approved, log)
      /\ b \in Analyses /\ prepared[b] # Nil /\ prepared[b].cand \in Shas
      /\ log[b] \in LogRecords /\ log \in [Analyses -> LogRecords]
      /\ job \in [Processes -> Jobs] /\ rank \in Tables
  BY <1>1, JobRow DEF ProductInv, RuntimeInv, JobsOK, LogsOK, IndexOK
<1>3. b \notin overlapped =>
        /\ LogFits(log[b]) /\ JobFits(job[p], log[b])
        /\ Candidates(b) = {b} =>
             IF job[p].pc = "record"
             THEN (job[p].action = "INDEX") = IsIndexed(b)
             ELSE (log[b].action = "INDEX") = IsIndexed(b)
  BY <1>2, OutcomeUnderWay
<1>4. NoJob.a = Nil /\ NoJob.pc = "idle" /\ Nil # b
  BY <1>2, NilAssumption DEF NoJob
<1>5. CASE RequestAppend(p)
  <2>1. /\ job[p].pc = "request" /\ job' = [job EXCEPT ![p] = NoJob]
        /\ UNCHANGED <<rank, prepared, overlapped>>
    BY <1>5 DEF RequestAppend, Ends
  <2>2. /\ log'[b].request = log[b].request + 1 /\ log'[b].action = log[b].action
        /\ log'[b].state = "ANALYSIS_REQUESTED"
        /\ \A a \in Analyses : a # b => log'[a] = log[a]
    BY <1>2, <1>5 DEF RequestAppend, Requested, LogRecords
  <2>3. b \notin overlapped => LogFits(log'[b])
    BY <1>3, <2>1, <2>2 DEF JobFits, LogFits
  <2>4. IsIndexed(b)' = IsIndexed(b)
    BY <2>1 DEF IsIndexed
  <2> QED
    BY <1>2, <1>3, <1>4, <2>1, <2>2, <2>3, <2>4, OutcomesLogged
<1>6. CASE Receive(p) \/ Judge(p)
  <2>1. PICK k \in Jobs :
          /\ job' = [job EXCEPT ![p] = k] /\ k.a = b /\ k.kind = job[p].kind
          /\ k.pc \in {"judge", "index"}
          /\ k.pc = "index" /\ k.action = "INDEX" => k.kind = "APPROVE"
    <3>1. CASE Receive(p)
      <4> DEFINE k == [job[p] EXCEPT !.pc = "judge"]
      <4>1. k \in Jobs /\ k.a = b /\ k.kind = job[p].kind /\ k.pc = "judge"
        BY <1>2 DEF Jobs
      <4>2. job' = [job EXCEPT ![p] = k]
        BY <1>2, <3>1 DEF Receive, Goes
      <4> HIDE DEF k
      <4> QED
        BY <4>1, <4>2
    <3>2. CASE Judge(p)
      <4>1. PICK action \in {"QUARANTINE", "HOLD", "INDEX"} :
              /\ job' = [job EXCEPT ![p] = [job[p] EXCEPT !.pc = "index", !.action = action]]
              /\ action = "INDEX" => job[p].kind # "SUBMIT"
        BY <1>2, <3>2 DEF Judge
      <4> DEFINE k == [job[p] EXCEPT !.pc = "index", !.action = action]
      <4>2. /\ k \in Jobs /\ k.a = b /\ k.kind = job[p].kind
            /\ k.pc = "index" /\ k.action = action
        BY <1>2, <4>1 DEF Jobs, Actions
      <4>3. job[p].pc = "judge" /\ job[p].kind \in {"SUBMIT", "APPROVE"}
        BY <1>2, <3>2 DEF Judge, JobOK
      <4> HIDE DEF k
      <4> QED
        BY <4>1, <4>2, <4>3 DEF k
    <3> QED
      BY <1>6, <3>1, <3>2
  <2>2. /\ UNCHANGED <<rank, prepared, overlapped>> /\ job[p].pc \in {"receive", "judge"}
        /\ log'[b].request = log[b].request /\ log'[b].action = log[b].action
        /\ log'[b].state = log[b].state
        /\ \A a \in Analyses : a # b => log'[a] = log[a]
    BY <1>2, <1>6 DEF Receive, ReceivedFor, Judge, LogRecords
  <2>3. b \notin overlapped => LogFits(log'[b]) /\ JobFits(k, log'[b])
    BY <1>3, <2>1, <2>2 DEF JobFits, LogFits
  <2>4. IsIndexed(b)' = IsIndexed(b)
    BY <2>2 DEF IsIndexed
  <2> QED
    BY <1>2, <1>3, <2>1, <2>2, <2>3, <2>4, OutcomesLogged
<1>7. CASE Removes(p) \/ Indexes(p) \/ Stale(p)
  <2>1. job[p].pc = "index" /\ UNCHANGED <<prepared, log, overlapped>>
    BY <1>7 DEF Removes, Indexes, Stale
  <2>2. PICK action \in Actions :
          /\ job' = [job EXCEPT ![p] = [job[p] EXCEPT !.pc = "record", !.action = action]]
          /\ action = (IF Stale(p) THEN "QUARANTINE" ELSE job[p].action)
    <3>1. CASE Stale(p)
      BY <1>2, <3>1 DEF Stale, Actions
    <3>2. CASE ~Stale(p)
      BY <1>2, <1>7, <3>2 DEF Removes, Indexes, Goes, Jobs
    <3> QED
      BY <3>1, <3>2
  <2>3. PICK k : /\ job' = [job EXCEPT ![p] = k] /\ k.a = b /\ k.pc = "record"
                 /\ k.kind = job[p].kind /\ k.action = action
    <3> DEFINE k == [job[p] EXCEPT !.pc = "record", !.action = action]
    <3>1. k.a = b /\ k.pc = "record" /\ k.kind = job[p].kind /\ k.action = action
      BY <1>2 DEF Jobs
    <3>2. job' = [job EXCEPT ![p] = k]
      BY <2>2
    <3> HIDE DEF k
    <3> QED
      BY <3>1, <3>2
  <2>4. /\ Stored(rank) \ {prepared[b].cand} = Stored(rank') \ {prepared[b].cand}
        /\ b \notin overlapped /\ Candidates(b) = {b} => (action = "INDEX") = IsIndexed(b)'
    <3>1. CASE Removes(p)
      <4>1. Stored(rank') = Stored(rank) \ {prepared[b].cand} /\ action # "INDEX"
        BY <1>2, <2>2, <3>1, DropStored DEF Removes, Stale
      <4> QED
        BY <2>1, <4>1 DEF IsIndexed
    <3>2. CASE Indexes(p)
      <4>1. Stored(rank') = Stored(rank) \cup {prepared[b].cand} /\ action = "INDEX"
        BY <1>2, <2>2, <3>2, PutStored DEF Indexes, Stale
      <4> QED
        BY <2>1, <4>1 DEF IsIndexed
    <3>3. CASE Stale(p)
      <4>1. job[p].action = "INDEX" /\ job[p].kind = "APPROVE" /\ UNCHANGED rank
        BY <1>2, <3>3 DEF Stale, JobOK
      <4>2. b \notin overlapped => log[b].action # "INDEX"
        BY <1>3, <2>1, <4>1 DEF JobFits
      <4> QED
        BY <1>3, <2>1, <2>2, <3>3, <4>1, <4>2 DEF IsIndexed
    <3> QED
      BY <1>7, <3>1, <3>2, <3>3
  <2>5. b \notin overlapped => LogFits(log'[b]) /\ JobFits(k, log'[b])
    <3>1. job[p].kind # "APPROVE" => action # "INDEX"
      BY <1>2, <2>1, <2>2 DEF JobOK
    <3> QED
      BY <1>3, <2>1, <2>3, <3>1 DEF JobFits
  <2> QED
    BY <1>2, <2>1, <2>3, <2>4, <2>5, OutcomesLogged
<1>8. CASE Record(p)
  <2>1. /\ job[p].pc = "record" /\ UNCHANGED <<rank, prepared, overlapped>>
        /\ log' = [log EXCEPT ![b].state = StateFor(job[p].action, log[b].policy),
                              ![b].action = job[p].action,
                              ![b].quarantined = @ \/ job[p].action = "QUARANTINE"]
    BY <1>8 DEF Record, GateApplied
  <2>2. /\ log'[b].request = log[b].request /\ log'[b].action = job[p].action
        /\ log'[b].state = StateFor(job[p].action, log[b].policy)
        /\ \A a \in Analyses : a # b => log'[a] = log[a]
    BY <1>2, <2>1 DEF LogRecords
  <2>3. b \notin overlapped => LogFits(log'[b])
    BY <1>3, <2>2 DEF LogFits, StateFor
  <2>4. PICK k : /\ job' = [job EXCEPT ![p] = k] /\ k.a \in {b, Nil}
                 /\ k.pc = "idle" => k.a = Nil
                 /\ k.a = b => k.pc = "finish" /\ k.kind = job[p].kind /\ k.action = job[p].action
                 /\ k.pc # "record"
    <3>1. CASE job[p].kind = "UNAVAILABLE"
      BY <1>4, <1>8, <3>1 DEF Record, Ends
    <3>2. CASE job[p].kind # "UNAVAILABLE"
      <4> DEFINE k == [job[p] EXCEPT !.pc = "finish"]
      <4>1. job' = [job EXCEPT ![p] = k]
        BY <1>2, <1>8, <3>2 DEF Record, Goes
      <4>2. k.a = b /\ k.pc = "finish" /\ k.kind = job[p].kind /\ k.action = job[p].action
        BY <1>2 DEF Jobs
      <4> HIDE DEF k
      <4> QED
        BY <4>1, <4>2
    <3> QED
      BY <3>1, <3>2
  <2>5. b \notin overlapped /\ k.a = b => JobFits(k, log'[b])
    BY <1>3, <2>1, <2>2, <2>4 DEF JobFits
  <2>6. b \notin overlapped /\ Candidates(b) = {b} =>
          (log'[b].action = "INDEX") = IsIndexed(b)'
    BY <1>3, <2>1, <2>2 DEF IsIndexed
  <2>7. Stored(rank) \ {prepared[b].cand} = Stored(rank') \ {prepared[b].cand}
    BY <2>1
  <2>8. /\ \A a \in Analyses : a # b => log'[a] = log[a]
        /\ UNCHANGED <<prepared, overlapped>>
    BY <2>1, <2>2
  <2>9. b \notin overlapped =>
          /\ LogFits(log'[b])
          /\ k.a = b => JobFits(k, log'[b])
          /\ Candidates(b) = {b} =>
               IF k.a = b /\ k.pc = "record"
               THEN (k.action = "INDEX") = IsIndexed(b)'
               ELSE (log'[b].action = "INDEX") = IsIndexed(b)'
    BY <2>3, <2>4, <2>5, <2>6
  <2> QED
    BY <1>2, <2>4, <2>7, <2>8, <2>9, OutcomesLogged
<1>9. CASE Finish(p)
  <2>1. /\ job[p].pc = "finish" /\ job' = [job EXCEPT ![p] = NoJob]
        /\ UNCHANGED <<rank, prepared, overlapped>>
    BY <1>9 DEF Finish, Ends
  <2>2. /\ log'[b].request = log[b].request /\ log'[b].action = log[b].action
        /\ \A a \in Analyses : a # b => log'[a] = log[a]
    BY <1>2, <1>9 DEF Finish, Applied, Completed, LogRecords
  <2>3. b \notin overlapped => LogFits(log'[b])
    <3>1. CASE job[p].kind = "SUBMIT"
      <4>1. b \notin overlapped => log[b].action # "INDEX"
        BY <1>3, <2>1, <3>1 DEF JobFits
      <4> QED
        BY <1>3, <2>2, <4>1 DEF LogFits
    <3>2. CASE job[p].kind = "HOLD"
      <4>1. b \notin overlapped => log[b].action # "INDEX"
        BY <1>3, <2>1, <3>2 DEF JobFits
      <4> QED
        BY <1>3, <2>2, <4>1 DEF LogFits
    <3>3. CASE job[p].kind \notin {"SUBMIT", "HOLD"}
      <4>1. log' = log
        BY <1>9, <3>3 DEF Finish, Completed
      <4> QED
        BY <1>3, <4>1
    <3> QED
      BY <3>1, <3>2, <3>3
  <2>4. IsIndexed(b)' = IsIndexed(b)
    BY <2>1 DEF IsIndexed
  <2> QED
    BY <1>2, <1>3, <1>4, <2>1, <2>2, <2>3, <2>4, OutcomesLogged
<1> QED
  BY <1>5, <1>6, <1>7, <1>8, <1>9 DEF Continue

\* A row for new content: nothing of it is in the index yet, for what is
\* there was approved under a row of its own.
LEMMA OutcomesInserted ==
  ASSUME ProductInv, RequestsInv, OutcomesOK, PrepareInsert
  PROVE  OutcomesOK'
<1>1. PICK b \in Analyses :
        /\ prepared[b] = Nil
        /\ \E row : prepared' = [prepared EXCEPT ![b] = row]
  BY DEF PrepareInsert
<1>2. UNCHANGED <<rank, log, job, approved, overlapped>>
  BY DEF PrepareInsert
<1>3. /\ prepared \in [Analyses -> Prepared \cup {Nil}]
      /\ job \in [Processes -> Jobs]
      /\ approved \subseteq {a \in Analyses : prepared[a] # Nil}
  BY DEF ProductInv, RuntimeInv, RowsOK, JobsOK
<1>4. \A a \in Analyses : a # b => prepared'[a] = prepared[a]
  BY <1>1, <1>3
<1>5. JobsRest'
  BY <1>2 DEF OutcomesOK, JobsRest
<1>6. Busy(b) = {}
  <2>1. ASSUME NEW p \in Processes, job[p].a = b
        PROVE  FALSE
    <3>1. job[p].pc = "idle" => Nil = b
      BY <2>1 DEF OutcomesOK, JobsRest
    <3>2. job[p].pc # "idle" => prepared[b] # Nil
      BY <2>1, JobRow DEF ProductInv
    <3> QED
      BY <1>1, <3>1, <3>2, NilAssumption
  <2> QED
    BY <2>1 DEF Busy
<1>7. \A a \in Analyses : UNCHANGED Busy(a)
  BY <1>2 DEF Busy
<1>8. ASSUME NEW a \in Analyses, a \notin overlapped, a # b
      PROVE  OutcomeOK(a)'
  <2>1. prepared'[a] # Nil /\ Candidates(a)' = {a} => prepared[a] # Nil /\ Candidates(a) = {a}
    BY <1>1, <1>4, <1>8 DEF Candidates
  <2>2. IsIndexed(a)' = IsIndexed(a)
    BY <1>2, <1>4, <1>8 DEF IsIndexed
  <2> QED
    BY <1>2, <1>4, <1>7, <1>8, <2>1, <2>2, OutcomeKept DEF OutcomesOK
<1>9. ASSUME b \notin overlapped
      PROVE  OutcomeOK(b)'
  <2>1. log'[b] = NoEvents
    BY <1>1, <1>2 DEF RequestsInv, RequestsOK
  <2>2. LogFits(log'[b]) /\ log'[b].action = "NONE"
    BY <2>1 DEF NoEvents, LogFits
  <2>3. Candidates(b)' = {b} => ~IsIndexed(b)'
    <3> SUFFICES ASSUME Candidates(b)' = {b}, IsIndexed(b)'
                 PROVE  FALSE
      OBVIOUS
    <3>1. prepared'[b].cand \in Stored(rank)
      BY <1>2 DEF IsIndexed
    <3>2. PICK a \in approved : prepared[a].cand = prepared'[b].cand
      BY <3>1 DEF ProductInv, RuntimeInv, IndexOK, ApprovedByBoth
    <3>3. a \in Analyses /\ prepared[a] # Nil /\ a # b
      BY <1>1, <1>3
    <3>4. a \in Candidates(b)'
      BY <1>4, <3>2, <3>3 DEF Candidates
    <3> QED
      BY <3>3, <3>4
  <2>4. Busy(b)' = {}
    BY <1>6, <1>7
  <2>5. IndexFits(b)'
    BY <2>2, <2>3, <2>4 DEF IndexFits, IsIndexed
  <2> QED
    BY <2>2, <2>4, <2>5 DEF OutcomeOK
<1> QED
  BY <1>2, <1>5, <1>8, <1>9 DEF OutcomesOK

LEMMA OutcomesNextInv ==
  ProductInv /\ RequestsInv /\ OutcomesOK /\ [Next]_vars => OutcomesOK'
<1> SUFFICES ASSUME ProductInv, RequestsInv, OutcomesOK, [Next]_vars PROVE OutcomesOK'
  OBVIOUS
<1>1. CASE UNCHANGED runtimeVars
  BY <1>1 DEF runtimeVars, OutcomesOK, OutcomeOK, JobsRest, IndexFits, IsIndexed, Busy, Candidates
<1>2. CASE DispatchFails /\ handled \in Analyses /\ prepared[handled] # Nil
  <2>1. UNCHANGED <<rank, prepared, job, overlapped>> /\ log \in [Analyses -> LogRecords]
    BY <1>2 DEF DispatchFails, ProductInv, RuntimeInv, LogsOK
  <2>2. \A a \in Analyses :
          /\ log'[a].request = log[a].request /\ log'[a].action = log[a].action
          /\ log'[a].state \in {log[a].state, "ANALYSIS_FAILED"}
    BY <1>2, <2>1 DEF DispatchFails, DispatchFailed, LogRecords
  <2>3. \A a \in Analyses : UNCHANGED <<Busy(a), Candidates(a), IsIndexed(a)>>
    BY <2>1 DEF Busy, Candidates, IsIndexed
  <2>4. \A a \in Analyses \ overlapped : OutcomeOK(a)'
    BY <2>1, <2>2, <2>3, OutcomeKept DEF OutcomesOK
  <2> QED
    BY <2>1, <2>4 DEF OutcomesOK, JobsRest
<1> QED
  BY <1>1, <1>2, RuntimeSteps, OutcomesInserted, OutcomesBegun, OutcomesContinued

\* For any number of analyses and versions: as long as no two processes work
\* on an analysis at once, it is requested once, and the index is as its last
\* outcome says, whatever happens to the other analyses.
THEOREM OutcomesTrue == Spec => []OutcomeIsTrue
<1>1. OutcomesOK => OutcomeIsTrue
  BY DEF OutcomesOK, OutcomeOK, OutcomeIsTrue, LogFits, IndexFits, IsIndexed
<1>2. ProductInv /\ RequestsInv /\ OutcomesOK /\ [Next]_vars => OutcomesOK'
  BY OutcomesNextInv
<1> QED
  BY <1>1, <1>2, OutcomesInit, ProductInvariant, TypesInvariant, PTL DEF Spec
=============================================================================
