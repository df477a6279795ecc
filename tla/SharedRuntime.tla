---------------------------- MODULE SharedRuntime ---------------------------
(***************************************************************************)
(* One runtime directory used by several processes: the product pipeline   *)
(* and, beside it, a command line, the HTTP service or the MCP server. Each *)
(* process has an operations lock of its own, so the operations of two     *)
(* processes interleave at every read and every commit; only the two       *)
(* databases serialise them. The audit log is kept as what the code reads   *)
(* from it, brought up to date by every event. One document; hard-blocking artifacts,       *)
(* failing commits, restarts and reanalyses are those of Gateway.          *)
(***************************************************************************)
EXTENDS VersionOrder

CONSTANTS Analyses,    \* analysis ids (bound: each is used once)
          Processes,   \* the processes on the directory
          Nil,         \* None
          Torn         \* the digest of a snapshot that was cut short

ASSUME RuntimeAssumption == {Nil, Torn, NoSha} \cap Shas = {} /\ Nil # Torn

VARIABLES rank,        \* the rows of the document in the index
          prepared,    \* prepared[a]: the immutable row of analyses
          log,         \* log[a]: what is read from a's audit events
          job,         \* job[p]: the operation that holds p's lock
          approved,    \* history: analyses whose APPROVE was admitted
          overlapped   \* history: analyses two processes worked on at once

runtimeVars == <<rank, prepared, log, job, approved, overlapped>>

Policies == {"ALLOW", "REVIEW", "BLOCK"}

Prepared == [baseline : Shas \cup {Torn}, cand : Shas, expected : Shas \cup {NoSha}]

\* None is no analysis, no result and no row.
ASSUME NilAssumption == Nil \notin Analyses \cup Policies \cup Prepared

Kinds == {"REQUEST", "SUBMIT", "APPROVE", "HOLD", "UNAVAILABLE"}

\* A process requests once at most: it finds its own request the next time.
Requests == 1..Cardinality(Processes)

States == {"PREPARED", "ANALYSIS_REQUESTED", "ANALYSIS_FAILED",
           "AWAITING_APPROVAL", "HOLD", "INDEXED", "QUARANTINED"}

Actions == {"NONE", "INDEX", "HOLD", "QUARANTINE"}

\* The readings of a log: get_status's state and policy, the latest request
\* (requests are numbered in the log's order), the result received for each
\* request, the requests answered, the last outcome of the gate, whether one
\* was a quarantine, and (history) whether ALLOW was ever applied.
Logs == [state : States, policy : Policies \cup {Nil}, request : Requests \cup {0},
         received : [Requests -> Policies \cup {Nil}], answered : SUBSET Requests,
         action : Actions, quarantined : BOOLEAN, allowed : BOOLEAN]

NoEvents ==
  [state |-> "PREPARED", policy |-> Nil, request |-> 0,
   received |-> [r \in Requests |-> Nil], answered |-> {},
   action |-> "NONE", quarantined |-> FALSE, allowed |-> FALSE]

Jobs == [kind : Kinds \cup {"NONE"},
         pc : {"idle", "request", "receive", "judge", "index", "record", "finish"},
         a : Analyses \cup {Nil}, req : Nat, policy : Policies \cup {Nil},
         action : Actions]

NoJob == [kind |-> "NONE", pc |-> "idle", a |-> Nil, req |-> 0,
          policy |-> Nil, action |-> "NONE"]

RuntimeInit ==
  /\ rank = NoVersions
  /\ prepared = [a \in Analyses |-> Nil]
  /\ log = [a \in Analyses |-> NoEvents]
  /\ job = [p \in Processes |-> NoJob]
  /\ approved = {}
  /\ overlapped = {}

RuntimeTypeOK ==
  /\ rank \in [Shas -> Nat]
  /\ \A a \in Analyses : /\ prepared[a] \in Prepared \cup {Nil}
                         /\ prepared[a] = Nil => log[a] = NoEvents
                         /\ log[a] \in Logs
  /\ job \in [Processes -> Jobs]
  /\ approved \subseteq Analyses /\ overlapped \subseteq Analyses
-----------------------------------------------------------------------------
(* The log: append_event, and what get_status and the look-ups make of it *)

\* _state_for_outcome
StateFor(action, policy) ==
  CASE action = "INDEX" -> "INDEXED"
    [] action = "QUARANTINE" -> "QUARANTINED"
    [] OTHER -> IF policy = "ALLOW" THEN "AWAITING_APPROVAL" ELSE "HOLD"

\* One transaction each, after whatever the other process has appended.
Requested(a) ==
  log' = [log EXCEPT ![a].request = @ + 1, ![a].state = "ANALYSIS_REQUESTED"]

ReceivedFor(a, r, policy) == log' = [log EXCEPT ![a].received[r] = policy]

DispatchFailed(a) == log' = [log EXCEPT ![a].state = "ANALYSIS_FAILED"]

GateApplied(a, action) ==
  log' = [log EXCEPT ![a].state = StateFor(action, log[a].policy),
                     ![a].action = action,
                     ![a].quarantined = @ \/ action = "QUARANTINE"]

Applied(a, r, policy, action) ==
  log' = [log EXCEPT ![a].state = StateFor(action, policy), ![a].policy = policy,
                     ![a].answered = @ \cup {r}, ![a].allowed = @ \/ policy = "ALLOW"]

Completed(a, kind) ==
  log' = IF kind = "HOLD" THEN [log EXCEPT ![a].state = "HOLD"] ELSE log
-----------------------------------------------------------------------------
(* Operations. Each begins with what it reads under its own process's lock. *)

Busy(a) == {p \in Processes : job[p].a = a}

Begin(p, j) ==
  /\ job[p] = NoJob
  /\ job' = [job EXCEPT ![p] = j]
  /\ overlapped' = IF Busy(j.a) = {} THEN overlapped ELSE overlapped \cup {j.a}

Goes(p, pc) == job' = [job EXCEPT ![p].pc = pc]

Ends(p) == job' = [job EXCEPT ![p] = NoJob]

\* Mutant: every call makes a request.
RequestStart_Again(p, a) ==
  /\ prepared[a] # Nil
  /\ Begin(p, [NoJob EXCEPT !.kind = "REQUEST", !.pc = "request", !.a = a])
  /\ UNCHANGED <<rank, prepared, log, approved>>

\* ensure_request: no request was there when it looked.
RequestStart(p, a) ==
  /\ prepared[a] # Nil /\ log[a].request = 0
  /\ Begin(p, [NoJob EXCEPT !.kind = "REQUEST", !.pc = "request", !.a = a])
  /\ UNCHANGED <<rank, prepared, log, approved>>

RequestAppend(p) ==
  /\ job[p].pc = "request"
  /\ Requested(job[p].a)
  /\ Ends(p)
  /\ UNCHANGED <<rank, prepared, approved, overlapped>>

\* submit_policy_result's checks of a result for request r.
Admissible(a, r, policy) ==
  /\ r # 0 /\ r = log[a].request
  /\ log[a].received[r] \in {Nil, policy}
  /\ r \notin log[a].answered

SubmitStart(p, a, r, policy) ==
  /\ Admissible(a, r, policy)
  /\ Begin(p, [NoJob EXCEPT !.kind = "SUBMIT", !.a = a, !.req = r, !.policy = policy,
                            !.pc = IF log[a].received[r] = Nil THEN "receive" ELSE "judge"])
  /\ UNCHANGED <<rank, prepared, log, approved>>

Receive(p) ==
  /\ job[p].pc = "receive"
  /\ ReceivedFor(job[p].a, job[p].req, job[p].policy)
  /\ Goes(p, "judge")
  /\ UNCHANGED <<rank, prepared, approved, overlapped>>

\* Mutant: the applied policy is not looked at.
ApproveStart_AnyPolicy(p, a) ==
  /\ prepared[a] # Nil
  /\ log[a].state \in {"AWAITING_APPROVAL", "HOLD"}
  /\ Begin(p, [NoJob EXCEPT !.kind = "APPROVE", !.pc = "judge", !.a = a, !.policy = "ALLOW"])
  /\ approved' = approved \cup {a}
  /\ UNCHANGED <<rank, prepared, log>>

\* execute_command APPROVE.
ApproveStart(p, a) ==
  /\ prepared[a] # Nil
  /\ log[a].state \in {"AWAITING_APPROVAL", "HOLD"} /\ log[a].policy = "ALLOW"
  /\ Begin(p, [NoJob EXCEPT !.kind = "APPROVE", !.pc = "judge", !.a = a, !.policy = "ALLOW"])
  /\ approved' = approved \cup {a}
  /\ UNCHANGED <<rank, prepared, log>>

\* execute_command HOLD: gate.hold, without a verdict.
HoldStart(p, a) ==
  /\ prepared[a] # Nil
  /\ log[a].state \notin {"HOLD", "QUARANTINED"}
  /\ Begin(p, [NoJob EXCEPT !.kind = "HOLD", !.pc = "index", !.a = a, !.action = "HOLD"])
  /\ UNCHANGED <<rank, prepared, log, approved>>

\* _process_document after a failed dispatch: gate.hold, nothing else.
UnavailableStart(p, a) ==
  /\ Begin(p, [NoJob EXCEPT !.kind = "UNAVAILABLE", !.pc = "index", !.a = a, !.action = "HOLD"])
  /\ UNCHANGED <<rank, prepared, log, approved>>
-----------------------------------------------------------------------------
(* The gate *)

\* _apply_locked: the log is read, and the action decided.
Judge(p) ==
  LET j == job[p]
  IN /\ j.pc = "judge"
     /\ job' = [job EXCEPT
          ![p].pc = "index",
          ![p].action = IF log[j.a].quarantined \/ j.policy = "BLOCK" THEN "QUARANTINE"
                        ELSE IF j.policy = "REVIEW" \/ j.kind = "SUBMIT" THEN "HOLD"
                        ELSE "INDEX"]
     /\ UNCHANGED <<rank, prepared, log, approved, overlapped>>

\* Mutant: a denial or a hold leaves the row.
Removes_Nothing(p) ==
  /\ job[p].pc = "index" /\ job[p].action # "INDEX"
  /\ Goes(p, "record")
  /\ UNCHANGED <<rank, prepared, log, approved, overlapped>>

\* _not_indexed, _deny: remove_atomic.
Removes(p) ==
  /\ job[p].pc = "index" /\ job[p].action # "INDEX"
  /\ rank' = Drop(rank, prepared[job[p].a].cand)
  /\ Goes(p, "record")
  /\ UNCHANGED <<prepared, log, approved, overlapped>>

\* Mutant: the expected version is not passed.
Indexes_Unconditional(p) ==
  /\ job[p].pc = "index" /\ job[p].action = "INDEX"
  /\ rank' = Put(rank, prepared[job[p].a].cand)
  /\ Goes(p, "record")
  /\ UNCHANGED <<prepared, log, approved, overlapped>>

\* index_atomic with the version that was current when it was prepared.
Indexes(p) ==
  /\ job[p].pc = "index" /\ job[p].action = "INDEX"
  /\ IsCurrent(rank, prepared[job[p].a].expected)
  /\ rank' = Put(rank, prepared[job[p].a].cand)
  /\ Goes(p, "record")
  /\ UNCHANGED <<prepared, log, approved, overlapped>>

\* StaleBaselineError: denied, and nothing is removed.
Stale(p) ==
  /\ job[p].pc = "index" /\ job[p].action = "INDEX"
  /\ ~IsCurrent(rank, prepared[job[p].a].expected)
  /\ job' = [job EXCEPT ![p].pc = "record", ![p].action = "QUARANTINE"]
  /\ UNCHANGED <<rank, prepared, log, approved, overlapped>>

\* INDEX_GATE_APPLIED
Record(p) ==
  /\ job[p].pc = "record"
  /\ GateApplied(job[p].a, job[p].action)
  /\ IF job[p].kind = "UNAVAILABLE" THEN Ends(p) ELSE Goes(p, "finish")
  /\ UNCHANGED <<rank, prepared, approved, overlapped>>

\* POLICY_SUBMISSION_APPLIED or OPERATOR_COMMAND_COMPLETED
Finish(p) ==
  /\ job[p].pc = "finish"
  /\ IF job[p].kind = "SUBMIT"
     THEN Applied(job[p].a, job[p].req, job[p].policy, job[p].action)
     ELSE Completed(job[p].a, job[p].kind)
  /\ Ends(p)
  /\ UNCHANGED <<rank, prepared, approved, overlapped>>

Continue(p) ==
  \/ RequestAppend(p) \/ Receive(p) \/ Judge(p) \/ Removes(p)
  \/ Indexes(p) \/ Stale(p) \/ Record(p) \/ Finish(p)
-----------------------------------------------------------------------------
\* Across processes, too, content is in the index only by an analysis whose
\* result was ALLOW and whose approval was admitted after it was applied.
ApprovedByBoth ==
  \A s \in Stored(rank) : \E a \in approved :
    prepared[a].cand = s /\ log[a].allowed

\* Whatever other processes index meanwhile: content that replaces a version
\* was compared by B with exactly that version, and with all of it. (Nothing
\* is promised for the first version of a document: its baseline is what the
\* directory held before, approved or not, and possibly a torn snapshot.)
ReplacedWasCompared ==
  [][\A p \in Processes :
       (job[p].pc = "index" /\ job[p].action = "INDEX" /\ job'[p].action = "INDEX"
          /\ job'[p].pc = "record")
       => \/ Stored(rank) = {}
          \/ IsCurrent(rank, prepared[job[p].a].baseline)]_runtimeVars

Candidates(a) == {b \in Analyses : prepared[b] # Nil /\ prepared[b].cand = prepared[a].cand}

\* ensure_request: exactly one B request; gate: a hold or a denial takes the
\* candidate out, an indexed outcome means it is in. Both hold as long as no
\* two processes work on the analysis at once, and for content no other
\* analysis is about: a failed dispatch's hold, which takes no operations
\* lock, included. (A version that is denied as stale was never put in.)
OutcomeIsTrue ==
  \A a \in Analyses \ overlapped :
    prepared[a] # Nil =>
      /\ log[a].request <= 1
      /\ (Busy(a) = {} /\ Candidates(a) = {a}) =>
           (log[a].action = "INDEX") = (prepared[a].cand \in Stored(rank))
=============================================================================
