------------------------------ MODULE Workbench -----------------------------
(***************************************************************************)
(* The operator's workbench over the gateway: what the dashboard makes of  *)
(* the status it is served (authority_issues, effective_commands,          *)
(* can_dispatch_analysis), which answers to a command its client believes  *)
(* (_command_result_matches), and what B is offered as pending work. None  *)
(* of them keeps state: they are judgements on the gateway's projection.   *)
(* Identities, digests and the hash chain agree in every state of the      *)
(* gateway's model, so the issues that only an altered store raises do not *)
(* appear here.                                                            *)
(***************************************************************************)
EXTENDS Gateway

\* The workflow states in which B has not judged.
PrePolicy == {"PREPARED", "ANALYSIS_REQUESTED", "ANALYSIS_FAILED"}

\* A latest outcome o under a latest policy p is what state s stands for.
Consistent(s, p, o) ==
  LET Contained(action) == o # Nil /\ o.action = action /\ ~o.indexed
  IN CASE s \in PrePolicy -> p = Nil /\ o = Nil
       [] s = "AWAITING_APPROVAL" -> p = "ALLOW" /\ Contained("HOLD")
       [] s = "HOLD" -> Contained("HOLD")
       [] s = "INDEXED" -> /\ p = "ALLOW" /\ o # Nil
                           /\ o.action = "INDEX" /\ o.indexed
       [] s = "QUARANTINED" -> Contained("QUARANTINE")
       [] OTHER -> TRUE

Issues == {"COMMAND_POLICY_MISMATCH", "COMMAND_STATE_MISMATCH", "CONTAINMENT_FAILURE",
           "POLICY_OUTCOME_MISMATCH", "STATE_OUTCOME_MISMATCH"}

\* authority_issues on the status of analysis a.
AuthorityIssues(a) ==
  LET p == applied[a]
      o == outcome[a]
      Offered == {c \in Commands : Allowed(a, c)}
  IN {code \in Issues :
        \/ /\ code = "COMMAND_POLICY_MISMATCH"
           /\ "APPROVE" \in Offered
           /\ state[a] \notin {"AWAITING_APPROVAL", "HOLD"} \/ p # "ALLOW"
        \/ /\ code = "COMMAND_STATE_MISMATCH"
           /\ \/ state[a] = "SUPERSEDED" /\ Offered # {}
              \/ state[a] = "QUARANTINED" /\ ~(Offered \subseteq {"REANALYZE"})
        \/ /\ code = "CONTAINMENT_FAILURE"
           /\ o # Nil /\ o.indexed /\ o.action # "INDEX"
        \/ /\ code = "POLICY_OUTCOME_MISMATCH"
           /\ o # Nil /\ (o.indexed \/ o.action = "INDEX") /\ p # "ALLOW"
        \/ /\ code = "STATE_OUTCOME_MISMATCH"
           /\ ~Consistent(state[a], p, o)}

\* effective_commands: no command at all while anything disagrees.
EffectiveCommands(a) ==
  {c \in Commands : AuthorityIssues(a) = {} /\ Allowed(a, c)}

\* can_dispatch_analysis
CanDispatch(a) == AuthorityIssues(a) = {} /\ state[a] \in PrePolicy

\* list_pending_requests: the requests B may still answer.
Pending(a) == a \in requested /\ applied[a] = Nil /\ state[a] # "SUPERSEDED"

\* Mutant: the client expects an approval to index.
CommandResultMatches_Indexed(answer, a, s, latest, replayed) ==
  /\ answer.outcome.action = (IF answer.kind = "APPROVE" THEN "INDEX" ELSE "HOLD")
  /\ replayed \/ latest = answer.outcome

\* What the outcome of an answer must be, and the state that it stands for.
ExpectedOutcome(answer) ==
  IF answer.kind = "APPROVE"
  THEN {[action |-> "INDEX", indexed |-> TRUE], [action |-> "QUARANTINE", indexed |-> FALSE]}
  ELSE {[action |-> "HOLD", indexed |-> FALSE]}

ExpectedState(answer) ==
  CASE answer.kind = "HOLD" -> "HOLD"
    [] answer.kind = "REANALYZE" -> "SUPERSEDED"
    [] OTHER -> IF answer.outcome.indexed THEN "INDEXED" ELSE "QUARANTINED"

\* _command_result_matches: the client's judgement on an answer about analysis
\* a, served with a status of state s and latest outcome latest. The status
\* of a replayed answer is not compared, but a replacement's is.
CommandResultMatches(answer, a, s, latest, replayed) ==
  /\ answer.outcome \in ExpectedOutcome(answer)
  /\ IF answer.kind = "REANALYZE"
     THEN answer.repl \notin {Nil, a} /\ s = "SUPERSEDED"
     ELSE answer.repl = Nil
  /\ replayed \/ (latest = answer.outcome /\ s = ExpectedState(answer))
-----------------------------------------------------------------------------
(* A dispatch that fails, or a request that is first written, after an      *)
(* outcome was recorded moves the projection back to a state B has not      *)
(* judged in, although the outcome (and B's policy) stand.                  *)

Overtaken(a) ==
  state[a] \in {"ANALYSIS_FAILED", "ANALYSIS_REQUESTED"} /\ outcome[a] # Nil

\* The removal of a held or denied candidate failed.
Uncontained(a) ==
  outcome[a] # Nil /\ outcome[a].indexed /\ outcome[a].action # "INDEX"

\* The dashboard raises no false alarm: between operations the only causes of
\* an authority issue are a containment failure and a projection that a late
\* dispatch failure or request overtook, whatever failed or crashed before.
AlarmIsExplained ==
  op = NoOp =>
    \A a \in Analyses :
      (prepared[a] # Nil /\ AuthorityIssues(a) # {})
      => Overtaken(a) \/ Uncontained(a)

\* No analysis falls out of everybody's reach: B finds it pending, or the
\* dashboard can dispatch it, or it offers a command. Analyses that failed
\* between two appends are taken up again this way. Out of reach are only the
\* judged ones a late dispatch failure overtook, which the dashboard then
\* locks for good, and the failures of containment it escalates.
WorkIsReachable ==
  op = NoOp =>
    \A a \in Analyses :
      prepared[a] # Nil =>
        \/ state[a] = "SUPERSEDED"
        \/ Pending(a) \/ CanDispatch(a) \/ EffectiveCommands(a) # {}
        \/ Overtaken(a) /\ applied[a] # Nil
        \/ Uncontained(a)

\* REANALYZE never closes an analysis without an heir: a superseded analysis
\* has a replacement of the same document, candidate and baseline on record,
\* wherever between its three commits the command failed or crashed.
SupersededHasHeir ==
  \A a \in Analyses :
    state[a] = "SUPERSEDED" =>
      \E b \in Analyses \ {a} :
        /\ prepared[b] # Nil /\ prepared[b].supersedes = a
        /\ Row(b) = Row(a) /\ prepared[b].expected = prepared[a].expected

\* The operator is not told of an invalid gateway response for a command that
\* was carried out: the client believes the answer when it is given, and every
\* later replay of it under the same key. Disbelieved are only the answers
\* that a failing dispatch spoils, which takes no lock: the status that is
\* read after the command completed says ANALYSIS_FAILED (operations.py:183,
\* 278), or a reanalyzed analysis is no longer SUPERSEDED when it is replayed.
CompletedIsBelieved ==
  /\ op.pc = "answer" =>
       \/ CommandResultMatches(Answer, op.a, state[op.a], outcome[op.a], FALSE)
       \/ state[op.a] = "ANALYSIS_FAILED"
  /\ \A a \in Analyses, k \in Keys :
       completed[a][k] # Nil =>
         \/ CommandResultMatches(completed[a][k], a, state[a], outcome[a], TRUE)
         \/ completed[a][k].kind = "REANALYZE" /\ state[a] # "SUPERSEDED"
=============================================================================
