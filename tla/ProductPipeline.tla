--------------------------- MODULE ProductPipeline --------------------------
(***************************************************************************)
(* ProductPipeline.poll_once for one watched file: the scan whose state is *)
(* stored before its events are handled, the snapshot of the new content,  *)
(* the comparison with the content scanned before, B, and the hold when B  *)
(* does not answer; beside it another process on the same runtime          *)
(* directory that submits results and executes commands. Other files only  *)
(* add the ways in which a poll is cut short.                              *)
(***************************************************************************)
EXTENDS SharedRuntime

CONSTANTS Watch, Desk,   \* the process that polls, and another one
          Answers,       \* the results B may give
          MaxEdits,      \* bound on the edits of the file
          MaxOperations  \* bound on the operations of the other process

ASSUME ProductAssumption ==
  /\ Watch # Desk /\ Processes = {Watch, Desk}
  /\ Answers \subseteq Policies
  /\ MaxEdits \in Nat /\ MaxOperations \in Nat

VARIABLES file,     \* the content of the file, NoSha without one
          seen,     \* its digest in source-scan-state.json
          snaps,    \* snaps[s]: the file named s in source-snapshots
          pc,       \* where poll_once is
          event,    \* the ScanEvent: digests before and after
          handled,  \* the analysis it is processed under
          baseline, \* digest of the snapshot it is compared with
          expected, \* the current version prepare_streams read
          asked,    \* the request B was asked about
          edits,    \* how often the file was edited
          operations \* how many operations the other process began

watchVars == <<file, seen, snaps, pc, event, handled, baseline, expected, asked, edits,
              operations>>

vars == <<runtimeVars, watchVars>>

NoEvent == [before |-> NoSha, after |-> NoSha]

Init ==
  /\ RuntimeInit
  /\ file \in Shas \cup {NoSha} /\ seen = NoSha
  /\ snaps = [s \in Shas |-> "none"]
  /\ pc = "idle" /\ event = NoEvent /\ handled = Nil
  /\ baseline = NoSha /\ expected = NoSha /\ asked = 0 /\ edits = 0 /\ operations = 0

TypeOK ==
  /\ RuntimeTypeOK
  /\ {file, seen, event.before, event.after, expected} \subseteq Shas \cup {NoSha}
  /\ snaps \in [Shas -> {"none", "whole", "torn"}]
  /\ pc \in {"idle", "snapshot", "prepare", "insert", "request",
             "dispatch", "waiting", "hold"}
  /\ handled \in Analyses \cup {Nil}
  /\ baseline \in Shas \cup {Torn, NoSha} /\ asked \in Nat
  /\ edits \in 0..MaxEdits /\ operations \in 0..MaxOperations

\* The event is done with, or given up by an exception out of poll_once.
EventDone ==
  /\ pc' = "idle" /\ event' = NoEvent /\ handled' = Nil
  /\ baseline' = NoSha /\ expected' = NoSha /\ asked' = 0
  /\ UNCHANGED <<edits, operations>>

\* The file is read only by a scan and by the copy after it: an edit while
\* anything else goes on is one before the next scan.
FileEdit ==
  /\ pc \in {"idle", "snapshot"} /\ edits < MaxEdits
  /\ \E content \in (Shas \cup {NoSha}) \ {file} : file' = content
  /\ edits' = edits + 1
  /\ UNCHANGED <<runtimeVars, seen, snaps, pc, event, handled, baseline, expected, asked,
                 operations>>

\* scan_once: the new state is stored before anything is done about the
\* event; a deletion is only reported.
Scan ==
  /\ pc = "idle" /\ job[Watch] = NoJob /\ file # seen
  /\ seen' = file
  /\ IF file = NoSha
     THEN UNCHANGED <<pc, event>>
     ELSE pc' = "snapshot" /\ event' = [before |-> seen, after |-> file]
  /\ UNCHANGED <<runtimeVars, file, snaps, handled, baseline, expected, asked, edits, operations>>

\* An exception of another event, of _current_path for a file that vanished,
\* or of prepare_streams before its insert: this event is dropped or held.
PollBreaks ==
  /\ pc \in {"snapshot", "prepare", "insert"}
  /\ EventDone
  /\ UNCHANGED <<runtimeVars, file, seen, snaps>>

\* The content that is compared: the candidate itself for a new file, else
\* the snapshot of the content scanned before, which nobody verifies again.
ComparedWith ==
  IF event.before = NoSha THEN event.after
  ELSE IF snaps'[event.before] = "torn" THEN Torn ELSE event.before

\* _store_snapshot: the stored one is kept if it is whole, else the file is
\* copied and compared with the scanned digest; then the baseline is chosen,
\* and without a snapshot of it the event is held.
StoreSnapshot ==
  /\ pc = "snapshot"
  /\ snaps[event.after] = "whole" \/ file = event.after
  /\ snaps' = [snaps EXCEPT ![event.after] = "whole"]
  /\ IF event.before # NoSha /\ snaps'[event.before] = "none"
     THEN EventDone
     ELSE /\ pc' = "prepare" /\ baseline' = ComparedWith
          /\ UNCHANGED <<event, handled, expected, asked, edits, operations>>
  /\ UNCHANGED <<runtimeVars, file, seen>>

\* The copy is of other content and deleted, or it stops half-way and stays.
SnapshotFails ==
  /\ pc = "snapshot"
  /\ snaps[event.after] # "whole"
  /\ \/ file # event.after /\ snaps' = [snaps EXCEPT ![event.after] = "none"]
     \/ snaps' = [snaps EXCEPT ![event.after] = "torn"]
  /\ EventDone
  /\ UNCHANGED <<runtimeVars, file, seen>>

\* prepare_streams: the baseline must be the version that is indexed, if one
\* is; otherwise the event is held.
PrepareRead ==
  /\ pc = "prepare"
  /\ \E cur \in Shas \cup {NoSha} :
       /\ IsCurrent(rank, cur)
       /\ IF cur \in {NoSha, baseline}
          THEN /\ expected' = cur /\ pc' = "insert"
               /\ UNCHANGED <<event, handled, baseline, asked, edits, operations>>
          ELSE EventDone
  /\ UNCHANGED <<runtimeVars, file, seen, snaps>>

\* record_prepared_analysis; from here on only the analysis matters.
PrepareInsert ==
  /\ pc = "insert"
  /\ \E a \in Analyses :
       /\ prepared[a] = Nil
       /\ prepared' = [prepared EXCEPT ![a] =
            [baseline |-> baseline, cand |-> event.after, expected |-> expected]]
       /\ handled' = a
  /\ pc' = "request" /\ event' = NoEvent
  /\ baseline' = NoSha /\ expected' = NoSha
  /\ UNCHANGED <<rank, log, job, approved, overlapped, file, seen, snaps, asked, edits, operations>>

\* ensure_request at the end of prepare_streams, if nobody was faster.
PrepareRequest ==
  /\ pc = "request"
  /\ IF log[handled].request = 0 THEN RequestStart(Watch, handled)
     ELSE UNCHANGED runtimeVars
  /\ pc' = "dispatch"
  /\ UNCHANGED <<file, seen, snaps, event, handled, baseline, expected, asked, edits, operations>>

\* Without an analyzer the result is awaited from elsewhere.
NoAnalyzer ==
  /\ pc = "dispatch" /\ job[Watch] = NoJob
  /\ EventDone
  /\ UNCHANGED <<runtimeVars, file, seen, snaps>>

\* dispatch: the request is read and its start logged.
Dispatch ==
  /\ pc = "dispatch" /\ job[Watch] = NoJob
  /\ pc' = "waiting" /\ asked' = log[handled].request
  /\ UNCHANGED <<runtimeVars, file, seen, snaps, event, handled, baseline, expected, edits, operations>>

\* The analyzer answers: submitted, or refused (the conflict ends the poll).
DispatchAnswers ==
  /\ pc = "waiting"
  /\ \E policy \in Answers :
       IF Admissible(handled, asked, policy)
       THEN SubmitStart(Watch, handled, asked, policy)
       ELSE UNCHANGED runtimeVars
  /\ EventDone
  /\ UNCHANGED <<file, seen, snaps>>

\* It raises: the failure is logged, then the candidate is held.
DispatchFails ==
  /\ pc = "waiting"
  /\ DispatchFailed(handled)
  /\ pc' = "hold"
  /\ UNCHANGED <<rank, prepared, job, approved, overlapped, file, seen, snaps,
                 event, handled, baseline, expected, asked, edits, operations>>

HoldUnavailable ==
  /\ pc = "hold"
  /\ UnavailableStart(Watch, handled)
  /\ EventDone
  /\ UNCHANGED <<file, seen, snaps>>

\* B's routes: its request, and a result for the latest one. finalize is the
\* first followed by the second, under one lock each.
BCalls(a) ==
  \/ RequestStart(Desk, a)
  \/ \E policy \in Answers : SubmitStart(Desk, a, log[a].request, policy)

\* C's command on the analysis.
CCalls(a) == ApproveStart(Desk, a) \/ HoldStart(Desk, a)

\* The other process serves B (over HTTP or as MCP tools) and C.
DeskOperates ==
  /\ operations < MaxOperations
  /\ operations' = operations + 1
  /\ \E a \in Analyses : BCalls(a) \/ CCalls(a)
  /\ UNCHANGED <<file, seen, snaps, pc, event, handled, baseline, expected, asked, edits>>

Operates == (\E p \in Processes : Continue(p)) /\ UNCHANGED watchVars

Next ==
  \/ FileEdit \/ Scan \/ PollBreaks \/ StoreSnapshot \/ SnapshotFails
  \/ PrepareRead \/ PrepareInsert \/ PrepareRequest \/ NoAnalyzer \/ Dispatch
  \/ DispatchAnswers \/ DispatchFails \/ HoldUnavailable
  \/ DeskOperates \/ Operates

Spec == Init /\ [][Next]_vars
=============================================================================
