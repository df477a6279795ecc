----------------------------- MODULE ChangeQueue ----------------------------
(***************************************************************************)
(* DirectoryChangeQueue: a watcher scans a directory, queues every change  *)
(* against the accepted content, lets a background model decide whether it *)
(* waits for an operator or is indexed by itself, and keeps a history that *)
(* can be undone. Every method runs under one lock; phase says how far the *)
(* holder got. Users edit the files at any time, the assessment runs       *)
(* between two lock sections, and index, scan state, snapshots and queue   *)
(* file are written one after the other, so a crash can fall between them; *)
(* a restoration undoes its reviews one by one and can also fail midway.   *)
(***************************************************************************)
EXTENDS VersionOrder, Sequences

CONSTANTS Paths,       \* watched files; document watch:p has the table rank[p]
          Twins,       \* digests whose extracted texts are identical
          Unreadable,  \* digests that cannot be extracted or indexed
          Workers,     \* threads of the executor
          Nil,         \* None
          MaxEdits,    \* bound on the users' file edits
          MaxHistory,  \* bound on the history's length
          MaxCrashes   \* bound on restarts and failing restorations, which
                       \* come before the last of MaxEdits edits

ASSUME QueueAssumption ==
  /\ Twins \subseteq Shas /\ Unreadable \subseteq Shas
  /\ {MaxEdits, MaxHistory, MaxCrashes} \subseteq Nat

VARIABLES file,      \* file[p]: content in the directory, NoSha without file
          cursor,    \* cursor[p]: content in the scan state file
          snap,      \* snap[s]: content of the snapshot file named s
          rank,      \* rank[p]: the versions of watch:p in the index
          accepted,  \* accepted[p]: content last accepted
          item,      \* item[p]: the queued change
          history,   \* processed reviews
          saved,     \* the queue file: accepted, item and history
          phase,     \* the lock holder: idle, events, due, undo or save
          pending,   \* paths whose scan event is still to be applied
          last,      \* a running restoration has undone the reviews after it
          jobs,      \* assessments waiting for a thread
          worker,    \* worker[w]: assessment between its lock sections
          edits, crashes,   \* counters for the bounds
          missed,    \* ghost: paths with an event the queue did not take up
          unsaved,   \* ghost: paths with an acceptance a crash made it forget
          reverted   \* ghost: paths with an accepted deletion or an undone review

memory == <<accepted, item, history>>
disk   == <<snap, rank, saved>>
loops  == <<pending, last>>
tasks  == <<jobs, worker>>
ghosts == <<missed, unsaved, reverted>>
vars   == <<file, cursor, memory, disk, phase, loops, tasks, edits, crashes, ghosts>>

Contents == Shas \cup {NoSha}

\* PENDING: review_required is None. AUTO: auto_processing is set.
Item == [base : Contents, cand : Contents, decision : {"PENDING", "REVIEW", "AUTO"}]

\* None is not a queue entry.
ASSUME NilAssumption == Nil \notin Item

Entry == [path : Paths, action : {"INDEX", "AUTO_INDEX", "RESTORE"},
          base : Contents, cand : Contents, before : Contents]

Job == [path : Paths, cand : Contents]

\* An assessment under way keeps the change type it read: must it be reviewed?
Task == [path : Paths, cand : Contents, mandatory : BOOLEAN]

TypeOK ==
  /\ file \in [Paths -> Contents] /\ cursor \in [Paths -> Contents]
  /\ snap \in [Shas -> Contents]
  /\ rank \in [Paths -> [Shas -> Nat]]
  /\ accepted \in [Paths -> Contents]
  /\ item \in [Paths -> Item \cup {Nil}]
  /\ history \in Seq(Entry) /\ Len(history) <= MaxHistory
  /\ saved.accepted \in [Paths -> Contents]
  /\ saved.item \in [Paths -> Item \cup {Nil}]
  /\ saved.history \in Seq(Entry) /\ Len(saved.history) <= MaxHistory
  /\ phase \in {"idle", "events", "due", "undo", "save"}
  /\ pending \subseteq Paths
  /\ last \in 0 .. Len(history)
  /\ jobs \in Seq(Job)
  /\ worker \in [Workers -> Task \cup {Nil}]
  /\ missed \subseteq Paths /\ unsaved \subseteq Paths /\ reverted \subseteq Paths

Saved(acc, it, h) == [accepted |-> acc, item |-> it, history |-> h]

Init ==
  /\ file = [p \in Paths |-> NoSha] /\ cursor = file
  /\ snap = [s \in Shas |-> NoSha]
  /\ rank = [p \in Paths |-> NoVersions]
  /\ accepted = [p \in Paths |-> NoSha]
  /\ item = [p \in Paths |-> Nil]
  /\ history = <<>>
  /\ saved = Saved(accepted, item, history)
  /\ phase = "idle" /\ pending = {} /\ last = 0
  /\ jobs = <<>> /\ worker = [w \in Workers |-> Nil]
  /\ edits = 0 /\ crashes = 0
  /\ missed = {} /\ unsaved = {} /\ reverted = {}

\* Two different files whose extracted documents read the same.
SameText(a, b) == {a, b} \subseteq Twins \ Unreadable

\* change_type: an addition has no baseline, a deletion no candidate.
IsDeletion(i) == i.cand = NoSha
IsAddition(i) == i.base = NoSha

\* _mandatory_reason, as far as it depends on the change type.
Mandatory(i) == IsAddition(i) \/ IsDeletion(i)
\* The bounds still allow a restart or a failing restoration.
FaultLeft == crashes < MaxCrashes /\ edits < MaxEdits
-----------------------------------------------------------------------------
(* The directory *)

\* Somebody writes or deletes a file, at any time.
FileEdit(p, s) ==
  /\ edits < MaxEdits
  /\ s # file[p]
  /\ file' = [file EXCEPT ![p] = s]
  /\ edits' = edits + 1
  /\ UNCHANGED <<cursor, memory, disk, phase, loops, tasks, crashes, ghosts>>
-----------------------------------------------------------------------------
(* poll_once *)

\* scan_once: the new scan state is stored before any event is applied.
PollScan ==
  /\ phase = "idle"
  /\ pending' = {p \in Paths : file[p] # cursor[p]}
  /\ cursor' = file
  /\ phase' = "events"
  /\ UNCHANGED <<file, memory, disk, last, tasks, edits, crashes, ghosts>>

\* What _capture leaves in the snapshot file of the digest p was scanned with.
Captured(p) == IF snap[cursor[p]] = NoSha THEN file[p] ELSE snap[cursor[p]]

\* Mutant: the copy is not compared with the digest.
Capture_Unverified(p) ==
  IF cursor[p] = NoSha THEN UNCHANGED snap
  ELSE Captured(p) # NoSha /\ snap' = [snap EXCEPT ![cursor[p]] = Captured(p)]

\* _capture succeeds (a deletion needs none): the copy has that digest.
Capture(p) ==
  IF cursor[p] = NoSha THEN UNCHANGED snap
  ELSE /\ Captured(p) = cursor[p]
       /\ snap' = [snap EXCEPT ![cursor[p]] = Captured(p)]

\* The scanned content is the accepted one, or reads the same.
NoChange(p) == cursor[p] = accepted[p] \/ SameText(cursor[p], accepted[p])

\* _apply_event: the entry of the path is dropped or replaced by a fresh one.
ApplyEvent(p) ==
  /\ phase = "events" /\ p \in pending
  /\ Capture(p)
  /\ pending' = pending \ {p}
  /\ missed' = missed \ {p}
  /\ IF NoChange(p)
     THEN item' = [item EXCEPT ![p] = Nil] /\ UNCHANGED jobs
     ELSE /\ item' = [item EXCEPT ![p] = [base |-> accepted[p], cand |-> cursor[p],
                                          decision |-> "PENDING"]]
          /\ jobs' = Append(jobs, [path |-> p, cand |-> cursor[p]])
  /\ UNCHANGED <<file, cursor, accepted, history, rank, saved, phase, last, worker,
                 edits, crashes, unsaved, reverted>>

\* _capture raises: the file changed since the scan, or the snapshot file has
\* other bytes. The exception ends the poll before the remaining events and
\* before the save; a copy that was made stays.
ApplyFails(p) ==
  /\ phase = "events" /\ p \in pending
  /\ cursor[p] # NoSha
  /\ Captured(p) # cursor[p]
  /\ snap' = [snap EXCEPT ![cursor[p]] = Captured(p)]
  /\ missed' = missed \cup pending
  /\ pending' = {}
  /\ phase' = "idle"
  /\ UNCHANGED <<file, cursor, memory, rank, saved, last, tasks, edits,
                 crashes, unsaved, reverted>>

\* _discard_textually_reverted_items_locked, after the last event.
EventsDone ==
  /\ phase = "events" /\ pending = {}
  /\ item' = [p \in Paths |->
                IF item[p] # Nil /\ SameText(item[p].base, item[p].cand)
                THEN Nil ELSE item[p]]
  /\ phase' = "due"
  /\ UNCHANGED <<file, cursor, accepted, history, disk, loops, tasks, edits,
                 crashes, ghosts>>

\* _save_state: the end of every method that changed something.
SaveState ==
  /\ phase \in {"due", "save"}
  /\ saved' = Saved(accepted, item, history)
  /\ phase' = "idle"
  /\ UNCHANGED <<file, cursor, memory, snap, rank, loops, tasks, edits,
                 crashes, ghosts>>
-----------------------------------------------------------------------------
(* Accepting: by an operator, or automatically in a poll *)

\* index_atomic takes the candidate: it is readable, and the version the
\* review started from is still current.
Indexable(p) ==
  /\ snap[item[p].cand] \notin Unreadable
  /\ IsCurrent(rank[p], item[p].base)

\* The current version is removed, if there is one.
CurrentRemoved(p) ==
  \E c \in Contents :
    /\ IsCurrent(rank[p], c)
    /\ rank' = [rank EXCEPT ![p] = IF c = NoSha THEN @ ELSE Drop(@, c)]

\* Mutant: a version that is still stored is not indexed again.
IndexEffect_SkipsStored(p) ==
  IF IsDeletion(item[p]) THEN CurrentRemoved(p)
  ELSE /\ Indexable(p)
       /\ rank' = IF item[p].cand \in Stored(rank[p]) THEN rank
                  ELSE [rank EXCEPT ![p] = Put(@, snap[item[p].cand])]

\* The index after the acceptance: a deletion removes the current version
\* only, anything else puts the candidate's snapshot on top.
IndexEffect(p) ==
  IF IsDeletion(item[p]) THEN CurrentRemoved(p)
  ELSE /\ Indexable(p)
       /\ rank' = [rank EXCEPT ![p] = Put(@, snap[item[p].cand])]

\* Mutant: the content accepted before is not kept with the review.
EntryFor_NoBefore(p, action) ==
  [path |-> p, action |-> action, base |-> item[p].base, cand |-> item[p].cand,
   before |-> Nil]

\* What the history keeps of a review.
EntryFor(p, action) ==
  [path |-> p, action |-> action, base |-> item[p].base, cand |-> item[p].cand,
   before |-> accepted[p]]

\* _accept_locked
AcceptLocked(p, action) ==
  /\ Len(history) < MaxHistory
  /\ IndexEffect(p)
  /\ accepted' = [accepted EXCEPT ![p] = item[p].cand]
  /\ item' = [item EXCEPT ![p] = Nil]
  /\ history' = Append(history, EntryFor(p, action))
  /\ reverted' = IF IsDeletion(item[p]) THEN reverted \cup {p} ELSE reverted

\* An acceptance that raises changes nothing and is not modelled apart.
Accept(p) ==
  /\ phase = "idle" /\ item[p] # Nil
  /\ AcceptLocked(p, "INDEX")
  /\ phase' = "save"
  /\ UNCHANGED <<file, cursor, snap, saved, loops, tasks, edits, crashes,
                 missed, unsaved>>

\* _process_due_auto_indexes_locked for one entry whose window has elapsed.
AutoIndex(p) ==
  /\ phase = "due" /\ item[p] # Nil /\ item[p].decision = "AUTO"
  /\ AcceptLocked(p, "AUTO_INDEX")
  /\ UNCHANGED <<file, cursor, snap, saved, phase, loops, tasks, edits,
                 crashes, missed, unsaved>>

\* The same when the index refuses: the entry goes to the operator.
AutoIndexFails(p) ==
  /\ phase = "due" /\ item[p] # Nil /\ item[p].decision = "AUTO"
  /\ ~IsDeletion(item[p]) /\ ~Indexable(p)
  /\ item' = [item EXCEPT ![p].decision = "REVIEW"]
  /\ UNCHANGED <<file, cursor, accepted, history, disk, phase, loops, tasks,
                 edits, crashes, ghosts>>

Hold(p) ==
  /\ phase = "idle" /\ item[p] # Nil
  /\ item' = [item EXCEPT ![p].decision = "REVIEW"]
  /\ phase' = "save"
  /\ UNCHANGED <<file, cursor, accepted, history, disk, loops, tasks, edits,
                 crashes, ghosts>>
-----------------------------------------------------------------------------
(* Assessment by the executor's threads *)

\* _analyze_later, first lock section: the change type is read.
AssessStart(w) ==
  /\ phase = "idle" /\ worker[w] = Nil /\ jobs # <<>>
  /\ LET j == Head(jobs)
         stale == item[j.path] = Nil \/ item[j.path].cand # j.cand
     IN  worker' = [worker EXCEPT ![w] =
                      IF stale THEN Nil
                      ELSE [path |-> j.path, cand |-> j.cand,
                            mandatory |-> Mandatory(item[j.path])]]
  /\ jobs' = Tail(jobs)
  /\ UNCHANGED <<file, cursor, memory, disk, phase, loops, edits, crashes, ghosts>>

\* Second lock section: the verdict is written if the entry still has the
\* candidate digest. d is the model's answer; a failing or disabled model
\* means review.
AssessDone(w, d) ==
  /\ phase = "idle" /\ worker[w] # Nil
  /\ LET t == worker[w]
         stale == item[t.path] = Nil \/ item[t.path].cand # t.cand
     IN  IF stale THEN UNCHANGED <<item, phase>>
         ELSE /\ item' = [item EXCEPT ![t.path].decision =
                            IF t.mandatory THEN "REVIEW" ELSE d]
              /\ phase' = "save"
  /\ worker' = [worker EXCEPT ![w] = Nil]
  /\ UNCHANGED <<file, cursor, accepted, history, disk, loops, jobs, edits,
                 crashes, ghosts>>
-----------------------------------------------------------------------------
(* Undoing *)

\* _synchronise_scan_state_locked: a second scan, whose events are dropped.
Synchronise ==
  /\ cursor' = file'
  /\ phase' = "save"

\* Events of other paths that the synchronisation swallows.
Swallowed(restored) == {q \in Paths \ restored : file[q] # cursor[q]}

\* The snapshot a digest stands for; none for an absent file.
Bytes(s) == IF s = NoSha THEN NoSha ELSE snap[s]

\* Mutant: an added file is deleted only while it has the candidate's bytes.
Baseline_SparesLaterEdit(p) ==
  IF IsAddition(item[p])
  THEN IF file[p] = item[p].cand THEN NoSha ELSE file[p]
  ELSE Bytes(item[p].base)

\* _restore_source_to_baseline_locked
Baseline(p) == IF IsAddition(item[p]) THEN NoSha ELSE Bytes(item[p].base)

\* The change is discarded and the file put back to the accepted content.
Reject(p) ==
  /\ phase = "idle" /\ item[p] # Nil
  /\ Len(history) < MaxHistory
  /\ file' = [file EXCEPT ![p] = Baseline(p)]
  /\ item' = [item EXCEPT ![p] = Nil]
  /\ history' = Append(history, EntryFor(p, "RESTORE"))
  /\ Synchronise
  /\ missed' = (missed \cup Swallowed({p})) \ {p}
  /\ UNCHANGED <<accepted, disk, loops, tasks, edits, crashes, unsaved, reverted>>

UndoesDeletion(e) == e.action # "RESTORE" /\ IsDeletion(e)

\* Mutant: an undone acceptance leaves its version in the index.
UndoneIndex_KeepsRow(e, table) ==
  IF UndoesDeletion(e) THEN Put(table, snap[e.base]) ELSE table

\* _undo_index_locked on the table of e's path: a deleted document is indexed
\* again, an indexed candidate is removed.
UndoneIndex(e, table) ==
  IF e.action = "RESTORE" THEN table
  ELSE IF UndoesDeletion(e) THEN Put(table, snap[e.base]) ELSE Drop(table, e.cand)

\* Mutant: the accepted content stays what the undone review made it.
UndoneAccepted_Kept(e) == accepted

UndoneAccepted(e) == [accepted EXCEPT ![e.path] = e.before]

\* An undone deletion brings the baseline back, anything else the candidate.
FileRestored(e) ==
  file' = [file EXCEPT ![e.path] = Bytes(IF UndoesDeletion(e) THEN e.base ELSE e.cand)]

IndexRestored(e) == rank' = [rank EXCEPT ![e.path] = UndoneIndex(e, @)]

\* restore_history_before undoes the chosen entry and all later ones, the last
\* one first. The choice shows only in where the loop ends, so it is made there.
\* ToUndo: how many entries are left when the loop starts or goes on.
ToUndo == IF phase = "undo" THEN last ELSE Len(history)

\* Paths of the reviews that the running restoration has undone.
UndonePaths ==
  IF phase = "undo" THEN {history[i].path : i \in last + 1 .. Len(history)} ELSE {}

\* _undo_history_entry_locked: file and index are written at once, the
\* reopened change waits for an operator.
UndoEntry ==
  /\ phase \in {"idle", "undo"} /\ ToUndo > 0
  /\ LET e == history[ToUndo]
     IN  /\ FileRestored(e) /\ IndexRestored(e)
         /\ accepted' = UndoneAccepted(e)
         /\ item' = [item EXCEPT ![e.path] = [base |-> e.base, cand |-> e.cand,
                                              decision |-> "REVIEW"]]
         /\ reverted' = reverted \cup {e.path}
  /\ last' = ToUndo - 1
  /\ phase' = "undo"
  /\ UNCHANGED <<cursor, history, snap, saved, pending, tasks, edits, crashes,
                 missed, unsaved>>

\* The chosen entry is undone: del history[position:], and the end.
RestoreDone ==
  /\ phase = "undo"
  /\ history' = SubSeq(history, 1, last)
  /\ last' = 0
  \* An undone deletion brings the file back and reopens the deletion.
  /\ missed' = ((missed \cup Swallowed(UndonePaths)) \ UndonePaths) \cup
               {p \in UndonePaths : file[p] # item[p].cand}
  /\ UNCHANGED <<file, accepted, item, disk, pending, tasks, edits, crashes,
                 unsaved, reverted>>
  /\ Synchronise

\* A write of the loop raises: what it did so far stays in memory, on the
\* disk and in the index, nothing is saved, and the history keeps its entries.
\* A deletion restores the file before the index, the others after it.
UndoFails ==
  /\ phase \in {"idle", "undo"} /\ ToUndo > 0
  /\ FaultLeft
  /\ crashes' = crashes + 1
  /\ LET e == history[ToUndo]
     IN  \/ phase = "undo" /\ UNCHANGED <<file, rank, reverted>>
         \/ UndoesDeletion(e) /\ FileRestored(e) /\ UNCHANGED <<rank, reverted>>
         \/ /\ e.action # "RESTORE" /\ ~IsDeletion(e)
            /\ IndexRestored(e)
            /\ reverted' = reverted \cup {e.path}
            /\ UNCHANGED file
  /\ missed' = missed \cup UndonePaths
  /\ last' = 0
  /\ phase' = "idle"
  /\ UNCHANGED <<cursor, memory, snap, saved, pending, tasks, edits, unsaved>>
-----------------------------------------------------------------------------
\* The process stops and starts again: the queue file is loaded, the
\* executor's tasks are gone, and no event of an interrupted poll comes back.
Crash ==
  /\ FaultLeft
  /\ crashes' = crashes + 1
  /\ accepted' = saved.accepted /\ item' = saved.item /\ history' = saved.history
  /\ phase' = "idle" /\ pending' = {} /\ last' = 0
  /\ jobs' = <<>> /\ worker' = [w \in Workers |-> Nil]
  /\ unsaved' = unsaved \cup {p \in Paths : accepted[p] # saved.accepted[p]}
  /\ missed' = missed \cup pending \cup UndonePaths \cup
               {p \in Paths : \/ accepted[p] # saved.accepted[p]
                              \/ item[p] # saved.item[p]}
  /\ UNCHANGED <<file, cursor, disk, edits, reverted>>

Next ==
  \/ \E p \in Paths, s \in Contents : FileEdit(p, s)
  \/ PollScan \/ EventsDone \/ SaveState \/ Crash
  \/ \E p \in Paths : \/ ApplyEvent(p) \/ ApplyFails(p)
                      \/ Accept(p) \/ Reject(p) \/ Hold(p)
                      \/ AutoIndex(p) \/ AutoIndexFails(p)
  \/ \E w \in Workers : \/ AssessStart(w)
                        \/ \E d \in {"REVIEW", "AUTO"} : AssessDone(w, d)
  \/ UndoEntry \/ RestoreDone \/ UndoFails

Spec == Init /\ [][Next]_vars
-----------------------------------------------------------------------------
\* What the queue says the directory contains.
Shown(p) == IF item[p] # Nil THEN item[p].cand ELSE accepted[p]

\* Whatever edits, decisions and restorations interleave, the queue shows the
\* content that was scanned last, except for the paths in missed: the events
\* of a poll that raised or died, those a restoration swallowed, and undone
\* deletions. No other step loses a change.
QueueShowsScan ==
  phase = "idle" =>
    \A p \in Paths \ missed :
      Shown(p) = cursor[p] \/ SameText(Shown(p), cursor[p])

\* The accepted content is the current version in the index, unless an
\* acceptance was forgotten in a crash, a deletion was accepted or a review
\* undone: no interleaving of edits, acceptances, automatic ones and
\* rejections separates the two stores.
AcceptedIsCurrent ==
  \A p \in Paths \ (unsaved \cup reverted) : IsCurrent(rank[p], accepted[p])

\* Every version in the index was put there by a review that the history
\* still holds, so that it can be undone, also after undoing others.
HistoryExplainsIndex ==
  \A p \in Paths \ unsaved, s \in Shas :
    rank[p][s] # 0 =>
      \E i \in DOMAIN history : /\ history[i].path = p /\ history[i].cand = s
                                /\ history[i].action # "RESTORE"

\* Every digest the queue may still restore or index has a snapshot with
\* exactly those bytes, though files change while they are copied.
SnapshotsIntact ==
  LET Good(s) == s = NoSha \/ snap[s] = s
  IN  /\ \A p \in Paths : /\ Good(accepted[p])
                          /\ item[p] # Nil => Good(item[p].base) /\ Good(item[p].cand)
      /\ \A i \in DOMAIN history : Good(history[i].base) /\ Good(history[i].cand)

\* A review is always about the difference to what is accepted now: the
\* baseline that is compared, indexed against and restored is not outdated.
BaselineIsAccepted == \A p \in Paths : item[p] # Nil => item[p].base = accepted[p]
-----------------------------------------------------------------------------
(* What comments of change_queue.py say, and runs refute *)

\* _local_summary: accepting a deletion takes the whole document out.
DeletedIsUnsearchable ==
  phase = "idle" =>
    \A p \in Paths \ unsaved : accepted[p] = NoSha => Stored(rank[p]) = {}

\* _mandatory_reason: added files are for the administrator to review, and
\* an older task in flight is a no-op.
AdditionsAreReviewed ==
  \A i \in DOMAIN history : history[i].action = "AUTO_INDEX" => ~IsAddition(history[i])

\* _watch_loop: after a poll that raised, "the next scan retries".
NextScanRetries ==
  phase = "due" => \A p \in Paths : file[p] = cursor[p] =>
    Shown(p) = cursor[p] \/ SameText(Shown(p), cursor[p])
=============================================================================
