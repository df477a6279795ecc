-------------------------- MODULE ChangeQueue_proofs -------------------------
(***************************************************************************)
(* The directory change queue keeps what it promises for any number of     *)
(* paths, contents, workers, edits, restarts and failing restorations.     *)
(***************************************************************************)
EXTENDS ChangeQueue, VersionOrder_proofs

\* ChangeQueue's tables are those of the lemmas about Put and Drop.
LEMMA RowsAreTables ==
  ASSUME TypeOK, NEW p \in Paths
  PROVE  rank[p] \in Tables
BY DEF TypeOK, Tables

LEMMA ItemTyped ==
  ASSUME TypeOK, NEW p \in Paths, item[p] # Nil
  PROVE  /\ item[p] \in Item
         /\ item[p].base \in Contents /\ item[p].cand \in Contents
BY DEF TypeOK, Item

LEMMA EntryTyped ==
  ASSUME TypeOK, NEW i \in DOMAIN history
  PROVE  /\ history[i] \in Entry
         /\ history[i].path \in Paths
         /\ history[i].base \in Contents /\ history[i].cand \in Contents
         /\ history[i].before \in Contents
         /\ history[i].action \in {"INDEX", "AUTO_INDEX", "RESTORE"}
<1>1. history[i] \in Entry
  BY DEF TypeOK
<1> QED
  BY <1>1 DEF Entry

\* A snapshot, or its absence, is content.
LEMMA BytesTyped ==
  ASSUME TypeOK, NEW s \in Contents
  PROVE  Bytes(s) \in Contents
BY DEF TypeOK, Bytes, Contents

\* The entry of a review is appended within its bound.
LEMMA AppendTyped ==
  ASSUME TypeOK, NEW e \in Entry, Len(history) < MaxHistory
  PROVE  /\ Append(history, e) \in Seq(Entry)
         /\ Len(Append(history, e)) = Len(history) + 1
         /\ Len(history) + 1 <= MaxHistory
         /\ last \in 0 .. (Len(history) + 1)
BY QueueAssumption DEF TypeOK

LEMMA EntryForTyped ==
  ASSUME TypeOK, NEW p \in Paths, item[p] # Nil,
         NEW a \in {"INDEX", "AUTO_INDEX", "RESTORE"}
  PROVE  EntryFor(p, a) \in Entry
BY ItemTyped DEF TypeOK, EntryFor, Entry

-----------------------------------------------------------------------------
(* The copies of the queue, in memory and in its file *)

\* The digest has a snapshot with its bytes.
Good(sn, s) == s = NoSha \/ (s \in Shas /\ sn[s] = s)

\* What every copy of the queue satisfies: the snapshots are there, a queued
\* change starts from what is accepted, and an undone one will do so again.
Sound(sn, acc, it, h) ==
  /\ \A p \in Paths : Good(sn, acc[p])
  /\ \A p \in Paths :
       it[p] # Nil => /\ Good(sn, it[p].base) /\ Good(sn, it[p].cand)
                      /\ it[p].base = acc[p] /\ it[p].cand # it[p].base
  /\ \A i \in DOMAIN h : /\ Good(sn, h[i].base) /\ Good(sn, h[i].cand)
                         /\ h[i].before = h[i].base /\ h[i].cand # h[i].base

QueueInv ==
  /\ Sound(snap, accepted, item, history)
  /\ Sound(snap, saved.accepted, saved.item, saved.history)

LEMMA AcceptTyped ==
  ASSUME TypeOK, QueueInv, NEW p \in Paths, item[p] # Nil,
         NEW a \in {"INDEX", "AUTO_INDEX"}, AcceptLocked(p, a)
  PROVE  /\ rank' \in [Paths -> [Shas -> Nat]]
         /\ accepted' \in [Paths -> Contents]
         /\ item' \in [Paths -> Item \cup {Nil}]
         /\ history' \in Seq(Entry) /\ Len(history') <= MaxHistory
         /\ last \in 0 .. Len(history')
         /\ reverted' \subseteq Paths
<1>1. item[p].cand \in Contents
  BY ItemTyped
<1>2. rank' \in [Paths -> [Shas -> Nat]]
  <2>1. CASE IsDeletion(item[p])
    <3>1. PICK c \in Contents :
            rank' = [rank EXCEPT ![p] = IF c = NoSha THEN @ ELSE Drop(@, c)]
      BY <2>1 DEF AcceptLocked, IndexEffect, CurrentRemoved
    <3>2. c # NoSha => Drop(rank[p], c) \in [Shas -> Nat]
      BY RowsAreTables, DropStored DEF Contents, Tables
    <3> QED
      BY <3>1, <3>2 DEF TypeOK
  <2>2. CASE ~IsDeletion(item[p])
    <3>1. rank' = [rank EXCEPT ![p] = Put(@, snap[item[p].cand])]
      BY <2>2 DEF AcceptLocked, IndexEffect
    <3>2. snap[item[p].cand] \in Shas
      BY <1>1, <2>2 DEF IsDeletion, Contents, QueueInv, Sound, Good
    <3>3. Put(rank[p], snap[item[p].cand]) \in [Shas -> Nat]
      BY <3>2, RowsAreTables, PutStored DEF Tables
    <3> QED
      BY <3>1, <3>3 DEF TypeOK
  <2> QED
    BY <2>1, <2>2
<1>3. EntryFor(p, a) \in Entry
  BY EntryForTyped
<1> QED
  BY <1>1, <1>2, <1>3, AppendTyped DEF AcceptLocked, TypeOK

LEMMA UndoTyped ==
  ASSUME TypeOK, QueueInv, NEW i \in DOMAIN history
  PROVE  LET e == history[i]
         IN  /\ UndoneIndex(e, rank[e.path]) \in [Shas -> Nat]
             /\ Bytes(IF UndoesDeletion(e) THEN e.base ELSE e.cand) \in Contents
             /\ [base |-> e.base, cand |-> e.cand, decision |-> "REVIEW"] \in Item
<1> DEFINE e == history[i]
<1>1. /\ e.path \in Paths /\ e.base \in Contents /\ e.cand \in Contents
      /\ rank[e.path] \in Tables
  BY EntryTyped, RowsAreTables
<1>2. Good(snap, e.base) /\ e.cand # e.base
  BY DEF QueueInv, Sound
<1> HIDE DEF e
<1>3. UndoneIndex(e, rank[e.path]) \in [Shas -> Nat]
  <2>1. CASE UndoesDeletion(e) /\ e.action # "RESTORE"
    <3>1. snap[e.base] \in Shas
      BY <1>1, <1>2, <2>1 DEF UndoesDeletion, IsDeletion, Good, Contents
    <3> QED
      BY <1>1, <2>1, <3>1, PutStored DEF UndoneIndex, Tables
  <2>2. CASE ~UndoesDeletion(e) /\ e.action # "RESTORE"
    <3>1. e.cand \in Shas
      BY <1>1, <2>2 DEF UndoesDeletion, IsDeletion, Contents
    <3> QED
      BY <1>1, <2>2, <3>1, DropStored DEF UndoneIndex, Tables
  <2>3. CASE e.action = "RESTORE"
    BY <1>1, <2>3 DEF UndoneIndex, Tables
  <2> QED
    BY <2>1, <2>2, <2>3
<1>4. Bytes(IF UndoesDeletion(e) THEN e.base ELSE e.cand) \in Contents
  BY <1>1, BytesTyped
<1>5. [base |-> e.base, cand |-> e.cand, decision |-> "REVIEW"] \in Item
  BY <1>1 DEF Item
<1> QED
  BY <1>3, <1>4, <1>5 DEF e

LEMMA TypeStep == TypeOK /\ QueueInv /\ [Next]_vars => TypeOK'
<1> SUFFICES ASSUME TypeOK, QueueInv, [Next]_vars PROVE TypeOK'
  OBVIOUS
<1> USE DEF memory, disk, loops, tasks, ghosts
<1>1. ASSUME NEW p \in Paths, NEW s \in Contents, FileEdit(p, s) PROVE TypeOK'
  BY <1>1 DEF TypeOK, FileEdit
<1>2. CASE PollScan
  BY <1>2 DEF TypeOK, PollScan
<1>3. CASE EventsDone
  BY <1>3 DEF TypeOK, EventsDone
<1>4. CASE SaveState
  <2>1. saved' = [accepted |-> accepted, item |-> item, history |-> history]
    BY <1>4 DEF SaveState, Saved
  <2>2. saved'.accepted = accepted /\ saved'.item = item /\ saved'.history = history
    BY <2>1
  <2> QED
    BY <1>4, <2>2 DEF TypeOK, SaveState
<1>5. CASE Crash
  <2>1. /\ accepted' = saved.accepted /\ item' = saved.item
        /\ history' = saved.history /\ last' = 0
    BY <1>5 DEF Crash
  <2>2. /\ accepted' \in [Paths -> Contents] /\ item' \in [Paths -> Item \cup {Nil}]
        /\ history' \in Seq(Entry) /\ Len(history') <= MaxHistory
        /\ last' \in 0 .. Len(history')
    BY <2>1 DEF TypeOK
  <2>3. UndonePaths \subseteq Paths
    BY EntryTyped DEF UndonePaths, TypeOK
  <2>4. missed' \subseteq Paths /\ unsaved' \subseteq Paths
    BY <1>5, <2>3 DEF Crash, TypeOK
  <2>5. jobs' \in Seq(Job) /\ worker' \in [Workers -> Task \cup {Nil}]
    BY <1>5 DEF Crash
  <2> QED
    BY <1>5, <2>2, <2>4, <2>5 DEF TypeOK, Crash
<1>6. ASSUME NEW p \in Paths, ApplyEvent(p) PROVE TypeOK'
  <2>1. snap' \in [Shas -> Contents]
    BY <1>6 DEF TypeOK, ApplyEvent, Capture, Captured
  <2>2. [base |-> accepted[p], cand |-> cursor[p], decision |-> "PENDING"] \in Item
    BY DEF TypeOK, Item
  <2>3. [path |-> p, cand |-> cursor[p]] \in Job
    BY DEF TypeOK, Job
  <2>4. item' \in [Paths -> Item \cup {Nil}] /\ jobs' \in Seq(Job)
    <3>1. CASE NoChange(p)
      BY <1>6, <3>1 DEF TypeOK, ApplyEvent
    <3>2. CASE ~NoChange(p)
      <4>1. /\ item' = [item EXCEPT ![p] = [base |-> accepted[p], cand |-> cursor[p],
                                            decision |-> "PENDING"]]
            /\ jobs' = Append(jobs, [path |-> p, cand |-> cursor[p]])
        BY <1>6, <3>2 DEF ApplyEvent
      <4>2. item' \in [Paths -> Item \cup {Nil}]
        BY <2>2, <4>1 DEF TypeOK
      <4>3. jobs' \in Seq(Job)
        BY <2>3, <4>1 DEF TypeOK
      <4> QED
        BY <4>2, <4>3
    <3> QED
      BY <3>1, <3>2
  <2> QED
    BY <1>6, <2>1, <2>4 DEF TypeOK, ApplyEvent
<1>7. ASSUME NEW p \in Paths, ApplyFails(p) PROVE TypeOK'
  BY <1>7 DEF TypeOK, ApplyFails, Captured
<1>8. ASSUME NEW p \in Paths, Accept(p) PROVE TypeOK'
  BY <1>8, AcceptTyped DEF TypeOK, Accept
<1>9. ASSUME NEW p \in Paths, AutoIndex(p) PROVE TypeOK'
  BY <1>9, AcceptTyped DEF TypeOK, AutoIndex
<1>10. ASSUME NEW p \in Paths, Reject(p) PROVE TypeOK'
  <2>1. Baseline(p) \in Contents
    BY <1>10, ItemTyped, BytesTyped DEF Reject, Baseline, Contents
  <2>2. EntryFor(p, "RESTORE") \in Entry
    BY <1>10, EntryForTyped DEF Reject
  <2>3. file' \in [Paths -> Contents] /\ item' \in [Paths -> Item \cup {Nil}]
    BY <1>10, <2>1 DEF Reject, TypeOK
  <2>4. history' \in Seq(Entry) /\ Len(history') <= MaxHistory /\ last' \in 0 .. Len(history')
    BY <1>10, <2>2, AppendTyped DEF Reject
  <2>5. cursor' = file' /\ phase' = "save" /\ missed' \subseteq Paths
    BY <1>10 DEF Reject, Synchronise, Swallowed, TypeOK
  <2> QED
    BY <1>10, <2>3, <2>4, <2>5 DEF TypeOK, Reject
<1>11. ASSUME NEW p \in Paths, Hold(p) \/ AutoIndexFails(p) PROVE TypeOK'
  <2>1. item[p] # Nil /\ item' = [item EXCEPT ![p] = [item[p] EXCEPT !.decision = "REVIEW"]]
    BY <1>11 DEF Hold, AutoIndexFails
  <2>2. [item[p] EXCEPT !.decision = "REVIEW"] \in Item
    BY <2>1, ItemTyped DEF Item
  <2>3. item' \in [Paths -> Item \cup {Nil}]
    BY <2>1, <2>2 DEF TypeOK
  <2> QED
    BY <1>11, <2>3 DEF TypeOK, Hold, AutoIndexFails
<1>12. ASSUME NEW w \in Workers, AssessStart(w) PROVE TypeOK'
  <2> DEFINE j == Head(jobs)
             stale == item[j.path] = Nil \/ item[j.path].cand # j.cand
  <2>1. j \in Job /\ Tail(jobs) \in Seq(Job)
    BY <1>12 DEF AssessStart, TypeOK
  <2>2. j.path \in Paths /\ j.cand \in Contents
    BY <2>1 DEF Job
  <2>3. \A m \in BOOLEAN : [path |-> j.path, cand |-> j.cand, mandatory |-> m] \in Task
    BY <2>2 DEF Task
  <2>4. Mandatory(item[j.path]) \in BOOLEAN
    BY DEF Mandatory, IsAddition, IsDeletion
  <2>5. worker' = [worker EXCEPT ![w] =
                     IF stale THEN Nil
                     ELSE [path |-> j.path, cand |-> j.cand,
                           mandatory |-> Mandatory(item[j.path])]]
    BY <1>12 DEF AssessStart
  <2>6. worker' \in [Workers -> Task \cup {Nil}]
    BY <2>3, <2>4, <2>5 DEF TypeOK
  <2> QED
    BY <1>12, <2>1, <2>6 DEF TypeOK, AssessStart
<1>13. ASSUME NEW w \in Workers, NEW d \in {"REVIEW", "AUTO"}, AssessDone(w, d)
       PROVE  TypeOK'
  <2> DEFINE t == worker[w]
             stale == item[t.path] = Nil \/ item[t.path].cand # t.cand
  <2>1. t.path \in Paths
    BY <1>13 DEF AssessDone, TypeOK, Task
  <2>2. item' \in [Paths -> Item \cup {Nil}] /\ phase' \in {phase, "save"}
    <3>1. CASE stale
      BY <1>13, <3>1 DEF AssessDone, TypeOK
    <3>2. CASE ~stale
      <4>1. PICK v \in {"REVIEW", "AUTO"} :
              item' = [item EXCEPT ![t.path] = [item[t.path] EXCEPT !.decision = v]]
        BY <1>13, <3>2 DEF AssessDone
      <4>2. [item[t.path] EXCEPT !.decision = v] \in Item
        BY <2>1, <3>2, ItemTyped DEF Item
      <4> QED
        BY <1>13, <3>2, <4>1, <4>2 DEF AssessDone, TypeOK
    <3> QED
      BY <3>1, <3>2
  <2> QED
    BY <1>13, <2>2 DEF TypeOK, AssessDone
<1>14. CASE UndoEntry
  <2> DEFINE e == history[ToUndo]
  <2>1. ToUndo \in DOMAIN history
    BY <1>14 DEF UndoEntry, ToUndo, TypeOK
  <2>2. e.path \in Paths /\ e.before \in Contents
    BY <2>1, EntryTyped
  <2>3. /\ UndoneIndex(e, rank[e.path]) \in [Shas -> Nat]
        /\ Bytes(IF UndoesDeletion(e) THEN e.base ELSE e.cand) \in Contents
        /\ [base |-> e.base, cand |-> e.cand, decision |-> "REVIEW"] \in Item
    BY <2>1, UndoTyped
  <2>4. /\ file' = [file EXCEPT ![e.path] =
                      Bytes(IF UndoesDeletion(e) THEN e.base ELSE e.cand)]
        /\ rank' = [rank EXCEPT ![e.path] = UndoneIndex(e, rank[e.path])]
        /\ accepted' = [accepted EXCEPT ![e.path] = e.before]
        /\ item' = [item EXCEPT ![e.path] =
                      [base |-> e.base, cand |-> e.cand, decision |-> "REVIEW"]]
        /\ reverted' = reverted \cup {e.path}
    BY <1>14 DEF UndoEntry, FileRestored, IndexRestored, UndoneAccepted
  <2>5. last' = ToUndo - 1 /\ last' \in 0 .. Len(history)
    BY <1>14, <2>1 DEF UndoEntry, TypeOK
  <2> HIDE DEF e
  <2>6. /\ file' \in [Paths -> Contents] /\ rank' \in [Paths -> [Shas -> Nat]]
        /\ accepted' \in [Paths -> Contents]
    BY <2>2, <2>3, <2>4 DEF TypeOK
  <2>7. item' \in [Paths -> Item \cup {Nil}]
    BY <2>2, <2>3, <2>4 DEF TypeOK
  <2>8. reverted' \subseteq Paths
    BY <2>2, <2>4 DEF TypeOK
  <2> QED
    BY <1>14, <2>5, <2>6, <2>7, <2>8 DEF TypeOK, UndoEntry
<1>15. CASE RestoreDone
  <2>1. history' = SubSeq(history, 1, last) /\ last' = 0
    BY <1>15 DEF RestoreDone
  <2>2. history' \in Seq(Entry) /\ Len(history') = last /\ last <= MaxHistory
    BY <2>1, QueueAssumption DEF TypeOK
  <2>3. UndonePaths \subseteq Paths
    BY EntryTyped DEF UndonePaths, TypeOK
  <2>4. missed' \subseteq Paths /\ cursor' = file /\ phase' = "save"
    BY <1>15, <2>3 DEF RestoreDone, Synchronise, Swallowed, TypeOK
  <2> QED
    BY <1>15, <2>1, <2>2, <2>4 DEF TypeOK, RestoreDone
<1>16. CASE UndoFails
  <2> DEFINE e == history[ToUndo]
  <2>1. ToUndo \in DOMAIN history
    BY <1>16 DEF UndoFails, ToUndo, TypeOK
  <2>2. e.path \in Paths
    BY <2>1, EntryTyped
  <2>3. /\ UndoneIndex(e, rank[e.path]) \in [Shas -> Nat]
        /\ Bytes(IF UndoesDeletion(e) THEN e.base ELSE e.cand) \in Contents
    BY <2>1, UndoTyped
  <2>4. /\ file' \in [Paths -> Contents] /\ rank' \in [Paths -> [Shas -> Nat]]
        /\ reverted' \subseteq Paths
    <3>1. PICK f \in [Paths -> Contents] :
            f = [file EXCEPT ![e.path] = Bytes(IF UndoesDeletion(e) THEN e.base ELSE e.cand)]
      BY <2>2, <2>3 DEF TypeOK
    <3>2. PICK r \in [Paths -> [Shas -> Nat]] :
            r = [rank EXCEPT ![e.path] = UndoneIndex(e, rank[e.path])]
      BY <2>2, <2>3 DEF TypeOK
    <3>3. /\ file' \in {file, f} /\ rank' \in {rank, r}
          /\ reverted' \in {reverted, reverted \cup {e.path}}
      BY <1>16, <3>1, <3>2 DEF UndoFails, FileRestored, IndexRestored
    <3> HIDE DEF e
    <3> QED
      BY <2>2, <3>3 DEF TypeOK
  <2>5. UndonePaths \subseteq Paths
    BY EntryTyped DEF UndonePaths, TypeOK
  <2> QED
    BY <1>16, <2>4, <2>5 DEF TypeOK, UndoFails
<1>17. CASE UNCHANGED vars
  BY <1>17 DEF TypeOK, vars
<1> QED
  BY <1>1, <1>2, <1>3, <1>4, <1>5, <1>6, <1>7, <1>8, <1>9, <1>10, <1>11, <1>12,
     <1>13, <1>14, <1>15, <1>16, <1>17 DEF Next
-----------------------------------------------------------------------------
(* Every copy stays sound *)

\* A snapshot file with its digest's bytes is never replaced.
LEMMA SnapshotsKept ==
  ASSUME TypeOK, [Next]_vars, NEW s, Good(snap, s)
  PROVE  Good(snap', s)
<1> USE DEF memory, disk, loops, tasks, ghosts
<1>1. ASSUME NEW p \in Paths, ApplyEvent(p) \/ ApplyFails(p) PROVE Good(snap', s)
  BY <1>1 DEF ApplyEvent, ApplyFails, Capture, Captured, Good, TypeOK
<1>2. CASE UNCHANGED snap
  BY <1>2 DEF Good
<1>3. \/ UNCHANGED snap
      \/ \E p \in Paths : ApplyEvent(p) \/ ApplyFails(p)
  BY DEF Next, FileEdit, PollScan, EventsDone, SaveState, Crash, Accept, Reject,
     Hold, AutoIndex, AutoIndexFails, AssessStart, AssessDone, UndoEntry,
     RestoreDone, UndoFails, vars
<1> QED
  BY <1>1, <1>2, <1>3

\* Dropping items and deciding them leaves a copy sound.
LEMMA FewerItems ==
  ASSUME NEW sn, NEW acc, NEW it, NEW jt, NEW h, Sound(sn, acc, it, h),
         \A p \in Paths : \/ jt[p] = Nil
                          \/ /\ it[p] # Nil
                             /\ jt[p].base = it[p].base /\ jt[p].cand = it[p].cand
  PROVE  Sound(sn, acc, jt, h)
BY DEF Sound

LEMMA SoundLater ==
  ASSUME NEW sn, NEW tn, NEW acc, NEW it, NEW h, Sound(sn, acc, it, h),
         \A s : Good(sn, s) => Good(tn, s)
  PROVE  Sound(tn, acc, it, h)
BY DEF Sound

LEMMA AppendedEntries ==
  ASSUME NEW h \in Seq(Entry), NEW e \in Entry
  PROVE  /\ Append(h, e) \in Seq(Entry) /\ Len(Append(h, e)) = Len(h) + 1
         /\ \A i \in 1 .. Len(h) : Append(h, e)[i] = h[i]
         /\ Append(h, e)[Len(h) + 1] = e
         /\ DOMAIN Append(h, e) = 1 .. Len(h) + 1 /\ DOMAIN h = 1 .. Len(h)
OBVIOUS

\* The review of a queued change can be appended to the history.
LEMMA SoundReview ==
  ASSUME TypeOK, QueueInv, NEW p \in Paths, item[p] # Nil,
         NEW a \in {"INDEX", "AUTO_INDEX", "RESTORE"}, NEW acc \in [Paths -> Contents],
         acc[p] \in {accepted[p], item[p].cand},
         \A q \in Paths : q # p => acc[q] = accepted[q]
  PROVE  Sound(snap, acc, [item EXCEPT ![p] = Nil], Append(history, EntryFor(p, a)))
<1> DEFINE e == EntryFor(p, a)
           h == Append(history, e)
<1>1. /\ Good(snap, e.base) /\ Good(snap, e.cand)
      /\ e.before = e.base /\ e.cand # e.base
  BY DEF EntryFor, QueueInv, Sound
<1>2. \A i \in DOMAIN h : h[i] = e \/ (i \in DOMAIN history /\ h[i] = history[i])
  <2>1. e \in Entry /\ history \in Seq(Entry) /\ Len(history) \in Nat
    BY EntryForTyped DEF TypeOK
  <2> HIDE DEF e
  <2> QED
    BY <2>1, AppendedEntries
<1>3. \A q \in Paths : Good(snap, acc[q])
  BY DEF QueueInv, Sound
<1>4. \A q \in Paths : q # p => [item EXCEPT ![p] = Nil][q] = item[q]
  BY DEF TypeOK
<1>6. [item EXCEPT ![p] = Nil][p] = Nil
  BY DEF TypeOK
<1> HIDE DEF e, h
<1>5. Sound(snap, acc, [item EXCEPT ![p] = Nil], h)
  BY <1>1, <1>2, <1>3, <1>4, <1>6 DEF QueueInv, Sound
<1> QED
  BY <1>5 DEF e, h

LEMMA QueueStep == TypeOK /\ QueueInv /\ [Next]_vars => QueueInv'
<1> SUFFICES ASSUME TypeOK, QueueInv, [Next]_vars PROVE QueueInv'
  OBVIOUS
<1>0. /\ Sound(snap', accepted, item, history)
      /\ Sound(snap', saved.accepted, saved.item, saved.history)
  BY SnapshotsKept, SoundLater DEF QueueInv
<1> USE DEF memory, disk, loops, tasks, ghosts
<1>1. CASE UNCHANGED <<memory, saved>>
  BY <1>0, <1>1 DEF QueueInv
<1>2. CASE EventsDone
  <2>1. Sound(snap', accepted, item', history)
    BY <1>0, <1>2, FewerItems DEF EventsDone
  <2> QED
    BY <1>0, <1>2, <2>1 DEF EventsDone, QueueInv
<1>3. CASE SaveState
  <2>1. saved'.accepted = accepted /\ saved'.item = item /\ saved'.history = history
    BY <1>3 DEF SaveState, Saved
  <2> QED
    BY <1>0, <1>3, <2>1 DEF SaveState, QueueInv
<1>4. CASE Crash
  BY <1>0, <1>4 DEF Crash, QueueInv
<1>5. ASSUME NEW p \in Paths, ApplyEvent(p) PROVE QueueInv'
  <2>1. CASE NoChange(p)
    <3>1. Sound(snap', accepted, item', history)
      BY <1>0, <1>5, <2>1, FewerItems DEF ApplyEvent, TypeOK
    <3> QED
      BY <1>0, <1>5, <3>1 DEF ApplyEvent, QueueInv
  <2>2. CASE ~NoChange(p)
    <3>1. /\ item'[p] = [base |-> accepted[p], cand |-> cursor[p], decision |-> "PENDING"]
          /\ \A q \in Paths : q # p => item'[q] = item[q]
      BY <1>5, <2>2 DEF ApplyEvent, TypeOK
    <3>2. cursor[p] # accepted[p]
      BY <2>2 DEF NoChange
    <3>3. Good(snap', cursor[p])
      BY <1>5 DEF ApplyEvent, Capture, Good, TypeOK, Contents
    <3>4. Sound(snap', accepted, item', history)
      BY <1>0, <3>1, <3>2, <3>3 DEF Sound
    <3> QED
      BY <1>0, <1>5, <3>4 DEF ApplyEvent, QueueInv
  <2> QED
    BY <2>1, <2>2
<1>6. ASSUME NEW p \in Paths, Accept(p) \/ AutoIndex(p) PROVE QueueInv'
  <2>1. PICK a \in {"INDEX", "AUTO_INDEX"} : AcceptLocked(p, a)
    BY <1>6 DEF Accept, AutoIndex
  <2>2. item[p] # Nil /\ snap' = snap /\ saved' = saved
    BY <1>6 DEF Accept, AutoIndex
  <2>3. accepted' \in [Paths -> Contents]
    BY <2>1, <2>2, AcceptTyped
  <2>4. /\ accepted' = [accepted EXCEPT ![p] = item[p].cand]
        /\ item' = [item EXCEPT ![p] = Nil]
        /\ history' = Append(history, EntryFor(p, a))
    BY <2>1 DEF AcceptLocked
  <2>5. Sound(snap, accepted', item', history')
    BY <2>2, <2>3, <2>4, SoundReview DEF TypeOK
  <2> QED
    BY <2>2, <2>5 DEF QueueInv
<1>7. ASSUME NEW p \in Paths, Reject(p) PROVE QueueInv'
  BY <1>7, SoundReview DEF Reject, QueueInv, TypeOK
<1>8. ASSUME NEW p \in Paths, Hold(p) \/ AutoIndexFails(p) PROVE QueueInv'
  <2>1. item[p] # Nil /\ item' = [item EXCEPT ![p] = [item[p] EXCEPT !.decision = "REVIEW"]]
    BY <1>8 DEF Hold, AutoIndexFails
  <2>2. \A q \in Paths : \/ item'[q] = Nil
                         \/ /\ item[q] # Nil
                            /\ item'[q].base = item[q].base
                            /\ item'[q].cand = item[q].cand
    BY <2>1, ItemTyped DEF TypeOK, Item
  <2>3. Sound(snap', accepted, item', history)
    BY <1>0, <2>2, FewerItems
  <2> QED
    BY <1>0, <1>8, <2>3 DEF Hold, AutoIndexFails, QueueInv
<1>9. ASSUME NEW w \in Workers, NEW d \in {"REVIEW", "AUTO"}, AssessDone(w, d)
      PROVE  QueueInv'
  <2> DEFINE t == worker[w]
             stale == item[t.path] = Nil \/ item[t.path].cand # t.cand
  <2>1. t.path \in Paths
    BY <1>9 DEF AssessDone, TypeOK, Task
  <2>2. CASE stale
    BY <1>0, <1>9, <2>2 DEF AssessDone, QueueInv
  <2>3. CASE ~stale
    <3>1. PICK v \in {"REVIEW", "AUTO"} :
            item' = [item EXCEPT ![t.path] = [item[t.path] EXCEPT !.decision = v]]
      BY <1>9, <2>3 DEF AssessDone
    <3>2. \A q \in Paths : \/ item'[q] = Nil
                           \/ /\ item[q] # Nil
                              /\ item'[q].base = item[q].base
                              /\ item'[q].cand = item[q].cand
      BY <2>1, <2>3, <3>1, ItemTyped DEF TypeOK, Item
    <3>3. Sound(snap', accepted, item', history)
      BY <1>0, <3>2, FewerItems
    <3> QED
      BY <1>0, <1>9, <3>3 DEF AssessDone, QueueInv
  <2> QED
    BY <2>2, <2>3
<1>10. CASE UndoEntry
  <2> DEFINE e == history[ToUndo]
  <2>1. ToUndo \in DOMAIN history
    BY <1>10 DEF UndoEntry, ToUndo, TypeOK
  <2>2. /\ e.path \in Paths
        /\ Good(snap, e.base) /\ Good(snap, e.cand)
        /\ e.before = e.base /\ e.cand # e.base
    BY <2>1, EntryTyped DEF QueueInv, Sound
  <2>3. /\ accepted' = [accepted EXCEPT ![e.path] = e.before]
        /\ item' = [item EXCEPT ![e.path] =
                      [base |-> e.base, cand |-> e.cand, decision |-> "REVIEW"]]
        /\ history' = history /\ snap' = snap /\ saved' = saved
    BY <1>10 DEF UndoEntry, UndoneAccepted
  <2> HIDE DEF e
  <2>4. /\ accepted'[e.path] = e.base
        /\ item'[e.path] = [base |-> e.base, cand |-> e.cand, decision |-> "REVIEW"]
        /\ \A q \in Paths : q # e.path => accepted'[q] = accepted[q] /\ item'[q] = item[q]
    BY <2>2, <2>3 DEF TypeOK
  <2>5. Sound(snap, accepted', item', history)
    BY <2>2, <2>4 DEF QueueInv, Sound
  <2> QED
    BY <2>3, <2>5 DEF QueueInv
<1>11. CASE RestoreDone
  <2>1. \A i \in DOMAIN history' : i \in DOMAIN history /\ history'[i] = history[i]
    BY <1>11 DEF RestoreDone, TypeOK
  <2>2. Sound(snap', accepted, item, history')
    BY <1>0, <2>1 DEF Sound
  <2> QED
    BY <1>0, <1>11, <2>2 DEF RestoreDone, QueueInv
<1> QED
  BY <1>1, <1>2, <1>3, <1>4, <1>5, <1>6, <1>7, <1>8, <1>9, <1>10, <1>11
     DEF Next, FileEdit, PollScan, ApplyFails, AssessStart, UndoFails, vars

LEMMA InitSound == Init => TypeOK /\ QueueInv
<1> SUFFICES ASSUME Init PROVE TypeOK /\ QueueInv
  OBVIOUS
<1>1. /\ saved.accepted = accepted /\ saved.item = item /\ saved.history = <<>>
      /\ history = <<>> /\ Len(history) = 0 /\ DOMAIN history = {}
  BY DEF Init, Saved
<1>2. NoVersions \in [Shas -> Nat]
  BY DEF NoVersions
<1>3. TypeOK
  <2>1. /\ file \in [Paths -> Contents] /\ cursor \in [Paths -> Contents]
        /\ snap \in [Shas -> Contents] /\ accepted \in [Paths -> Contents]
        /\ rank \in [Paths -> [Shas -> Nat]]
    BY <1>2 DEF Init, Contents
  <2>2. /\ item \in [Paths -> Item \cup {Nil}]
        /\ worker \in [Workers -> Task \cup {Nil}]
        /\ jobs \in Seq(Job)
    BY DEF Init
  <2>3. history \in Seq(Entry) /\ Len(history) <= MaxHistory /\ last \in 0 .. Len(history)
    BY <1>1, QueueAssumption DEF Init
  <2>4. /\ phase = "idle" /\ pending = {}
        /\ missed = {} /\ unsaved = {} /\ reverted = {}
    BY DEF Init
  <2>5. /\ saved.accepted \in [Paths -> Contents] /\ saved.item \in [Paths -> Item \cup {Nil}]
        /\ saved.history \in Seq(Entry) /\ Len(saved.history) <= MaxHistory
    BY <1>1, <2>1, <2>2, <2>3
  <2> QED
    BY <2>1, <2>2, <2>3, <2>4, <2>5 DEF TypeOK
<1>4. QueueInv
  BY <1>1 DEF Init, QueueInv, Sound, Good
<1> QED
  BY <1>3, <1>4

LEMMA QueueInvariant == Spec => [](TypeOK /\ QueueInv)
BY InitSound, TypeStep, QueueStep, PTL DEF Spec

\* The queue's variables keep their types under every interleaving, restart
\* and failing restoration; in particular only contents with a snapshot are
\* put into the index.
THEOREM TypeCorrect == Spec => []TypeOK
BY QueueInvariant, PTL

\* Every digest the queue may still restore or index has a snapshot with its
\* bytes, though users write the files while _capture copies them.
THEOREM SnapshotsStay == Spec => []SnapshotsIntact
<1>1. TypeOK /\ QueueInv => SnapshotsIntact
  BY DEF QueueInv, Sound, Good, SnapshotsIntact
<1> QED
  BY <1>1, QueueInvariant, PTL

\* A queued change is about the difference to what is accepted now, also after
\* restorations that ended, failed or died midway.
THEOREM BaselineKept == Spec => []BaselineIsAccepted
<1>1. TypeOK /\ QueueInv => BaselineIsAccepted
  BY DEF QueueInv, Sound, BaselineIsAccepted
<1> QED
  BY <1>1, QueueInvariant, PTL
-----------------------------------------------------------------------------
(* The history explains what was accepted, and what the index holds *)

\* One of the first n entries of h put version s of p into the index.
Explained(h, n, p, s) ==
  \E i \in 1 .. n : h[i].path = p /\ h[i].cand = s /\ h[i].action # "RESTORE"

\* Accepted content comes from such an entry, and so does the baseline of every
\* entry, from an earlier one.
Grounded(acc, h, n) ==
  /\ \A p \in Paths : acc[p] # NoSha => Explained(h, n, p, acc[p])
  /\ \A i \in DOMAIN h :
       h[i].base # NoSha => Explained(h, i - 1, h[i].path, h[i].base)

\* ToUndo entries still stand while a restoration runs; a crash goes back to
\* the saved history.
HistoryInv ==
  /\ Grounded(accepted, history, ToUndo)
  /\ Grounded(saved.accepted, saved.history, Len(saved.history))
  /\ phase \in {"idle", "events", "undo"} => history = saved.history

LEMMA ExplainedMore ==
  ASSUME NEW h, NEW n \in Nat, NEW m \in Nat, n <= m, NEW p, NEW s, Explained(h, n, p, s)
  PROVE  Explained(h, m, p, s)
BY DEF Explained

LEMMA ExplainedAppend ==
  ASSUME NEW h \in Seq(Entry), NEW e \in Entry, NEW n \in Nat, n <= Len(h), NEW p, NEW s
  PROVE  /\ Explained(h, n, p, s) => Explained(Append(h, e), n, p, s)
         /\ Explained(h, n, p, s) => Explained(Append(h, e), Len(h) + 1, p, s)
BY AppendedEntries DEF Explained

LEMMA ExplainedLast ==
  ASSUME NEW h \in Seq(Entry), NEW e \in Entry, e.action # "RESTORE"
  PROVE  Explained(Append(h, e), Len(h) + 1, e.path, e.cand)
<1>1. Len(h) + 1 \in 1 .. Len(h) + 1
  OBVIOUS
<1> QED
  BY <1>1, AppendedEntries DEF Explained

LEMMA ExplainedPrefix ==
  ASSUME NEW h \in Seq(Entry), NEW n \in 0 .. Len(h), NEW m \in 0 .. n, NEW p, NEW s,
         Explained(h, m, p, s)
  PROVE  Explained(SubSeq(h, 1, n), m, p, s)
BY DEF Explained

\* Undoing the n-th entry takes away what it explained, and nothing else.
LEMMA ExplainedWithout ==
  ASSUME NEW h, NEW n \in Nat, n > 0, NEW p, NEW s, Explained(h, n, p, s),
         ~(h[n].path = p /\ h[n].cand = s /\ h[n].action # "RESTORE")
  PROVE  Explained(h, n - 1, p, s)
BY DEF Explained

\* A review's baseline is accepted, so that an entry of the history explains it.
LEMMA ReviewGrounded ==
  ASSUME TypeOK, QueueInv, HistoryInv, phase # "undo", NEW p \in Paths, item[p] # Nil,
         NEW a \in {"INDEX", "AUTO_INDEX", "RESTORE"}, NEW acc \in [Paths -> Contents],
         acc[p] = accepted[p] \/ (a # "RESTORE" /\ acc[p] = item[p].cand),
         \A q \in Paths : q # p => acc[q] = accepted[q]
  PROVE  Grounded(acc, Append(history, EntryFor(p, a)), Len(history) + 1)
<1> DEFINE e == EntryFor(p, a)
           h == Append(history, e)
           n == Len(history)
<1>1. history \in Seq(Entry) /\ e \in Entry /\ n \in Nat
  BY EntryForTyped DEF TypeOK
<1>2. /\ e.path = p /\ e.cand = item[p].cand /\ e.action = a
      /\ e.base = accepted[p]
  BY DEF EntryFor, QueueInv, Sound
<1>3. Grounded(accepted, history, n)
  BY DEF HistoryInv, ToUndo
<1> HIDE DEF e
<1>4. /\ \A i \in 1 .. n : h[i] = history[i]
      /\ h[n + 1] = e /\ DOMAIN h = 1 .. n + 1 /\ DOMAIN history = 1 .. n
  BY <1>1, AppendedEntries
<1>5. \A m \in Nat : \A q, s : m <= n /\ Explained(history, m, q, s) =>
        Explained(h, m, q, s) /\ Explained(h, n + 1, q, s)
  BY <1>1, ExplainedAppend
<1>6. a # "RESTORE" => Explained(h, n + 1, p, item[p].cand)
  BY <1>1, <1>2, ExplainedLast
<1> HIDE DEF h, n
<1>7. ASSUME NEW q \in Paths, acc[q] # NoSha PROVE Explained(h, n + 1, q, acc[q])
  BY <1>1, <1>3, <1>5, <1>6, <1>7 DEF Grounded
<1>8. ASSUME NEW i \in DOMAIN h, h[i].base # NoSha
      PROVE  Explained(h, i - 1, h[i].path, h[i].base)
  <2>1. CASE i \in 1 .. n
    <3>1. Explained(history, i - 1, h[i].path, h[i].base)
      BY <1>3, <1>4, <1>8, <2>1 DEF Grounded
    <3>2. i - 1 \in Nat /\ i - 1 <= n
      BY <1>1, <2>1
    <3> QED
      BY <1>5, <3>1, <3>2
  <2>2. CASE i = n + 1
    <3>1. Explained(history, n, p, accepted[p])
      BY <1>2, <1>3, <1>4, <1>8, <2>2 DEF Grounded
    <3>2. h[i].path = p /\ h[i].base = accepted[p] /\ i - 1 = n
      BY <1>1, <1>2, <1>4, <2>2
    <3> QED
      BY <1>1, <1>5, <3>1, <3>2
  <2> QED
    BY <1>1, <1>4, <2>1, <2>2
<1>9. Grounded(acc, h, n + 1)
  BY <1>7, <1>8 DEF Grounded
<1> QED
  BY <1>9 DEF e, h, n

LEMMA HistoryStep == TypeOK /\ QueueInv /\ HistoryInv /\ [Next]_vars => HistoryInv'
<1> SUFFICES ASSUME TypeOK, QueueInv, HistoryInv, [Next]_vars PROVE HistoryInv'
  OBVIOUS
<1>0. history \in Seq(Entry) /\ Len(history) \in Nat /\ last \in 0 .. Len(history)
  BY DEF TypeOK
<1> USE DEF memory, disk, loops, tasks, ghosts
<1>1. CASE /\ UNCHANGED <<accepted, history, saved>>
           /\ phase # "undo" /\ phase' # "undo"
           /\ phase' \in {"idle", "events"} => phase \in {"idle", "events"}
  BY <1>1 DEF HistoryInv, ToUndo
<1>2. CASE UNCHANGED <<accepted, history, saved, phase, last>>
  BY <1>2 DEF HistoryInv, ToUndo
<1>3. CASE SaveState
  <2>1. saved'.accepted = accepted /\ saved'.history = history
    BY <1>3 DEF SaveState, Saved
  <2>2. /\ accepted' = accepted /\ history' = history
        /\ phase # "undo" /\ phase' = "idle"
    BY <1>3 DEF SaveState
  <2> QED
    BY <2>1, <2>2 DEF HistoryInv, ToUndo
<1>4. CASE Crash
  BY <1>4 DEF Crash, HistoryInv, ToUndo
<1>5. ASSUME NEW p \in Paths, Accept(p) \/ AutoIndex(p) PROVE HistoryInv'
  <2>1. PICK a \in {"INDEX", "AUTO_INDEX"} : AcceptLocked(p, a)
    BY <1>5 DEF Accept, AutoIndex
  <2>2. /\ item[p] # Nil /\ saved' = saved /\ phase # "undo"
        /\ phase' \in {"due", "save"}
    BY <1>5 DEF Accept, AutoIndex
  <2>3. accepted' \in [Paths -> Contents]
    BY <2>1, <2>2, AcceptTyped
  <2>4. /\ accepted' = [accepted EXCEPT ![p] = item[p].cand]
        /\ history' = Append(history, EntryFor(p, a))
    BY <2>1 DEF AcceptLocked
  <2>5. Grounded(accepted', history', Len(history) + 1)
    BY <2>2, <2>3, <2>4, ReviewGrounded DEF TypeOK
  <2>6. Len(history') = Len(history) + 1
    BY <2>2, <2>4, EntryForTyped, AppendedEntries DEF TypeOK
  <2> QED
    BY <2>2, <2>5, <2>6 DEF HistoryInv, ToUndo
<1>6. ASSUME NEW p \in Paths, Reject(p) PROVE HistoryInv'
  <2>1. /\ item[p] # Nil /\ saved' = saved /\ phase = "idle" /\ phase' = "save"
        /\ accepted' = accepted /\ history' = Append(history, EntryFor(p, "RESTORE"))
    BY <1>6 DEF Reject, Synchronise
  <2>2. Grounded(accepted', history', Len(history) + 1)
    BY <2>1, ReviewGrounded DEF TypeOK
  <2>3. Len(history') = Len(history) + 1
    BY <2>1, EntryForTyped, AppendedEntries DEF TypeOK
  <2> QED
    BY <2>1, <2>2, <2>3 DEF HistoryInv, ToUndo
<1>7. CASE UndoEntry
  <2> DEFINE n == ToUndo
             e == history[n]
  <2>1. n \in DOMAIN history /\ n \in Nat /\ n > 0
    BY <1>0, <1>7 DEF UndoEntry, ToUndo
  <2>2. /\ accepted' = [accepted EXCEPT ![e.path] = e.before]
        /\ history' = history /\ saved' = saved
        /\ phase \in {"idle", "undo"} /\ phase' = "undo" /\ last' = n - 1
    BY <1>7 DEF UndoEntry, UndoneAccepted
  <2>3. e.path \in Paths /\ e.before = e.base
    BY <2>1, EntryTyped DEF QueueInv, Sound
  <2>4. e.base # NoSha => Explained(history, n - 1, e.path, e.base)
    BY <2>1 DEF HistoryInv, Grounded
  <2>5. \A q \in Paths : accepted[q] # NoSha => Explained(history, n, q, accepted[q])
    BY DEF HistoryInv, Grounded
  <2> HIDE DEF n
  <2>6. ASSUME NEW q \in Paths, accepted'[q] # NoSha
        PROVE  Explained(history, n - 1, q, accepted'[q])
    <3>1. CASE q = e.path
      BY <2>2, <2>3, <2>4, <2>6, <3>1 DEF TypeOK
    <3>2. CASE q # e.path
      <4>1. accepted'[q] = accepted[q]
        BY <2>2, <3>2 DEF TypeOK
      <4> QED
        BY <2>1, <2>5, <2>6, <3>2, <4>1, ExplainedWithout
    <3> QED
      BY <3>1, <3>2
  <2>7. Grounded(accepted', history, n - 1)
    BY <2>6 DEF HistoryInv, Grounded
  <2> QED
    BY <2>2, <2>7 DEF HistoryInv, ToUndo
<1>8. CASE RestoreDone
  <2>1. /\ history' = SubSeq(history, 1, last) /\ accepted' = accepted /\ saved' = saved
        /\ phase = "undo" /\ phase' = "save"
    BY <1>8 DEF RestoreDone, Synchronise
  <2>2. /\ Len(history') = last /\ DOMAIN history' = 1 .. last
        /\ \A i \in 1 .. last : i \in DOMAIN history /\ history'[i] = history[i]
    BY <1>0, <2>1
  <2>3. \A m \in 0 .. last : \A q, s : Explained(history, m, q, s) => Explained(history', m, q, s)
    BY <1>0, <2>1, ExplainedPrefix
  <2>4. Grounded(accepted, history, last)
    BY <2>1 DEF HistoryInv, ToUndo
  <2>5. ASSUME NEW i \in 1 .. last, history'[i].base # NoSha
        PROVE  Explained(history', i - 1, history'[i].path, history'[i].base)
    <3>1. Explained(history, i - 1, history'[i].path, history'[i].base)
      BY <2>2, <2>4, <2>5 DEF Grounded
    <3>2. i - 1 \in 0 .. last
      BY <1>0
    <3> QED
      BY <2>3, <3>1, <3>2
  <2>6. Grounded(accepted', history', last)
    BY <1>0, <2>1, <2>2, <2>3, <2>4, <2>5 DEF Grounded
  <2> QED
    BY <2>1, <2>2, <2>6 DEF HistoryInv, ToUndo
<1>9. CASE UndoFails
  <2>1. /\ accepted' = accepted /\ history' = history /\ saved' = saved
        /\ phase \in {"idle", "undo"} /\ phase' = "idle"
    BY <1>9 DEF UndoFails
  <2>2. ToUndo \in Nat /\ ToUndo <= Len(history)
    BY <1>0 DEF ToUndo
  <2>3. Grounded(accepted, history, Len(history))
    BY <1>0, <2>2, ExplainedMore DEF HistoryInv, Grounded
  <2> QED
    BY <2>1, <2>3 DEF HistoryInv, ToUndo
<1> QED
  BY <1>1, <1>2, <1>3, <1>4, <1>5, <1>6, <1>7, <1>8, <1>9
     DEF Next, FileEdit, PollScan, EventsDone, ApplyEvent, ApplyFails, Hold,
         AutoIndexFails, AssessStart, AssessDone, vars
-----------------------------------------------------------------------------
Traced(p, h, n) == \A s \in Shas : rank[p][s] # 0 => Explained(h, n, p, s)

Recorded(p) == Traced(p, saved.history, Len(saved.history))

\* Every version in the index has an entry that still stands, ...
RowsStand == \A p \in Paths \ unsaved : Traced(p, history, ToUndo)

\* ... and, unless the path was accepted since the last save, one in the queue
\* file, to which a crash goes back.
RowsRecorded ==
  \A p \in Paths \ unsaved :
    accepted[p] = saved.accepted[p] \/ (phase = "due" /\ item[p] # Nil) => Recorded(p)

\* Outside of due and save, the history is the saved one.
LEMMA AllRecorded ==
  TypeOK /\ HistoryInv /\ RowsStand /\ phase \in {"idle", "events", "undo"} =>
    \A p \in Paths \ unsaved : Recorded(p)
<1> SUFFICES ASSUME TypeOK, HistoryInv, RowsStand, phase \in {"idle", "events", "undo"},
                    NEW p \in Paths \ unsaved
             PROVE  Recorded(p)
  OBVIOUS
<1>1. ToUndo \in Nat /\ Len(history) \in Nat /\ ToUndo <= Len(history)
  BY DEF ToUndo, TypeOK
<1>2. Traced(p, history, Len(history))
  BY <1>1, ExplainedMore DEF RowsStand, Traced
<1> QED
  BY <1>2 DEF HistoryInv, Recorded

LEMMA AllRecordedAfter ==
  (TypeOK /\ HistoryInv /\ RowsStand /\ phase \in {"idle", "events", "undo"} =>
    \A p \in Paths \ unsaved : Recorded(p))'
BY AllRecorded, PTL

\* What stays in the table of a path that is accepted.
LEMMA AcceptedRows ==
  ASSUME TypeOK, QueueInv, NEW p \in Paths, item[p] # Nil, IndexEffect(p)
  PROVE  /\ \A q \in Paths : q # p => rank'[q] = rank[q]
         /\ \A s \in Shas : rank'[p][s] # 0 => rank[p][s] # 0 \/ s = item[p].cand
<1>1. CASE IsDeletion(item[p])
  <2>1. PICK c \in Contents :
          rank' = [rank EXCEPT ![p] = IF c = NoSha THEN @ ELSE Drop(@, c)]
    BY <1>1 DEF IndexEffect, CurrentRemoved
  <2>2. c # NoSha => Stored(Drop(rank[p], c)) \subseteq Stored(rank[p])
    BY RowsAreTables, DropStored DEF Contents
  <2> QED
    BY <2>1, <2>2 DEF Stored, TypeOK
<1>2. CASE ~IsDeletion(item[p])
  <2>1. rank' = [rank EXCEPT ![p] = Put(@, snap[item[p].cand])]
    BY <1>2 DEF IndexEffect
  <2>2. snap[item[p].cand] = item[p].cand /\ item[p].cand \in Shas
    BY <1>2 DEF IsDeletion, QueueInv, Sound, Good
  <2>3. Stored(Put(rank[p], item[p].cand)) = Stored(rank[p]) \cup {item[p].cand}
    BY <2>2, RowsAreTables, PutStored
  <2> QED
    BY <2>1, <2>2, <2>3 DEF Stored, TypeOK
<1> QED
  BY <1>1, <1>2

\* What stays in the table of a path whose review is undone.
LEMMA UndoneRows ==
  ASSUME TypeOK, QueueInv, NEW i \in DOMAIN history, NEW s \in Shas,
         UndoneIndex(history[i], rank[history[i].path])[s] # 0
  PROVE  \/ /\ rank[history[i].path][s] # 0
            /\ ~(history[i].action # "RESTORE" /\ history[i].cand = s)
         \/ UndoesDeletion(history[i]) /\ history[i].base = s
<1> DEFINE e == history[i]
           t == rank[e.path]
<1>1. /\ t \in Tables /\ e.base \in Contents /\ e.cand \in Contents
      /\ Good(snap, e.base) /\ e.cand # e.base
  BY EntryTyped, RowsAreTables DEF QueueInv, Sound
<1> HIDE DEF e, t
<1>2. CASE e.action = "RESTORE"
  BY <1>2 DEF UndoneIndex, e, t
<1>3. CASE e.action # "RESTORE" /\ IsDeletion(e)
  <2>1. snap[e.base] = e.base /\ e.base \in Shas
    BY <1>1, <1>3 DEF IsDeletion, Good
  <2>2. Stored(Put(t, e.base)) = Stored(t) \cup {e.base}
    BY <1>1, <2>1, PutStored
  <2>3. UndoneIndex(e, t) = Put(t, e.base)
    BY <1>3, <2>1 DEF UndoneIndex, UndoesDeletion
  <2>4. s \in Stored(Put(t, e.base))
    BY <2>3 DEF Stored, e, t
  <2>5. e.cand # s
    BY <1>3, ShasAssumption DEF IsDeletion
  <2>6. (t[s] # 0 /\ e.cand # s) \/ (UndoesDeletion(e) /\ e.base = s)
    BY <1>3, <2>2, <2>4, <2>5 DEF Stored, UndoesDeletion
  <2> QED
    BY <2>6 DEF e, t
<1>4. CASE e.action # "RESTORE" /\ ~IsDeletion(e)
  <2>1. e.cand \in Shas
    BY <1>1, <1>4 DEF IsDeletion, Contents
  <2>2. Stored(Drop(t, e.cand)) = Stored(t) \ {e.cand}
    BY <1>1, <2>1, DropStored
  <2>3. UndoneIndex(e, t) = Drop(t, e.cand)
    BY <1>4 DEF UndoneIndex, UndoesDeletion
  <2>4. s \in Stored(Drop(t, e.cand))
    BY <2>3 DEF Stored, e, t
  <2>5. t[s] # 0 /\ e.cand # s
    BY <2>2, <2>4 DEF Stored
  <2> QED
    BY <2>5 DEF e, t
<1> QED
  BY <1>2, <1>3, <1>4

LEMMA RowsStandStep ==
  TypeOK /\ QueueInv /\ HistoryInv /\ RowsStand /\ RowsRecorded /\ [Next]_vars => RowsStand'
<1> SUFFICES ASSUME TypeOK, QueueInv, HistoryInv, RowsStand, RowsRecorded, [Next]_vars,
                    NEW q \in Paths \ unsaved'
             PROVE  Traced(q, history, ToUndo)'
  BY DEF RowsStand
<1>0. /\ history \in Seq(Entry) /\ Len(history) \in Nat /\ last \in 0 .. Len(history)
      /\ ToUndo \in 0 .. Len(history)
  BY DEF TypeOK, ToUndo
<1>1. q \in Paths \ unsaved => Traced(q, history, ToUndo)
  BY DEF RowsStand
<1> USE DEF memory, disk, loops, tasks, ghosts
<1>2. CASE UNCHANGED <<rank, history, unsaved>> /\ ToUndo' = ToUndo
  BY <1>1, <1>2 DEF Traced
<1>3. CASE Crash
  <2>1. /\ q \notin unsaved /\ accepted[q] = saved.accepted[q]
        /\ history' = saved.history /\ rank' = rank /\ phase' = "idle"
    BY <1>3 DEF Crash
  <2>2. Recorded(q)
    BY <2>1 DEF RowsRecorded
  <2> QED
    BY <2>1, <2>2 DEF Recorded, Traced, ToUndo
<1>4. ASSUME NEW p \in Paths, Accept(p) \/ AutoIndex(p) PROVE Traced(q, history, ToUndo)'
  <2>1. PICK a \in {"INDEX", "AUTO_INDEX"} : AcceptLocked(p, a)
    BY <1>4 DEF Accept, AutoIndex
  <2> DEFINE e == EntryFor(p, a)
  <2>2. /\ item[p] # Nil /\ phase # "undo" /\ phase' # "undo" /\ unsaved' = unsaved
        /\ IndexEffect(p) /\ history' = Append(history, e)
    BY <1>4, <2>1 DEF Accept, AutoIndex, AcceptLocked
  <2>3. e \in Entry /\ e.path = p /\ e.cand = item[p].cand /\ e.action # "RESTORE"
    BY <2>2, EntryForTyped DEF EntryFor
  <2> HIDE DEF e
  <2>4. /\ \A s : Explained(history, Len(history), q, s) =>
                    Explained(history', Len(history) + 1, q, s)
        /\ Explained(history', Len(history) + 1, p, item[p].cand)
    BY <1>0, <2>2, <2>3, ExplainedAppend, ExplainedLast
  <2>5. /\ ToUndo = Len(history) /\ ToUndo' = Len(history) + 1
    BY <1>0, <2>2, <2>3, AppendedEntries DEF ToUndo
  <2>6. ASSUME NEW s \in Shas, rank'[q][s] # 0
        PROVE  Explained(history', Len(history) + 1, q, s)
    <3>1. rank[q][s] # 0 \/ (q = p /\ s = item[p].cand)
      BY <2>2, <2>6, AcceptedRows
    <3> QED
      BY <1>1, <2>2, <2>4, <2>5, <3>1 DEF Traced
  <2> QED
    BY <2>5, <2>6 DEF Traced
<1>5. ASSUME NEW p \in Paths, Reject(p) PROVE Traced(q, history, ToUndo)'
  <2> DEFINE e == EntryFor(p, "RESTORE")
  <2>1. /\ item[p] # Nil /\ phase = "idle" /\ phase' = "save" /\ unsaved' = unsaved
        /\ rank' = rank /\ history' = Append(history, e)
    BY <1>5 DEF Reject, Synchronise
  <2>2. e \in Entry
    BY <2>1, EntryForTyped
  <2> HIDE DEF e
  <2>3. \A s : Explained(history, Len(history), q, s) =>
                 Explained(history', Len(history) + 1, q, s)
    BY <1>0, <2>1, <2>2, ExplainedAppend
  <2>4. /\ ToUndo = Len(history) /\ ToUndo' = Len(history) + 1
    BY <1>0, <2>1, <2>2, AppendedEntries DEF ToUndo
  <2> QED
    BY <1>1, <2>1, <2>3, <2>4 DEF Traced
<1>6. CASE UndoEntry
  <2> DEFINE n == ToUndo
             e == history[n]
  <2>1. n \in DOMAIN history /\ n \in Nat /\ n > 0
    BY <1>0, <1>6 DEF UndoEntry
  <2>2. /\ rank' = [rank EXCEPT ![e.path] = UndoneIndex(e, rank[e.path])]
        /\ history' = history /\ unsaved' = unsaved /\ phase' = "undo" /\ last' = n - 1
    BY <1>6 DEF UndoEntry, IndexRestored
  <2>3. e.path \in Paths
    BY <2>1, EntryTyped
  <2>4. Traced(q, history, n)
    BY <1>1, <2>2
  <2>5. e.base # NoSha => Explained(history, n - 1, e.path, e.base)
    BY <2>1 DEF HistoryInv, Grounded
  <2>6. \A s \in Shas : UndoneIndex(e, rank[e.path])[s] # 0 =>
           \/ rank[e.path][s] # 0 /\ ~(e.action # "RESTORE" /\ e.cand = s)
           \/ UndoesDeletion(e) /\ e.base = s
    BY <2>1, UndoneRows
  <2>7. ToUndo' = n - 1
    BY <2>2 DEF ToUndo
  <2> HIDE DEF n, e
  <2>8. ASSUME NEW s \in Shas, rank'[q][s] # 0
        PROVE  Explained(history, n - 1, q, s)
    <3>1. CASE q = e.path
      <4>1. UndoneIndex(e, rank[e.path])[s] # 0
        BY <2>2, <2>3, <2>8, <3>1 DEF TypeOK
      <4>2. CASE rank[e.path][s] # 0 /\ ~(e.action # "RESTORE" /\ e.cand = s)
        BY <2>1, <2>4, <3>1, <4>2, ExplainedWithout DEF Traced, e
      <4>3. CASE UndoesDeletion(e) /\ e.base = s
        BY <2>5, <3>1, <4>3, ShasAssumption
      <4> QED
        BY <2>6, <4>1, <4>2, <4>3
    <3>2. CASE q # e.path
      <4>1. rank[q][s] # 0
        BY <2>2, <2>8, <3>2 DEF TypeOK
      <4> QED
        BY <2>1, <2>4, <3>2, <4>1, ExplainedWithout DEF Traced, e
    <3> QED
      BY <3>1, <3>2
  <2> QED
    BY <2>2, <2>7, <2>8 DEF Traced
<1>7. CASE RestoreDone
  <2>1. /\ history' = SubSeq(history, 1, last) /\ rank' = rank /\ unsaved' = unsaved
        /\ phase = "undo" /\ phase' = "save"
    BY <1>7 DEF RestoreDone, Synchronise
  <2>2. ToUndo = last /\ ToUndo' = last
    BY <1>0, <2>1 DEF ToUndo
  <2>3. \A s : Explained(history, last, q, s) => Explained(history', last, q, s)
    BY <1>0, <2>1, ExplainedPrefix
  <2> QED
    BY <1>1, <2>1, <2>2, <2>3 DEF Traced
<1>8. CASE UndoFails
  <2> DEFINE e == history[ToUndo]
  <2>1. ToUndo \in DOMAIN history
    BY <1>0, <1>8 DEF UndoFails
  <2>2. /\ history' = history /\ unsaved' = unsaved /\ phase' = "idle"
        /\ \/ rank' = rank
           \/ /\ ~IsDeletion(e)
              /\ rank' = [rank EXCEPT ![e.path] = UndoneIndex(e, rank[e.path])]
    BY <1>8 DEF UndoFails, IndexRestored
  <2>3. \A s \in Shas : UndoneIndex(e, rank[e.path])[s] # 0 =>
           rank[e.path][s] # 0 \/ UndoesDeletion(e)
    BY <2>1, UndoneRows
  <2>4. ToUndo' = Len(history)
    BY <2>2 DEF ToUndo
  <2> HIDE DEF e
  <2>5. ASSUME NEW s \in Shas, rank'[q][s] # 0 PROVE rank[q][s] # 0
    BY <2>2, <2>3, <2>5 DEF TypeOK, UndoesDeletion
  <2> QED
    BY <1>0, <1>1, <2>2, <2>4, <2>5, ExplainedMore DEF Traced
<1>9. \/ UNCHANGED <<rank, history, unsaved>> /\ ToUndo' = ToUndo
      \/ Crash \/ UndoEntry \/ RestoreDone \/ UndoFails
      \/ \E p \in Paths : Accept(p) \/ AutoIndex(p) \/ Reject(p)
  BY DEF Next, FileEdit, PollScan, EventsDone, SaveState, ApplyEvent, ApplyFails, Hold,
         AutoIndexFails, AssessStart, AssessDone, ToUndo, vars
<1> QED
  BY <1>2, <1>3, <1>4, <1>5, <1>6, <1>7, <1>8, <1>9

LEMMA RowsRecordedStep ==
  /\ TypeOK /\ QueueInv /\ HistoryInv /\ RowsStand /\ RowsRecorded /\ [Next]_vars
  /\ TypeOK' /\ HistoryInv' /\ RowsStand'
  => RowsRecorded'
<1> SUFFICES ASSUME TypeOK, QueueInv, HistoryInv, RowsStand, RowsRecorded, [Next]_vars,
                    TypeOK', HistoryInv', RowsStand'
             PROVE  RowsRecorded'
  OBVIOUS
<1> USE DEF memory, disk, loops, tasks, ghosts
<1>1. CASE phase' \in {"idle", "events", "undo"}
  BY <1>1, AllRecordedAfter DEF RowsRecorded
<1>2. CASE phase \in {"idle", "events", "undo"} /\ UNCHANGED <<rank, saved, unsaved>>
  BY <1>2, AllRecorded DEF RowsRecorded, Recorded, Traced
<1>3. CASE UNCHANGED <<accepted, rank, saved, unsaved, phase>>
           /\ \A p \in Paths : item'[p] # Nil => item[p] # Nil
  BY <1>3 DEF RowsRecorded, Recorded, Traced
<1>4. ASSUME NEW p \in Paths, Accept(p) \/ AutoIndex(p) PROVE RowsRecorded'
  <2>1. PICK a \in {"INDEX", "AUTO_INDEX"} : AcceptLocked(p, a)
    BY <1>4 DEF Accept, AutoIndex
  <2>2. /\ item[p] # Nil /\ IndexEffect(p) /\ saved' = saved /\ unsaved' = unsaved
        /\ accepted' = [accepted EXCEPT ![p] = item[p].cand]
        /\ item' = [item EXCEPT ![p] = Nil]
        /\ (phase = "due" /\ phase' = "due") \/ (phase = "idle" /\ phase' = "save")
    BY <1>4, <2>1 DEF Accept, AutoIndex, AcceptLocked
  <2>3. /\ accepted'[p] = item[p].cand /\ item'[p] = Nil
        /\ \A q \in Paths : q # p => accepted'[q] = accepted[q] /\ item'[q] = item[q]
    BY <2>2 DEF TypeOK
  <2>4. \A s \in Shas : rank'[p][s] # 0 => rank[p][s] # 0 \/ s = item[p].cand
    BY <2>2, AcceptedRows
  <2>5. \A q \in Paths : q # p => rank'[q] = rank[q]
    BY <2>2, AcceptedRows
  <2>6. p \notin unsaved => Recorded(p)
    BY <2>2, AllRecorded DEF RowsRecorded
  <2>7. ASSUME p \notin unsaved, item[p].cand = saved.accepted[p]
        PROVE  Recorded(p)'
    <3>1. item[p].cand # NoSha =>
            Explained(saved.history, Len(saved.history), p, item[p].cand)
      BY <2>7 DEF HistoryInv, Grounded
    <3> QED
      BY <2>2, <2>4, <2>6, <2>7, <3>1, ShasAssumption DEF Recorded, Traced
  <2>8. ASSUME NEW q \in Paths \ unsaved', q # p,
               \/ accepted'[q] = saved'.accepted[q]
               \/ phase' = "due" /\ item'[q] # Nil
        PROVE  Recorded(q)'
    <3>1. Recorded(q)
      BY <2>2, <2>3, <2>8, AllRecorded DEF RowsRecorded
    <3> QED
      BY <2>2, <2>5, <2>8, <3>1 DEF Recorded, Traced
  <2> QED
    BY <2>2, <2>3, <2>7, <2>8 DEF RowsRecorded
<1>5. ASSUME NEW p \in Paths, AutoIndexFails(p)
      PROVE  UNCHANGED <<accepted, rank, saved, unsaved, phase>>
             /\ \A q \in Paths : item'[q] # Nil => item[q] # Nil
  BY <1>5 DEF AutoIndexFails, TypeOK
<1>6. \/ phase' \in {"idle", "events", "undo"}
      \/ phase \in {"idle", "events", "undo"} /\ UNCHANGED <<rank, saved, unsaved>>
      \/ UNCHANGED <<accepted, rank, saved, unsaved, phase, item>>
      \/ \E p \in Paths : Accept(p) \/ AutoIndex(p) \/ AutoIndexFails(p)
  BY DEF Next, FileEdit, PollScan, EventsDone, SaveState, Crash, ApplyEvent, ApplyFails,
     Reject, Hold, AssessStart, AssessDone, UndoEntry, RestoreDone, UndoFails,
     Synchronise, TypeOK, vars
<1> QED
  BY <1>1, <1>2, <1>3, <1>4, <1>5, <1>6

LEMMA InitTraced == Init => HistoryInv /\ RowsStand /\ RowsRecorded
<1> SUFFICES ASSUME Init PROVE HistoryInv /\ RowsStand /\ RowsRecorded
  OBVIOUS
<1>1. /\ saved.accepted = accepted /\ saved.history = history
      /\ history = <<>> /\ DOMAIN history = {} /\ phase = "idle"
      /\ \A p \in Paths : accepted[p] = NoSha
      /\ \A p \in Paths, s \in Shas : rank[p][s] = 0
  BY DEF Init, Saved, NoVersions
<1>2. HistoryInv
  BY <1>1 DEF HistoryInv, Grounded
<1>3. RowsStand /\ RowsRecorded
  BY <1>1 DEF RowsStand, RowsRecorded, Recorded, Traced
<1> QED
  BY <1>2, <1>3

LEMMA RowsInvariant ==
  Spec => [](TypeOK /\ QueueInv /\ HistoryInv /\ RowsStand /\ RowsRecorded)
BY InitSound, InitTraced, TypeStep, QueueStep, HistoryStep, RowsStandStep,
   RowsRecordedStep, PTL DEF Spec

\* Every version in the index was put there by a review the history still
\* holds, so that it can be undone, except for paths with an acceptance a crash
\* made the queue forget.
THEOREM IndexExplained == Spec => []HistoryExplainsIndex
<1>1. TypeOK /\ RowsStand => HistoryExplainsIndex
  <2> SUFFICES ASSUME TypeOK, RowsStand, NEW p \in Paths \ unsaved, NEW s \in Shas,
                      rank[p][s] # 0
               PROVE  \E i \in DOMAIN history : /\ history[i].path = p
                                               /\ history[i].cand = s
                                               /\ history[i].action # "RESTORE"
    BY DEF HistoryExplainsIndex
  <2>1. Explained(history, ToUndo, p, s)
    BY DEF RowsStand, Traced
  <2>2. 1 .. ToUndo \subseteq DOMAIN history
    BY DEF ToUndo, TypeOK
  <2> QED
    BY <2>1, <2>2 DEF Explained
<1> QED
  BY <1>1, RowsInvariant, PTL
-----------------------------------------------------------------------------
(* The accepted content is the current version *)

RanksInv == \A p \in Paths : Ranked(rank[p])

\* An accepted change is put on top, an accepted deletion drops a version.
LEMMA AcceptedTop ==
  ASSUME TypeOK, QueueInv, RanksInv, NEW p \in Paths, item[p] # Nil, IndexEffect(p)
  PROVE  /\ Ranked(rank'[p])
         /\ ~IsDeletion(item[p]) => IsCurrent(rank'[p], item[p].cand)
<1>1. rank[p] \in Tables /\ Ranked(rank[p])
  BY RowsAreTables DEF RanksInv
<1>2. CASE IsDeletion(item[p])
  <2>1. PICK c \in Contents :
          rank' = [rank EXCEPT ![p] = IF c = NoSha THEN @ ELSE Drop(@, c)]
    BY <1>2 DEF IndexEffect, CurrentRemoved
  <2>2. c # NoSha => Ranked(Drop(rank[p], c))
    BY <1>1, DropRanked DEF Contents
  <2> QED
    BY <1>1, <1>2, <2>1, <2>2 DEF TypeOK
<1>3. CASE ~IsDeletion(item[p])
  <2>1. rank' = [rank EXCEPT ![p] = Put(@, snap[item[p].cand])]
    BY <1>3 DEF IndexEffect
  <2>2. snap[item[p].cand] = item[p].cand /\ item[p].cand \in Shas
    BY <1>3 DEF IsDeletion, QueueInv, Sound, Good
  <2>3. rank'[p] = Put(rank[p], item[p].cand)
    BY <2>1, <2>2 DEF TypeOK
  <2> QED
    BY <1>1, <2>2, <2>3, PutOnTop
<1> QED
  BY <1>2, <1>3

LEMMA UndoneRanked ==
  ASSUME TypeOK, QueueInv, RanksInv, NEW i \in DOMAIN history
  PROVE  Ranked(UndoneIndex(history[i], rank[history[i].path]))
<1> DEFINE e == history[i]
           t == rank[e.path]
<1>1. /\ t \in Tables /\ Ranked(t) /\ e.base \in Contents /\ e.cand \in Contents
      /\ Good(snap, e.base) /\ e.cand # e.base
  BY EntryTyped, RowsAreTables DEF QueueInv, Sound, RanksInv
<1> HIDE DEF e, t
<1>2. CASE e.action = "RESTORE"
  BY <1>1, <1>2 DEF UndoneIndex, e, t
<1>3. CASE e.action # "RESTORE" /\ IsDeletion(e)
  <2>1. snap[e.base] \in Shas
    BY <1>1, <1>3 DEF IsDeletion, Good
  <2>2. UndoneIndex(e, t) = Put(t, snap[e.base])
    BY <1>3 DEF UndoneIndex, UndoesDeletion
  <2>3. Ranked(UndoneIndex(e, t))
    BY <1>1, <2>1, <2>2, PutOnTop
  <2> QED
    BY <2>3 DEF e, t
<1>4. CASE e.action # "RESTORE" /\ ~IsDeletion(e)
  <2>1. e.cand \in Shas
    BY <1>1, <1>4 DEF IsDeletion, Contents
  <2>2. UndoneIndex(e, t) = Drop(t, e.cand)
    BY <1>4 DEF UndoneIndex, UndoesDeletion
  <2>3. Ranked(UndoneIndex(e, t))
    BY <1>1, <2>1, <2>2, DropRanked
  <2> QED
    BY <2>3 DEF e, t
<1> QED
  BY <1>2, <1>3, <1>4

LEMMA CurrentStep ==
  TypeOK /\ QueueInv /\ RanksInv /\ AcceptedIsCurrent /\ [Next]_vars =>
    RanksInv' /\ AcceptedIsCurrent'
<1> SUFFICES ASSUME TypeOK, QueueInv, RanksInv, AcceptedIsCurrent, [Next]_vars
             PROVE  RanksInv' /\ AcceptedIsCurrent'
  OBVIOUS
<1> USE DEF memory, disk, loops, tasks, ghosts
<1>1. CASE UNCHANGED <<rank, accepted, unsaved, reverted>>
  BY <1>1 DEF RanksInv, AcceptedIsCurrent
<1>2. CASE Crash
  BY <1>2 DEF Crash, RanksInv, AcceptedIsCurrent
<1>3. ASSUME NEW p \in Paths, Accept(p) \/ AutoIndex(p)
      PROVE  RanksInv' /\ AcceptedIsCurrent'
  <2>1. PICK a \in {"INDEX", "AUTO_INDEX"} : AcceptLocked(p, a)
    BY <1>3 DEF Accept, AutoIndex
  <2>2. /\ item[p] # Nil /\ IndexEffect(p) /\ unsaved' = unsaved
        /\ accepted' = [accepted EXCEPT ![p] = item[p].cand]
        /\ reverted' = IF IsDeletion(item[p]) THEN reverted \cup {p} ELSE reverted
    BY <1>3, <2>1 DEF Accept, AutoIndex, AcceptLocked
  <2>3. /\ Ranked(rank'[p])
        /\ ~IsDeletion(item[p]) => IsCurrent(rank'[p], item[p].cand)
        /\ \A q \in Paths : q # p => rank'[q] = rank[q]
    BY <2>2, AcceptedTop, AcceptedRows
  <2>4. /\ accepted'[p] = item[p].cand
        /\ \A q \in Paths : q # p => accepted'[q] = accepted[q]
    BY <2>2 DEF TypeOK
  <2>5. RanksInv'
    BY <2>3 DEF RanksInv
  <2>6. ASSUME NEW q \in Paths \ (unsaved' \cup reverted')
        PROVE  IsCurrent(rank'[q], accepted'[q])
    <3>1. q \in Paths \ (unsaved \cup reverted) /\ (q = p => ~IsDeletion(item[p]))
      BY <2>2, <2>6
    <3>2. IsCurrent(rank[q], accepted[q])
      BY <3>1 DEF AcceptedIsCurrent
    <3>3. CASE q = p
      BY <2>3, <2>4, <3>1, <3>3
    <3>4. CASE q # p
      <4>1. rank'[q] = rank[q] /\ accepted'[q] = accepted[q]
        BY <2>3, <2>4, <3>4
      <4> QED
        BY <3>2, <4>1
    <3> QED
      BY <3>3, <3>4
  <2> QED
    BY <2>5, <2>6 DEF AcceptedIsCurrent
<1>4. CASE UndoEntry \/ UndoFails
  <2> DEFINE e == history[ToUndo]
  <2>1. ToUndo \in DOMAIN history
    BY <1>4 DEF UndoEntry, UndoFails, ToUndo, TypeOK
  <2>2. e.path \in Paths
    BY <2>1, EntryTyped
  <2>3. Ranked(UndoneIndex(e, rank[e.path]))
    BY <2>1, UndoneRanked
  <2>4. /\ unsaved' = unsaved /\ reverted \subseteq reverted'
        /\ \/ UNCHANGED <<rank, accepted>>
           \/ /\ e.path \in reverted'
              /\ accepted' \in {accepted, [accepted EXCEPT ![e.path] = e.before]}
              /\ rank' = [rank EXCEPT ![e.path] = UndoneIndex(e, rank[e.path])]
    BY <1>4 DEF UndoEntry, UndoFails, IndexRestored, UndoneAccepted
  <2> HIDE DEF e
  <2>5. \A q \in Paths : q \notin reverted' \/ q # e.path =>
          rank'[q] = rank[q] /\ accepted'[q] = accepted[q]
    BY <2>2, <2>4 DEF TypeOK
  <2>6. rank'[e.path] = rank[e.path] \/ rank'[e.path] = UndoneIndex(e, rank[e.path])
    BY <2>2, <2>4 DEF TypeOK
  <2>7. RanksInv'
    BY <2>2, <2>3, <2>5, <2>6 DEF RanksInv
  <2>8. ASSUME NEW q \in Paths \ (unsaved' \cup reverted')
        PROVE  IsCurrent(rank'[q], accepted'[q])
    <3>1. rank'[q] = rank[q] /\ accepted'[q] = accepted[q]
      BY <2>5, <2>8
    <3>2. IsCurrent(rank[q], accepted[q])
      BY <2>4, <2>8 DEF AcceptedIsCurrent
    <3> QED
      BY <3>1, <3>2
  <2> QED
    BY <2>7, <2>8 DEF AcceptedIsCurrent
<1> QED
  BY <1>1, <1>2, <1>3, <1>4
     DEF Next, FileEdit, PollScan, EventsDone, SaveState, ApplyEvent, ApplyFails,
         Reject, Hold, AutoIndexFails, AssessStart, AssessDone, RestoreDone, vars

LEMMA InitCurrent == Init => RanksInv /\ AcceptedIsCurrent
<1>1. Stored(NoVersions) = {}
  BY DEF Stored, NoVersions
<1> QED
  BY <1>1 DEF Init, RanksInv, Ranked, AcceptedIsCurrent, IsCurrent

\* The accepted content is the current version in the index, unless a crash
\* made the queue forget an acceptance, or a deletion was accepted or a review
\* undone.
THEOREM AcceptedOnTop == Spec => []AcceptedIsCurrent
<1>1. Spec => [](RanksInv /\ AcceptedIsCurrent)
  BY QueueInvariant, InitCurrent, CurrentStep, PTL DEF Spec
<1> QED
  BY <1>1, PTL
-----------------------------------------------------------------------------
(* The queue shows what was scanned last *)

Alike(a, b) == a = b \/ SameText(a, b)

\* Events wait only within a poll, and an undone review is queued again.
LoopInv ==
  /\ pending # {} => phase = "events"
  /\ \A p \in UndonePaths : item[p] # Nil

\* Besides the missed paths, those still to be handled by the lock holder may
\* be shown with an older content.
ShownInv ==
  \A p \in Paths \ (missed \cup pending \cup UndonePaths) : Alike(Shown(p), cursor[p])

\* A path is shown alike as long as its item and its accepted content stay.
LEMMA ShownKept ==
  ASSUME NEW p \in Paths, Alike(Shown(p), cursor[p]), cursor'[p] = cursor[p],
         \/ item'[p] = item[p] /\ accepted'[p] = accepted[p]
         \/ item[p] # Nil /\ item'[p] # Nil /\ item'[p].cand = item[p].cand
         \/ item[p] # Nil /\ item'[p] = Nil /\ accepted'[p] = item[p].cand
  PROVE  Alike(Shown(p), cursor[p])'
BY DEF Alike, Shown, SameText

\* Outside of a restoration no path is undone.
LEMMA NoneUndone == phase # "undo" => UndonePaths = {}
BY DEF UndonePaths

\* The step of a restoration adds the path of its review.
LEMMA UndoneGrows ==
  ASSUME TypeOK, phase \in {"idle", "undo"}, ToUndo > 0, history' = history,
         phase' = "undo", last' = ToUndo - 1
  PROVE  UndonePaths' = UndonePaths \cup {history[ToUndo].path}
<1>1. /\ ToUndo \in Nat /\ Len(history) \in Nat /\ ToUndo <= Len(history)
      /\ phase = "idle" => ToUndo = Len(history)
      /\ phase = "undo" => ToUndo = last
  BY DEF TypeOK, ToUndo
<1>2. ToUndo .. Len(history) = {ToUndo} \cup (ToUndo + 1 .. Len(history))
  BY <1>1
<1>3. UndonePaths' = {history[i].path : i \in ToUndo .. Len(history)}
  BY <1>1 DEF UndonePaths
<1>4. UndonePaths = {history[i].path : i \in ToUndo + 1 .. Len(history)}
  BY <1>1 DEF UndonePaths
<1> QED
  BY <1>2, <1>3, <1>4

LEMMA ShownStep ==
  TypeOK /\ QueueInv /\ LoopInv /\ ShownInv /\ [Next]_vars => LoopInv' /\ ShownInv'
<1> SUFFICES ASSUME TypeOK, QueueInv, LoopInv, ShownInv, [Next]_vars
             PROVE  LoopInv' /\ ShownInv'
  OBVIOUS
<1> USE DEF memory, disk, loops, tasks, ghosts
<1>0. phase' # "undo" => UndonePaths' = {}
  BY DEF UndonePaths
<1>1. CASE UNCHANGED <<memory, cursor, loops, phase, missed>>
  BY <1>1 DEF LoopInv, ShownInv, UndonePaths, Shown, Alike, SameText
<1>2. CASE PollScan
  <2>1. \A p \in Paths \ pending' : cursor'[p] = cursor[p]
    BY <1>2 DEF PollScan, TypeOK
  <2>2. phase = "idle" /\ pending = {} /\ phase' = "events" /\ UNCHANGED <<memory, missed>>
    BY <1>2 DEF PollScan, LoopInv
  <2> QED
    BY <1>0, <2>1, <2>2, NoneUndone, ShownKept DEF LoopInv, ShownInv
<1>3. ASSUME NEW p \in Paths, ApplyEvent(p) PROVE LoopInv' /\ ShownInv'
  <2>1. /\ phase = "events" /\ phase' = "events" /\ UNCHANGED <<cursor, accepted>>
        /\ pending' = pending \ {p} /\ missed' = missed \ {p}
        /\ \A q \in Paths : q # p => item'[q] = item[q]
    BY <1>3 DEF ApplyEvent, TypeOK
  <2>2. Alike(Shown(p), cursor[p])'
    <3>1. CASE NoChange(p)
      BY <1>3, <3>1 DEF ApplyEvent, NoChange, Alike, Shown, SameText, TypeOK
    <3>2. CASE ~NoChange(p)
      <4>1. item'[p] = [base |-> accepted[p], cand |-> cursor[p], decision |-> "PENDING"]
        BY <1>3, <3>2 DEF ApplyEvent, TypeOK
      <4>2. item'[p] \in Item
        BY <4>1 DEF Item, TypeOK
      <4> QED
        BY <2>1, <4>1, <4>2, NilAssumption DEF Alike, Shown
    <3> QED
      BY <3>1, <3>2
  <2> QED
    BY <1>0, <2>1, <2>2, NoneUndone, ShownKept DEF LoopInv, ShownInv
<1>4. ASSUME NEW p \in Paths, ApplyFails(p) PROVE LoopInv' /\ ShownInv'
  <2>1. /\ phase = "events" /\ phase' = "idle" /\ UNCHANGED <<memory, cursor>>
        /\ missed' = missed \cup pending /\ pending' = {}
    BY <1>4 DEF ApplyFails
  <2> QED
    BY <1>0, <2>1, NoneUndone, ShownKept DEF LoopInv, ShownInv
<1>5. CASE EventsDone
  <2>1. /\ phase = "events" /\ pending = {} /\ phase' = "due" /\ pending' = {}
        /\ UNCHANGED <<accepted, cursor, missed>>
        /\ \A p \in Paths :
             item'[p] = IF item[p] # Nil /\ SameText(item[p].base, item[p].cand)
                        THEN Nil ELSE item[p]
    BY <1>5 DEF EventsDone
  <2>2. ASSUME NEW p \in Paths, Alike(Shown(p), cursor[p]) PROVE Alike(Shown(p), cursor[p])'
    BY <2>1, <2>2 DEF Alike, Shown, SameText, QueueInv, Sound
  <2> QED
    BY <1>0, <2>1, <2>2, NoneUndone DEF LoopInv, ShownInv
<1>6. CASE SaveState
  BY <1>0, <1>6, NoneUndone, ShownKept DEF SaveState, LoopInv, ShownInv
<1>7. ASSUME NEW p \in Paths, Accept(p) \/ AutoIndex(p) PROVE LoopInv' /\ ShownInv'
  <2>1. /\ item[p] # Nil /\ accepted' = [accepted EXCEPT ![p] = item[p].cand]
        /\ item' = [item EXCEPT ![p] = Nil]
        /\ phase \notin {"events", "undo"} /\ phase' # "undo"
        /\ UNCHANGED <<cursor, pending, missed>>
    BY <1>7 DEF Accept, AutoIndex, AcceptLocked
  <2>2. /\ accepted'[p] = item[p].cand /\ item'[p] = Nil
        /\ \A q \in Paths : q # p => accepted'[q] = accepted[q] /\ item'[q] = item[q]
    BY <2>1 DEF TypeOK
  <2>3. ASSUME NEW q \in Paths, Alike(Shown(q), cursor[q]) PROVE Alike(Shown(q), cursor[q])'
    BY <2>1, <2>2, <2>3, ShownKept
  <2> QED
    BY <1>0, <2>1, <2>3, NoneUndone DEF LoopInv, ShownInv
<1>8. ASSUME NEW p \in Paths, Hold(p) \/ AutoIndexFails(p) PROVE LoopInv' /\ ShownInv'
  <2>1. /\ item[p] # Nil
        /\ item' = [item EXCEPT ![p] = [item[p] EXCEPT !.decision = "REVIEW"]]
        /\ phase \notin {"events", "undo"} /\ phase' # "undo"
        /\ UNCHANGED <<accepted, cursor, pending, missed>>
    BY <1>8 DEF Hold, AutoIndexFails
  <2>2. [item[p] EXCEPT !.decision = "REVIEW"] \in Item
        /\ [item[p] EXCEPT !.decision = "REVIEW"].cand = item[p].cand
    BY <2>1, ItemTyped DEF Item
  <2>3. /\ item'[p] # Nil /\ item'[p].cand = item[p].cand
        /\ \A q \in Paths : q # p => item'[q] = item[q]
    BY <2>1, <2>2, NilAssumption DEF TypeOK
  <2>4. ASSUME NEW q \in Paths, Alike(Shown(q), cursor[q]) PROVE Alike(Shown(q), cursor[q])'
    BY <2>1, <2>3, <2>4, ShownKept
  <2> QED
    BY <1>0, <2>1, <2>4, NoneUndone DEF LoopInv, ShownInv
<1>9. ASSUME NEW w \in Workers, NEW d \in {"REVIEW", "AUTO"}, AssessDone(w, d)
      PROVE  LoopInv' /\ ShownInv'
  <2> DEFINE t == worker[w]
             stale == item[t.path] = Nil \/ item[t.path].cand # t.cand
  <2>1. /\ t.path \in Paths /\ phase = "idle" /\ phase' \in {"idle", "save"}
        /\ UNCHANGED <<accepted, cursor, pending, missed>>
    BY <1>9 DEF AssessDone, TypeOK, Task
  <2>2. \A q \in Paths : \/ item'[q] = item[q]
                         \/ item[q] # Nil /\ item'[q] # Nil /\ item'[q].cand = item[q].cand
    <3>1. CASE stale
      BY <1>9, <3>1 DEF AssessDone
    <3>2. CASE ~stale
      <4>1. PICK v \in {"REVIEW", "AUTO"} :
              item' = [item EXCEPT ![t.path] = [item[t.path] EXCEPT !.decision = v]]
        BY <1>9, <3>2 DEF AssessDone
      <4>2. /\ [item[t.path] EXCEPT !.decision = v] \in Item
            /\ [item[t.path] EXCEPT !.decision = v].cand = item[t.path].cand
        BY <2>1, <3>2, ItemTyped DEF Item
      <4> QED
        BY <2>1, <3>2, <4>1, <4>2, NilAssumption DEF TypeOK
    <3> QED
      BY <3>1, <3>2
  <2>3. ASSUME NEW q \in Paths, Alike(Shown(q), cursor[q]) PROVE Alike(Shown(q), cursor[q])'
    BY <2>1, <2>2, <2>3, ShownKept
  <2> QED
    BY <1>0, <2>1, <2>3, NoneUndone DEF LoopInv, ShownInv
<1>10. ASSUME NEW p \in Paths, Reject(p) PROVE LoopInv' /\ ShownInv'
  <2>1. /\ phase = "idle" /\ phase' = "save" /\ item[p] # Nil
        /\ file' = [file EXCEPT ![p] = Baseline(p)] /\ cursor' = file'
        /\ item' = [item EXCEPT ![p] = Nil]
        /\ missed' = (missed \cup Swallowed({p})) \ {p}
        /\ UNCHANGED <<accepted, pending>>
    BY <1>10 DEF Reject, Synchronise
  <2>2. cursor'[p] = Baseline(p) /\ item'[p] = Nil
    BY <2>1 DEF TypeOK
  <2>3. item[p].base = accepted[p] /\ Good(snap, item[p].base)
    BY <2>1 DEF QueueInv, Sound
  <2>4. Baseline(p) = accepted[p]
    BY <2>3, ShasAssumption DEF Baseline, IsAddition, Bytes, Good
  <2>5. ASSUME NEW q \in Paths \ missed', q # p
        PROVE  q \notin missed /\ cursor'[q] = cursor[q] /\ item'[q] = item[q]
    BY <2>1, <2>5 DEF Swallowed, TypeOK
  <2>6. Alike(Shown(p), cursor[p])'
    BY <2>1, <2>2, <2>4 DEF Alike, Shown
  <2>7. ASSUME NEW q \in Paths \ missed', q # p PROVE Alike(Shown(q), cursor[q])'
    <3>1. Alike(Shown(q), cursor[q])
      BY <2>1, <2>5, <2>7, NoneUndone DEF LoopInv, ShownInv
    <3> QED
      BY <2>1, <2>5, <2>7, <3>1, ShownKept
  <2> QED
    BY <1>0, <2>1, <2>6, <2>7 DEF LoopInv, ShownInv
<1>11. CASE UndoEntry
  <2> DEFINE e == history[ToUndo]
  <2>1. /\ phase \in {"idle", "undo"} /\ ToUndo > 0 /\ history' = history
        /\ phase' = "undo" /\ last' = ToUndo - 1
        /\ accepted' = [accepted EXCEPT ![e.path] = e.before]
        /\ item' = [item EXCEPT ![e.path] =
                      [base |-> e.base, cand |-> e.cand, decision |-> "REVIEW"]]
        /\ UNCHANGED <<cursor, pending, missed>>
    BY <1>11 DEF UndoEntry, UndoneAccepted
  <2>2. UndonePaths' = UndonePaths \cup {e.path}
    BY <2>1, UndoneGrows
  <2>3. ToUndo \in DOMAIN history
    BY <2>1 DEF ToUndo, TypeOK
  <2>4. e.path \in Paths /\ [base |-> e.base, cand |-> e.cand, decision |-> "REVIEW"] \in Item
    BY <2>3, EntryTyped, UndoTyped
  <2> HIDE DEF e
  <2>5. /\ item'[e.path] # Nil
        /\ \A q \in Paths : q # e.path => accepted'[q] = accepted[q] /\ item'[q] = item[q]
    BY <2>1, <2>4, NilAssumption DEF TypeOK
  <2>6. UndonePaths \subseteq Paths
    BY EntryTyped DEF UndonePaths, TypeOK
  <2>7. LoopInv'
    BY <2>1, <2>2, <2>5, <2>6 DEF LoopInv
  <2>8. ASSUME NEW q \in Paths \ (missed' \cup pending' \cup UndonePaths')
        PROVE  Alike(Shown(q), cursor[q])'
    <3>1. q # e.path /\ Alike(Shown(q), cursor[q])
      BY <2>1, <2>2, <2>8 DEF ShownInv
    <3> QED
      BY <2>1, <2>5, <2>8, <3>1, ShownKept
  <2> QED
    BY <2>7, <2>8 DEF ShownInv
<1>12. CASE RestoreDone
  <2>1. /\ phase = "undo" /\ phase' = "save" /\ cursor' = file
        /\ missed' = ((missed \cup Swallowed(UndonePaths)) \ UndonePaths) \cup
                       {p \in UndonePaths : file[p] # item[p].cand}
        /\ UNCHANGED <<accepted, item, pending>>
    BY <1>12 DEF RestoreDone, Synchronise
  <2>2. pending = {} /\ \A p \in UndonePaths : item[p] # Nil
    BY <2>1 DEF LoopInv
  <2>3. ASSUME NEW q \in Paths \ missed' PROVE Alike(Shown(q), cursor[q])'
    <3>1. CASE q \in UndonePaths
      BY <2>1, <2>2, <2>3, <3>1 DEF Alike, Shown
    <3>2. CASE q \notin UndonePaths
      <4>1. q \notin missed /\ cursor'[q] = cursor[q]
        BY <2>1, <2>3, <3>2 DEF Swallowed
      <4>2. Alike(Shown(q), cursor[q])
        BY <2>2, <3>2, <4>1 DEF ShownInv
      <4> QED
        BY <2>1, <4>1, <4>2, ShownKept
    <3> QED
      BY <3>1, <3>2
  <2> QED
    BY <1>0, <2>1, <2>2, <2>3 DEF LoopInv, ShownInv
<1>13. CASE UndoFails
  <2>1. /\ phase \in {"idle", "undo"} /\ phase' = "idle" /\ missed' = missed \cup UndonePaths
        /\ UNCHANGED <<accepted, item, cursor, pending>>
    BY <1>13 DEF UndoFails
  <2> QED
    BY <1>0, <2>1, ShownKept DEF LoopInv, ShownInv
<1>14. CASE Crash
  <2>1. /\ phase' = "idle" /\ pending' = {} /\ cursor' = cursor
        /\ accepted' = saved.accepted /\ item' = saved.item
        /\ missed' = missed \cup pending \cup UndonePaths \cup
                       {p \in Paths : \/ accepted[p] # saved.accepted[p]
                                      \/ item[p] # saved.item[p]}
    BY <1>14 DEF Crash
  <2>2. \A q \in Paths \ missed' : item'[q] = item[q] /\ accepted'[q] = accepted[q]
    BY <2>1
  <2> QED
    BY <1>0, <2>1, <2>2, ShownKept DEF LoopInv, ShownInv
<1> QED
  BY <1>1, <1>2, <1>3, <1>4, <1>5, <1>6, <1>7, <1>8, <1>9, <1>10, <1>11, <1>12,
     <1>13, <1>14 DEF Next, FileEdit, AssessStart, vars

LEMMA InitShown == Init => LoopInv /\ ShownInv
BY DEF Init, LoopInv, ShownInv, UndonePaths, Alike, Shown

\* Whenever the lock is free, the queue shows the content scanned last, but for
\* the paths whose event was lost: by a poll that raised, a crash, or a
\* restoration.
THEOREM ScanShown == Spec => []QueueShowsScan
<1>1. Spec => [](LoopInv /\ ShownInv)
  BY QueueInvariant, InitShown, ShownStep, PTL DEF Spec
<1>2. LoopInv /\ ShownInv => QueueShowsScan
  BY NoneUndone DEF LoopInv, ShownInv, QueueShowsScan, Alike
<1> QED
  BY <1>1, <1>2, PTL
=============================================================================
