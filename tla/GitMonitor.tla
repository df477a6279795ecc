------------------------------ MODULE GitMonitor ----------------------------
(***************************************************************************)
(* GitDiffMonitor.poll over a repository that people work in. A capture is  *)
(* a series of git commands, and the repository may change between any two *)
(* of them, or a command may fail. What a patch shows is cut at a limit;    *)
(* the digest that decides whether there is an event is not. One tracked   *)
(* file and one untracked: the files of a list are named, not read.         *)
(***************************************************************************)
EXTENDS Integers, Sequences

CONSTANTS Heads,      \* commits
          Branches,   \* names of branches
          NoValue,    \* no commit yet, a detached head, a command without answer
          Patches,    \* differences of the tracked file
          NoPatch,    \* none
          Shown(_),   \* a patch cut at max_patch_bytes
          MaxChanges  \* bound on the changes of the repository

ASSUME GitAssumption == Heads # {} /\ NoPatch \in Patches /\ MaxChanges \in Nat

VARIABLES repo,        \* the repository now
          reads,       \* what the commands of the running capture returned
          previous,    \* _previous: the last capture
          told,        \* the capture in the last event handed out
          emitInitial, \* option of the monitor
          undisturbed, \* history: no change since the last capture began
          silent,      \* history: the commands of that capture that failed and did not end it
          changes      \* how often the repository changed

gitVars == <<repo, reads, previous, told, emitInitial, undisturbed, silent, changes>>

\* A branch without a commit yet, or a commit that is on no branch.
Repositories ==
  {r \in [commit : Heads \cup {NoValue}, branch : Branches \cup {NoValue},
          unstaged : Patches, staged : Patches, untracked : BOOLEAN] :
     r.commit # NoValue \/ r.branch # NoValue}

None == <<>>

\* The commands of capture_git_diff in their order, and what each reads.
Commands == <<"root", "commit", "branch", "unstaged", "staged",
              "unstagedFiles", "stagedFiles", "untracked">>

\* _optional_git_text: a non-zero exit is no value instead of an error.
Optional == {"commit", "branch"}

Answer(command) ==
  CASE command = "root" -> TRUE
    [] command = "commit" -> repo.commit
    [] command = "branch" -> repo.branch
    [] command = "unstaged" -> repo.unstaged
    [] command = "staged" -> repo.staged
    [] command = "unstagedFiles" -> repo.unstaged # NoPatch
    [] command = "stagedFiles" -> repo.staged # NoPatch
    [] command = "untracked" -> repo.untracked

\* GitDiffSnapshot: the fields of a capture.
Commit(c) == c[2]
Branch(c) == c[3]
UnstagedPatch(c) == c[4]
StagedPatch(c) == c[5]

\* The lists of names one after the other, staged, unstaged and untracked:
\* where one ends and the next begins is not part of the digest.
Names(c) == (IF c[7] THEN <<"tracked">> ELSE <<>>)
            \o (IF c[6] THEN <<"tracked">> ELSE <<>>)
            \o (IF c[8] THEN <<"new">> ELSE <<>>)

\* Mutant: the patches are compared as they are shown.
Digest_AsShown(c) ==
  <<Commit(c), Branch(c), Names(c), Shown(StagedPatch(c)), Shown(UnstagedPatch(c))>>

\* _snapshot_digest: commit, branch, names, and the patches in full.
Digest(c) == <<Commit(c), Branch(c), Names(c), StagedPatch(c), UnstagedPatch(c)>>

\* changed_files is not empty.
Dirty(c) == c[6] \/ c[7] \/ c[8]

\* _event_type
EventType(before, now) ==
  IF before = None
  THEN IF Dirty(now) THEN "DIRTY" ELSE IF emitInitial THEN "SNAPSHOT" ELSE "NONE"
  ELSE IF Digest(before) = Digest(now) THEN "NONE"
  ELSE IF Dirty(before) # Dirty(now)
  THEN IF Dirty(now) THEN "DIRTY" ELSE "CLEAN"
  ELSE IF Dirty(now) THEN "DIFF_CHANGED" ELSE "HEAD_CHANGED"

GitInit ==
  /\ repo \in Repositories
  /\ reads = None /\ previous = None /\ told = None
  /\ emitInitial \in BOOLEAN
  /\ undisturbed = FALSE /\ silent = {} /\ changes = 0

Change ==
  /\ changes < MaxChanges /\ changes' = changes + 1
  /\ \E r \in Repositories \ {repo} : repo' = r
  /\ undisturbed' = FALSE
  /\ UNCHANGED <<reads, previous, told, emitInitial, silent>>

\* The next command of a capture returns.
Read ==
  /\ Len(reads) < Len(Commands)
  /\ reads' = Append(reads, Answer(Commands[Len(reads) + 1]))
  /\ IF reads = None THEN undisturbed' = TRUE /\ silent' = {}
     ELSE UNCHANGED <<undisturbed, silent>>
  /\ UNCHANGED <<repo, previous, told, emitInitial, changes>>

\* The command for the commit or the branch exits with an error: None.
ReadNothing ==
  /\ Len(reads) < Len(Commands)
  /\ LET command == Commands[Len(reads) + 1]
     IN command \in Optional /\ silent' = silent \cup {command}
  /\ reads' = Append(reads, NoValue)
  /\ UNCHANGED <<repo, previous, told, emitInitial, undisturbed, changes>>

\* Any other does, or one takes too long: GitWatcherError, nothing is remembered.
CommandFails ==
  /\ reads # None /\ Len(reads) < Len(Commands)
  /\ reads' = None /\ undisturbed' = FALSE
  /\ UNCHANGED <<repo, previous, told, emitInitial, silent, changes>>

\* The rest of poll: an event if there is news, and the capture is kept.
Poll ==
  /\ Len(reads) = Len(Commands)
  /\ told' = IF EventType(previous, reads) = "NONE" THEN told ELSE reads
  /\ previous' = reads /\ reads' = None
  /\ UNCHANGED <<repo, emitInitial, undisturbed, silent, changes>>

GitNext == Change \/ Read \/ ReadNothing \/ CommandFails \/ Poll

GitSpec == GitInit /\ [][GitNext]_gitVars
-----------------------------------------------------------------------------
\* What the repository gives a capture that nothing disturbs, but for the
\* commands of the last one that failed.
Truth == [i \in 1..Len(Commands) |->
            IF Commands[i] \in silent THEN NoValue ELSE Answer(Commands[i])]

\* changed_files: the set of all names.
ChangedFiles(c) == {Names(c)[i] : i \in DOMAIN Names(c)}

\* watch_git_diff: an event whenever the diff changes. After a capture that
\* nothing disturbed the receiver of the events knows the changed files and
\* the patches of the repository, with patches that differ only beyond the
\* limit told apart, and its commit and its branch as far as their commands
\* answered, however many captures before it were torn between two states of
\* the repository, had no answer for the commit or the branch, or were given
\* up. (Which list a changed file stands in may be wrong after a torn capture
\* that has the same digest; and without an initial event a clean repository
\* is not announced.)
ReceiverKnows ==
  (undisturbed /\ reads = None) =>
    \/ told = None /\ ~emitInitial /\ ~Dirty(Truth)
    \/ /\ told # None
       /\ Commit(told) = Commit(Truth) /\ Branch(told) = Branch(Truth)
       /\ UnstagedPatch(told) = UnstagedPatch(Truth)
       /\ StagedPatch(told) = StagedPatch(Truth)
       /\ ChangedFiles(told) = ChangedFiles(Truth)
=============================================================================
