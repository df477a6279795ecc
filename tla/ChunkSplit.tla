------------------------------ MODULE ChunkSplit ----------------------------
(***************************************************************************)
(* SqliteIndexer.split_text: the loop that cuts a normalized text into      *)
(* overlapping chunks, at a blank of the second half of the window if there *)
(* is one. A text is a sequence of letters, spaces and line ends; positions *)
(* count from 0, as in the code.                                           *)
(***************************************************************************)
EXTENDS Integers, Sequences

CONSTANTS MaxLength,  \* bound on the length of a text
          MaxSize     \* bound on chunk_size

ASSUME SplitAssumption == MaxLength \in Nat /\ MaxSize \in Nat

VARIABLES text,     \* the normalized text
          size,     \* chunk_size
          overlap,  \* chunk_overlap
          start,    \* where the next chunk begins; past the end when done
          chunks    \* the chunks: first position, and the one past the last

splitVars == <<text, size, overlap, start, chunks>>

Blanks == {"space", "newline"}

\* No line begins or ends with a space, and the text with no blank at all.
Normalized(t) ==
  /\ \A i \in 1..Len(t) - 1 : {t[i], t[i + 1]} # Blanks
  /\ t # <<>> => t[1] \notin Blanks /\ t[Len(t)] \notin Blanks

Texts == {t \in UNION {[1..n -> {"letter"} \cup Blanks] : n \in 0..MaxLength} : Normalized(t)}

SplitInit ==
  /\ text \in Texts
  /\ size \in 1..MaxSize /\ overlap \in 0..size - 1
  /\ start = 0 /\ chunks = <<>>

SplitOff == text = <<>> /\ size = 1 /\ overlap = 0 /\ start = 0 /\ chunks = <<>>

IsBlank(i) == text[i + 1] \in Blanks

Least(a, b) == IF a <= b THEN a ELSE b

\* Where the chunk ends: the last blank found from the middle of the window
\* on, else the end of the window.
End ==
  LET window == Least(start + size, Len(text))
      found == {i \in start + size \div 2 .. window - 1 : IsBlank(i) /\ i > start}
  IN IF window = Len(text) \/ found = {} THEN window
     ELSE CHOOSE i \in found : \A j \in found : j <= i

\* strip(): the chunk without the blanks at its ends, none if all is blank.
Chunk(from, to) ==
  LET letters == {i \in from..to - 1 : ~IsBlank(i)}
  IN IF letters = {} THEN <<>>
     ELSE <<[first |-> CHOOSE i \in letters : \A j \in letters : i <= j,
             past |-> 1 + CHOOSE i \in letters : \A j \in letters : j <= i]>>

\* Mutant: chunks of a fixed stride, wherever the last one was cut.
NextStart_Stride(end) == start + size

\* The overlap, unless the chunk is too short to advance.
NextStart(end) == IF end - overlap > start THEN end - overlap ELSE end

SplitNext ==
  /\ start < Len(text)
  /\ chunks' = chunks \o Chunk(start, End)
  /\ start' = IF End = Len(text) THEN End ELSE NextStart(End)
  /\ UNCHANGED <<text, size, overlap>>
-----------------------------------------------------------------------------
\* For every chunk size and overlap the constructor admits: no letter of the
\* text is dropped, no chunk is longer than the size, the chunks stay in the
\* order of the text (one may be part of the one before it), and the loop
\* advances, so that it makes no more chunks than the text is long.
SplitKeepsText ==
  /\ \A i \in 0..start - 1 :
       IsBlank(i) \/ \E k \in DOMAIN chunks : i \in chunks[k].first..chunks[k].past - 1
  /\ \A k \in DOMAIN chunks : chunks[k].past - chunks[k].first <= size
  /\ \A k \in 1..Len(chunks) - 1 : /\ chunks[k].first <= chunks[k + 1].first
                                   /\ chunks[k].past <= chunks[k + 1].past
  /\ Len(chunks) <= Len(text)
=============================================================================
