------------------------------ MODULE Screening -----------------------------
(***************************************************************************)
(* The change queue's call to its model: _assess_with_retry in a worker of *)
(* the executor, and what _analyze_later makes of its end. Time is a       *)
(* counter in units of the retry interval. The client's timeout is one for  *)
(* each connect, write and read: it says how long a request that got no    *)
(* answer has lasted at least, and not how long one may last.              *)
(***************************************************************************)
EXTENDS ModelClient

CONSTANTS Timeout,   \* settings.timeout_seconds, in retry intervals
          Longest,   \* bound on how long a request lasts, in retry intervals
          Listings   \* what the server does when asked for its models

ASSUME ScreeningAssumption ==
  /\ Timeout \in Nat \ {0} /\ Longest \in Nat /\ Longest >= Timeout
  /\ Listings \subseteq Replies \cup {"configured"}

VARIABLES step,      \* "idle", "call", "wait" or "done"
          now,       \* monotonic time since the first call
          calls,     \* calls of assess_directory_change
          last,      \* the result of the last call
          stopping,  \* _watcher_stop is set
          verdict    \* "accept", "review", or "unjudged" (fallback summary)

screenVars == <<step, now, calls, last, stopping, verdict>>

\* Bound on the attempts of a behaviour: without it a stopping queue spins.
MaxCalls == Timeout + 4

ScreenIdle == /\ step = "idle" /\ now = 0 /\ calls = 0
              /\ last = Ok("none") /\ stopping = FALSE /\ verdict = "none"

ScreenInit == /\ step = "call" /\ now = 0 /\ calls = 0
              /\ last = Ok("none") /\ stopping = FALSE /\ verdict = "none"

ScreenTypeOK ==
  /\ step \in {"idle", "call", "wait", "done"}
  /\ now \in Nat
  /\ calls \in 0..MaxCalls
  /\ stopping \in BOOLEAN
  /\ verdict \in {"none", "accept", "review", "unjudged"}

\* A request lasts as long as the server lets it; one that is given up was
\* without an answer for the timeout, at its connect or after some of its reads.
Lasts(reply) == IF reply = "timeout" THEN Timeout..Longest ELSE 0..Longest

\* Discovery and completion are two requests.
CallTimes(listing, reply) ==
  LET listed == IF listing = "configured" THEN {0} ELSE Lasts(listing)
      posted == IF Discover(listing).ok THEN Lasts(reply) ELSE {0}
  IN {l + p : l \in listed, p \in posted}

\* What one call can come back with, and after how long.
CallResults ==
  UNION {[result : {AssessDirectoryChange(listing, reply, content)},
          takes : CallTimes(listing, reply)] :
           listing \in Listings, reply \in Replies, content \in Contents}

\* assess_directory_change returns or raises.
Call ==
  /\ step = "call" /\ calls < MaxCalls
  /\ \E c \in CallResults : last' = c.result /\ now' = now + c.takes
  /\ calls' = calls + 1
  /\ step' = "wait"
  /\ UNCHANGED <<stopping, verdict>>

\* The assessment asks for a review or not; mandatory reasons are the queue's.
Assessed ==
  /\ step = "wait" /\ last.ok
  /\ \E v \in {"accept", "review"} : verdict' = v
  /\ step' = "done"
  /\ UNCHANGED <<now, calls, last, stopping>>

\* Mutant: the deadline is not looked at.
GivesUp_Never == ~last.ok /\ ~last.retryable

\* Raised to the caller: permanent, or the window is over.
GivesUp == ~last.ok /\ (~last.retryable \/ now >= Timeout)

\* Mutant: a change that could not be judged is accepted.
Unjudged_Accepts ==
  /\ step = "wait" /\ GivesUp
  /\ verdict' = "accept"
  /\ step' = "done"
  /\ UNCHANGED <<now, calls, last, stopping>>

\* _analyze_later's except: the local summary, and an operator's review.
Unjudged ==
  /\ step = "wait" /\ GivesUp
  /\ verdict' = "unjudged"
  /\ step' = "done"
  /\ UNCHANGED <<now, calls, last, stopping>>

\* Mutant: the next call starts at once.
Retry_AtOnce ==
  /\ step = "wait" /\ ~last.ok /\ ~GivesUp
  /\ step' = "call"
  /\ UNCHANGED <<now, calls, last, stopping, verdict>>

\* _watcher_stop.wait: one interval, and no wait at all once it is set.
Retry ==
  /\ step = "wait" /\ ~last.ok /\ ~GivesUp
  /\ now' = IF stopping THEN now ELSE now + 1
  /\ step' = "call"
  /\ UNCHANGED <<calls, last, stopping, verdict>>

\* close() of the queue.
Stop ==
  /\ step \in {"call", "wait"} /\ ~stopping
  /\ stopping' = TRUE
  /\ UNCHANGED <<step, now, calls, last, verdict>>

ScreenStep == Call \/ Assessed \/ Unjudged \/ Retry

ScreenNext == ScreenStep \/ Stop
-----------------------------------------------------------------------------
\* Only an assessment that came back can let a change pass without review.
UnjudgedIsReviewed == verdict = "accept" => last.ok

\* No call begins after the window, however long the requests before it
\* lasted: one can begin at its very end, after the wait that reached the
\* deadline. Until the queue is being closed the server is called at most once
\* per interval of the window and once at its end, and only what may pass is
\* retried.
RetriesAreBounded ==
  /\ step = "call" => now <= Timeout
  /\ ~stopping => calls <= Timeout + 1
  /\ calls > 1 /\ step = "call" => last.retryable

\* Every screening ends, provided that each call returns: the entry leaves
\* "pending" whatever the server answers and however late, as long as the queue
\* is not closing (then the calls follow each other
\* without a wait until the window is over).
ScreeningEnds == step = "call" ~> (step = "done" \/ stopping)
=============================================================================
