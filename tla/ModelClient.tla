----------------------------- MODULE ModelClient ----------------------------
(***************************************************************************)
(* The clients of the services outside the gateway, as functions from what *)
(* a server does to what the caller gets: OpenAICompatibleClient (model    *)
(* discovery, chat completion, the JSON each of its uses accepts) and      *)
(* HttpRiskAnalyzer. A result is an answer, or an error with the retryable *)
(* flag its callers look at.                                               *)
(***************************************************************************)
EXTENDS Integers

\* What a server does with one HTTP request.
Replies == {"timeout", "refused", "http4xx", "http429", "http5xx",
            "oversized", "malformed", "empty", "overlong", "content"}

\* What the content of a completion is: the JSON object that was asked for,
\* one with a wrong schema, one bound to another candidate, text around or
\* instead of JSON, or nothing but an empty think wrapper.
Contents == {"object", "schema", "unbound", "prose", "thought"}

Ok(value) == [ok |-> TRUE, value |-> value, error |-> "none", retryable |-> FALSE]

Failure(error, retryable) ==
  [ok |-> FALSE, value |-> "none", error |-> error, retryable |-> retryable]

\* raise_for_status and the transport: which statuses are transient differs
\* between the two clients.
HttpFailure(reply, transient) ==
  Failure("EXTERNAL", reply \in {"timeout", "refused"} \cup transient)

HttpErrors == {"timeout", "refused", "http4xx", "http429", "http5xx"}

\* _discover_model. listing is "configured" when settings name the model; any
\* failure to list one is a configuration error, which nobody retries.
Discover(listing) ==
  IF listing \in {"configured", "content"} THEN Ok("model")
  ELSE Failure("CONFIGURATION", FALSE)

\* _complete with a model. An empty think wrapper passes the check for empty
\* completions and is then cut off, so that the answer is the empty text.
Post(reply, content) ==
  IF reply \in HttpErrors THEN HttpFailure(reply, {"http5xx"})
  ELSE IF reply = "content" THEN Ok(content)
  ELSE Failure("EXTERNAL", FALSE)

\* _complete
Complete(listing, reply, content) ==
  IF Discover(listing).ok THEN Post(reply, content) ELSE Discover(listing)

\* The JSON-only uses of a completion: one object and nothing else
\* (_json_object), of the schema and binding that the use accepts.
Strict(completion, accepted) ==
  IF completion.ok /\ completion.value \notin accepted
  THEN Failure("EXTERNAL", FALSE) ELSE completion

\* assess_directory_change
AssessDirectoryChange(listing, reply, content) ==
  Strict(Complete(listing, reply, content), {"object", "unbound"})

\* assess_document_risk: the policy is bound to the candidate.
AssessDocumentRisk(listing, reply, content) ==
  Strict(Complete(listing, reply, content), {"object"})

\* OpenAIRiskJudge.assess
JudgeAssess(listing, reply, content) ==
  Strict(Complete(listing, reply, content), {"object", "unbound"})

\* HttpRiskAnalyzer.analyze: 429 is transient here, and no size is too large.
\* The response has to be a PolicySubmission with this request's id; whether it
\* is about the candidate is the gateway's question.
AnalyzeOverHttp(reply, content) ==
  IF reply \in HttpErrors THEN HttpFailure(reply, {"http429", "http5xx"})
  ELSE IF reply \in {"content", "oversized", "overlong"} /\ content \in {"object", "unbound"}
       THEN Ok(content)
  ELSE Failure("EXTERNAL", FALSE)
=============================================================================
