------------------------------ MODULE AiServices ----------------------------
(***************************************************************************)
(* The two users of a model behind the gateway: an analysis of the B        *)
(* service, and a screening of the change queue. A behaviour is one call    *)
(* of either.                                                              *)
(***************************************************************************)
EXTENDS RiskAnalysis, Screening

vars == <<riskVars, screenVars>>

RiskIdle ==
  /\ request \in {r \in Requests : r.baseline = r.candidate /\ r.baseline.units = <<>>
                                   /\ r.baseline.artifacts = {} /\ r.intact}
  /\ judge = FALSE /\ phase = "done" /\ score = 0 /\ policy = NoPolicy
  /\ asked = [p \in Phases |-> "not"] /\ delivered = "NONE"

Init == \/ RiskInit /\ ScreenIdle
        \/ RiskIdle /\ ScreenInit

Next == \/ RiskNext /\ UNCHANGED screenVars
        \/ ScreenNext /\ UNCHANGED riskVars

\* A request to a server ends, and the worker that made it goes on.
Spec == Init /\ [][Next]_vars /\ WF_vars(ScreenStep /\ UNCHANGED riskVars)

TypeOK == RiskTypeOK /\ ScreenTypeOK
=============================================================================
