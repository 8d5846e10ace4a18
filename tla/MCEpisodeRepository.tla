------------------------- MODULE MCEpisodeRepository -------------------------
(* One episode: an opening with and one without a prediction, an initial advice, a      *)
(* revision and its repetition over its own result, a revision that drops the           *)
(* prediction, and the outcome of the initial advice.  The opening and its advice are   *)
(* of one time.                                                                         *)
EXTENDS EpisodeRepository

CONSTANTS p1, p2, r1

MCVersions == {"opened", "bare", "advised", "revised", "unsealed", "closed"}

Of(op, expected, next) == [op |-> op, expected |-> expected, next |-> next]

MCApplies ==
  {Of("open", None, "opened"), Of("open", None, "bare"), Of("advise", "opened", "advised"),
   Of("revise", "advised", "revised"), Of("revise", "revised", "revised"),
   Of("drop", "advised", "unsealed")}

MCOutcomes == {Of("outcome", "advised", "closed")}

MCStatus ==
  [v \in MCVersions |-> CASE v \in {"opened", "bare"} -> "open"
                          [] v = "closed"             -> "closed"
                          [] OTHER                    -> "recommended"]

MCUpdated ==
  [v \in MCVersions |-> IF v \in {"opened", "bare", "advised"} THEN 1 ELSE 2]

MCPrediction == [v \in MCVersions |-> IF v \in {"bare", "unsealed"} THEN None ELSE "forecast"]

MCInputs == [v \in MCVersions |-> {}]

MCAdvice ==
  [v \in MCVersions |-> CASE v \in {"opened", "bare"}    -> None
                          [] v \in {"advised", "closed"} -> "first"
                          [] OTHER                       -> "second"]

MCSourced == {"revised", "unsealed"}
=============================================================================
