------------------------- MODULE MCInsightDetection -------------------------
(***************************************************************************)
(* Two requests, one of all three detectors and one of a single detector,  *)
(* and a third whose insight_type selects none.                            *)
(***************************************************************************)
EXTENDS InsightDetection

CONSTANTS q1, q2, q3

MCDetector == {"zombie", "hidden_gem", "performance_alert"}
MCSelected == [q \in {q1, q2, q3} |-> CASE q = q1 -> MCDetector
                                        [] q = q2 -> {"zombie"}
                                        [] q = q3 -> {}]
MCCandidates == [d \in MCDetector |-> IF d = "zombie" THEN 2 ELSE 1]
=============================================================================
