---------------------------- MODULE MCLoadLoops ----------------------------
(* Small instances of LoadLoops for TLC. *)
EXTENDS LoadLoops

OneAndTwo == <<1, 2>>

OneWarmupTwoMeasured == [warmup |-> 1, measure |-> 2]

FewRequests == [m \in Modes |-> IF m = "open_loop" THEN 2 ELSE 4]

Assumptions == [utilization |-> 70, coverage |-> 60, peakTenths |-> 25, tp |-> 2]

=============================================================================
