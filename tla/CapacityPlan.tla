---------------------------- MODULE CapacityPlan ----------------------------
(***************************************************************************)
(* The sizing of bench/capacity_planner.py.  Rates are in output tokens    *)
(* per second per GPU, the utilization target and the reserved coverage in *)
(* percent, the peak-to-average ratio in tenths.                           *)
(*                                                                         *)
(* The code divides and multiplies in floating point and rounds up what    *)
(* comes out, so that a quotient that is an integer, or almost one, may be *)
(* rounded up to the next: 98 / (7 * 0.7) is 20.000000000000004.  The      *)
(* operators below are the sets of the results this can have.  Costs,      *)
(* which are products of these figures and prices, are left out.           *)
(***************************************************************************)
EXTENDS Integers

CONSTANT
    Precision   \* a computed quotient is off by less than one part in Precision

(* A few roundings of doubles, each of one part in 2^53: at least 2^50.    *)
ASSUME PrecisionAssumption == Precision \in Nat \ {0, 1}

(* The least integer that is not below a / b. *)
CeilDiv(a, b) == (a + b - 1) \div b

(* math.ceil of a / b as the code has computed it. *)
Rounded(a, b) ==
    CeilDiv(a * (Precision - 1), b * Precision) .. CeilDiv(a * (Precision + 1), b * Precision)

(* Variant: the quotient is rounded down. *)
ReplicasDown(required, rate, utilization, tp) ==
    {(100 * required) \div (rate * utilization * tp)}

Replicas(required, rate, utilization, tp) ==
    Rounded(100 * required, rate * utilization * tp)

PeakGpus(gpus, peakTenths) == Rounded(gpus * peakTenths, 10)

ReservedGpus(gpus, coverage) == Rounded(gpus * coverage, 100)

BurstGpus(peakGpus, reserved) ==
    IF peakGpus > reserved THEN peakGpus - reserved ELSE 0

=============================================================================
