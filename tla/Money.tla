-------------------------------- MODULE Money --------------------------------
(***************************************************************************)
(* Money: decimals in a request, and what a numeric(19,4) column makes of  *)
(* them.                                                                   *)
(*                                                                         *)
(* A request carries decimals of any precision; the columns `amount` and   *)
(* `balance` are numeric(19,4).  Money is therefore an integer in one of   *)
(* two units: a request, and a row held in memory, count sub-units; a      *)
(* column counts stored units of 1/10000, each worth Scale sub-units.      *)
(* Scale = 1 is the case of clients that send at most four decimals.       *)
(***************************************************************************)
EXTENDS Integers

CONSTANTS
    Scale,      \* sub-units per stored unit
    MaxStored   \* the largest magnitude a numeric(19,4) column holds

ASSUME ScaleAssumption == Scale \in Nat \ {0}
ASSUME MaxStoredAssumption == MaxStored \in Nat

\* What PostgreSQL stores for x sub-units: numeric rounds half away from zero.
Stored(x) == IF x >= 0 THEN (2 * x + Scale) \div (2 * Scale)
                       ELSE -((Scale - 2 * x) \div (2 * Scale))

\* Mutant: a column without a range.
FitsAlways(x) == TRUE

\* Whether a column takes the value; a larger one makes the statement fail.
Fits(x) == Stored(x) \in -MaxStored .. MaxStored
=============================================================================
