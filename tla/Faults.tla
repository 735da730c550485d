-------------------------------- MODULE Faults --------------------------------
(* What may go wrong around the program: a statement in D1, a call to another *)
(* service, the death of an invocation.  A module names its kinds of failure; *)
(* a run chooses which may happen, and how many in all.                       *)
EXTENDS Naturals

CONSTANTS
  Fragile,   \* the kinds of failure that may happen
  MaxFaults  \* how many of them (bound)
VARIABLE faults

ASSUME FaultsAssumption == MaxFaults \in Nat

NoFaultYet == faults = 0
Works == UNCHANGED faults
Fails(what) == what \in Fragile /\ faults < MaxFaults /\ faults' = faults + 1
=============================================================================
