-------------------------------- MODULE Codes --------------------------------
(***************************************************************************)
(* The window in which a second-factor code is accepted (two_factor.py):   *)
(* times are seconds, and the code of a secret is its time step, as if no  *)
(* two steps had the same six digits.                                      *)
(***************************************************************************)
EXTENDS Integers

CONSTANTS TimeStep,     \* TIME_STEP_SECONDS, 30
          AllowedDrift  \* ALLOWED_WINDOW_DRIFT, 1

ASSUME TimeStepAssumption == TimeStep \in Nat \ {0}
ASSUME DriftAssumption == AllowedDrift \in Nat

StepOf(time) == time \div TimeStep
CodeAt(time) == StepOf(time)    \* _totp_code

\* Slip: range() without its last number.
Drifts_Exclusive == (-AllowedDrift)..(AllowedDrift - 1)
Drifts == (-AllowedDrift)..AllowedDrift

\* verify_code: nothing is kept of codes that were accepted.
Verifies(code, now) == \E d \in Drifts : code = StepOf(now) + d

SecondsRemaining(now) == TimeStep - (now % TimeStep)
=============================================================================
