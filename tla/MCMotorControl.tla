--------------------------- MODULE MCMotorControl ---------------------------
(* Instance of MotorControl for TLC: PID sums below, within and above the  *)
(* limits of the output, and one too slow for a step in a control period.  *)
EXTENDS MotorControl

SomeOutputs == {-5, 3, 900}
=============================================================================
