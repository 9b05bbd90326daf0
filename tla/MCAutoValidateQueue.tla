------------------------ MODULE MCAutoValidateQueue ------------------------
(***************************************************************************)
(* Instances of AutoValidateQueue for TLC: two files, of two projects with *)
(* configurations that differ in what they accept and in their limits.     *)
(***************************************************************************)
EXTENDS AutoValidateQueue

Disabled == DefaultConfig
OneAtATime == [accepts |-> Keys, maxConcurrent |-> 1]
TwoAtATime == [accepts |-> Keys, maxConcurrent |-> 2]

SomeSettings == {Disabled, OneAtATime, TwoAtATime}
=============================================================================
