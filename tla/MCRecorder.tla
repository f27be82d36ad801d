------------------------------ MODULE MCRecorder -------------------------------
(***************************************************************************)
(* TLC instance of Recorder: half seconds, the delays of half a second and *)
(* of two seconds, and more opportunities than memory holds.               *)
(***************************************************************************)
EXTENDS Recorder

MCDelays == {1, 4}
================================================================================
