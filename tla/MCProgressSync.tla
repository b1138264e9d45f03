---------------------------- MODULE MCProgressSync ----------------------------
(* Instances of ProgressSync: one device, two people who share it.           *)
EXTENDS ProgressSync

CONSTANTS a, b
=============================================================================
