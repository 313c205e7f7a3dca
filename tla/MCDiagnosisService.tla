-------------------------- MODULE MCDiagnosisService --------------------------
(* Model-checking instance of DiagnosisService.                             *)
EXTENDS DiagnosisService, TLC

CONSTANTS t1, t2

(* Tasks are interchangeable in the safety runs.                            *)
Symmetric == Permutations(Tasks)
==============================================================================
