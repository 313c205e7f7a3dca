-------------------------- MODULE MCDiagnosisClients --------------------------
(* Model-checking instance of DiagnosisClients: the clients of one task.     *)
EXTENDS DiagnosisClients

CONSTANT t1
===============================================================================
