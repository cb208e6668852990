------------------------- MODULE MCDiagnosticEngine -------------------------
(* Model checking instance of DiagnosticEngine.                            *)
EXTENDS DiagnosticEngine

MCSizes == <<2, 1>>
=============================================================================
