------------------------------ MODULE MCDoctor ------------------------------
(* Model checking instance of Doctor: one safe irreversible repair, two    *)
(* that need an approval, one finding that is never executable.            *)
EXTENDS Doctor, TLC

MCDiagnoses == {Diagnosis(kind, {}) : kind \in
                    {"RouterFault", "GatewayUnreachable", "AdapterLinkDown", "WeakWifiQuality"}}

Symmetry == Permutations(Requests) \cup Permutations(Tokens)
=============================================================================
