------------------------- MODULE MCProviderCircuit -------------------------
(* Model values for the requests of the circuit's runs.                    *)
EXTENDS ProviderCircuit

CONSTANTS c1, c2, c3
=============================================================================
