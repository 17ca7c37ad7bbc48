------------------------- MODULE MCProviderHistory -------------------------
(* The testing provider and its history on the instances of                *)
(* MCTestingProvider.                                                      *)
EXTENDS MCTestingProvider, ProviderHistory
=============================================================================
