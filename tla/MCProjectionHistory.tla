------------------------- MODULE MCProjectionHistory --------------------------
(* The catalogues, windows and discounts of MCPriceProjection, watched by  *)
(* the history variables.                                                  *)
EXTENDS MCPriceProjection, ProjectionHistory

AnyWorker == Permutations(Workers)
===============================================================================
