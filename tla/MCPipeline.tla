----------------------------- MODULE MCPipeline -----------------------------
(***************************************************************************)
(* Small instances of Pipeline: one portfolio, one stock.                  *)
(***************************************************************************)
EXTENDS Pipeline, TLC

CONSTANTS P, S

Req(side, qty, type, limit) ==
    [portfolio |-> P, side |-> side, inst |-> S, qty |-> qty, type |-> type,
     limit |-> limit]

\* A market order that the seed pays for, a limit that is not reached,
\* and, for Half = 4, costs that wrap to a negative number and to a small one.
Buys == {Req("buy", 1, "market", 0), Req("buy", 1, "limit", 1),
         Req("buy", 2, "limit", 2), Req("buy", 3, "limit", 3)}

MCMaxAttempts == [execute_order |-> 2, settle |-> 1]

=============================================================================
