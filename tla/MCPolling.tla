----------------------------- MODULE MCPolling ------------------------------
(***************************************************************************)
(* Small instances of Polling.                                             *)
(***************************************************************************)
EXTENDS Polling, TLC

CONSTANT Other

Body(symbol, direction, threshold) ==
    [symbol |-> symbol, direction |-> direction, threshold |-> threshold]

\* An alert on a symbol that the provider does not list, and a malformed one.
OneAlert == {Body(Other, "above", 2), Body(Other, "above", 0)}

=============================================================================
