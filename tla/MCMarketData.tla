---------------------------- MODULE MCMarketData ----------------------------
(***************************************************************************)
(* A small instance of MarketData: two listed symbols, not in the order of *)
(* the alphabet.                                                           *)
(***************************************************************************)
EXTENDS MarketData

CONSTANTS A, B

TwoListed == <<B, A>>
Alphabet == [s \in {A, B} |-> IF s = A THEN 1 ELSE 2]

\* Against these closes the prices 1 and 3 move the first symbol by a half,
\* down and up, and the second down by three quarters and by a quarter.
Closes == [s \in {A, B} |-> IF s = A THEN 2 ELSE 4]

=============================================================================
