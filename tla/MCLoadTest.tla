----------------------------- MODULE MCLoadTest -----------------------------
(***************************************************************************)
(* A small instance of LoadTest: two sells of a position of one share.     *)
(***************************************************************************)
EXTENDS LoadTest, TLC

MCMaxAttempts == [execute_order |-> 2, settle |-> 1]

MCRequests == {Request("buy"), Request("sell")}

Symmetry == Permutations(Workers) \cup Permutations(Sellers)
              \cup Permutations(Orders)

\* Bound: jobs that are delivered a second time.
MaxRedelivered == 1

FewRedelivered ==
    Cardinality({j \in Jobs : jobs[j].attempts > 1}) <= MaxRedelivered

=============================================================================
