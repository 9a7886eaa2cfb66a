--------------------------- MODULE MCRateLimiter ----------------------------
(***************************************************************************)
(* Small instances of RateLimiter.                                         *)
(***************************************************************************)
EXTENDS RateLimiter, TLC

Config(mode, rate, burst, window) ==
    [mode |-> mode, rate |-> rate, burst |-> burst, window |-> window]

DefaultConfig == Config("token", 2, 1, Second)

\* A bucket of two tokens that is full again in no whole number of
\* milliseconds, with the mode and the window left out; two requests in a
\* window longer than a request may be under way.
Bodies == {Config("", 3, 2, 0), Config("sliding", 2, 0, 4)}

Symmetry == Permutations(Requests)

=============================================================================
