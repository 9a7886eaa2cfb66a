----------------------------- MODULE MCTrading -----------------------------
(***************************************************************************)
(* Small instances of Trading: one stock, and requests chosen so that      *)
(* orders compete.                                                         *)
(***************************************************************************)
EXTENDS Trading, TLC

CONSTANTS P, R, S

Req(p, side, qty, type, limit) ==
    [portfolio |-> p, side |-> side, inst |-> S, qty |-> qty, type |-> type,
     limit |-> limit]

\* A buy at the market, a sell at a limit that is reached, and a malformed
\* request; on P also a sell at a limit that is not reached, and, for
\* Half = 8, a buy whose cost wraps to a negative number.
Compete ==
    UNION {{Req(p, "buy", 1, "market", 0), Req(p, "sell", 1, "limit", 2),
            Req(p, "buy", 0, "market", 0)} : p \in Portfolios}
      \cup {Req(P, "sell", 1, "limit", 3), Req(P, "buy", 4, "limit", 2)}

AtMostOne(Busy(_), X) == \A x, y \in X : Busy(x) /\ Busy(y) => x = y

(***************************************************************************)
(* Bound on the run Trading: one of two portfolios is opened.  On P, two   *)
(* workers race with each other and with a client that places and cancels; *)
(* on R, two clients, a reader and a worker race, and time passes.         *)
(***************************************************************************)
OneRace ==
    LET Executing(w) == exec[w].pc # "idle"
        Asking(c) == client[c].pc # "idle"
    IN
    /\ AtMostOne(LAMBDA p : p \in opened, Portfolios)
    /\ P \in opened =>
          /\ AtMostOne(Asking, Clients)
          /\ \A c \in Clients : client[c].key = NoKey
          /\ reader = [r \in Readers |-> IdleReader]
          /\ clock = 0
    /\ R \in opened =>
          /\ AtMostOne(Executing, Workers)
          /\ clock > 0 => \A c \in Clients : ~Asking(c)
          /\ \A c \in Clients : client[c].pc # "cancel"

Symmetry == Permutations(Workers) \cup Permutations(Clients)
              \cup Permutations(Orders)

============================================================================
