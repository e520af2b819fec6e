----------------------------- MODULE MCInitReader -----------------------------
(***************************************************************************)
(* Three tokens on one pool that lends one token and has no symbol itself. *)
(***************************************************************************)
EXTENDS InitReader

MCIds == 1..3
MCLegsOf == [p \in MCIds |-> [coll |-> "pool", debt |-> "pool"]]
MCUnderlying == [k \in Pools |-> "weth"]
MCSymbol == [a \in {"pool", "weth"} |-> IF a = "weth" THEN "WETH" ELSE Missing]

\* The health factor is about one position at a time and a race about one label: the
\* credits of the first take all values, and other threads are in lookups beside it.
OneVaries == pid > 1 => {coll, debt, then[1], then[2]} \subseteq {0, 1} /\ others = {}
=============================================================================
