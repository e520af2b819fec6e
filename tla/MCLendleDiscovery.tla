-------------------------- MODULE MCLendleDiscovery --------------------------
(***************************************************************************)
(* A chain of six blocks, chunks of two blocks and two events per chunk,   *)
(* each borrower named in two blocks.  The poll loop runs on, and requests *)
(* for a diagnostics snapshot come in between.                             *)
(***************************************************************************)
EXTENDS LendleDiscovery, TLC

CONSTANTS poll, diag, u1, u2, u3

MCTopics == {1, 2}
MCBorrowers == {u1, u2, u3}
MCThreads == {poll, diag}
MCRequests == {diag}

At(B, D) == 1 :> B @@ 2 :> D
MCLogs == 0 :> At({}, {u1}) @@ 1 :> At({u1}, {}) @@ 2 :> At({}, {u2})
       @@ 3 :> At({u3}, {}) @@ 4 :> At({}, {u2}) @@ 5 :> At({u3}, {})
=============================================================================
