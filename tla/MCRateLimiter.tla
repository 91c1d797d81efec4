---------------------------- MODULE MCRateLimiter ----------------------------
(***************************************************************************)
(* Small instances of RateLimiter for TLC.  Threads, addresses and widgets *)
(* are each interchangeable.                                               *)
(***************************************************************************)
EXTENDS RateLimiter, TLC

Symmetry == Permutations(Threads) \union Permutations(Ips)
              \union Permutations(Widgets)

=============================================================================
