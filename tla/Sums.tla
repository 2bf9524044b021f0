--------------------------------- MODULE Sums ---------------------------------
(* The sums the handlers compute with reduce(), as the total of a function. *)
EXTENDS Integers, FiniteSets, FiniteSetsExt

\* The sum of f over its finite domain.
Total(f) == MapThenSumSet(LAMBDA x : f[x], DOMAIN f)
=============================================================================
