--------------------------- MODULE MCRetryBackoff ---------------------------
(* Small instances of RetryBackoff.  Intervals are in units of 100 ms: the     *)
(* defaults of NewDefaultClientConfig with a smaller maximum, intervals left   *)
(* to the library, an initial interval above the maximum, and no retries.      *)
EXTENDS RetryBackoff, TLC

MCSetting(e, n, i, m) ==
    [Enabled |-> e, MaxRetries |-> n, InitialInterval |-> i, MaxInterval |-> m]

MCStop == -1

MCSettings == {MCSetting(TRUE, 3, 4, 8), MCSetting(TRUE, 0, 0, 0),
               MCSetting(TRUE, 2, 9, 3), MCSetting(FALSE, 3, 4, 8)}

Symmetry == Permutations(Requests)
=============================================================================
