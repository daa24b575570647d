--------------------------- MODULE MCClassifiedRetry ---------------------------
(* Instances of ClassifiedRetry: small budgets, interchangeable workers, and *)
(* a cloud adapter, which does not wait in the loop, beside one that does.   *)
EXTENDS ClassifiedRetry, TLC

SomeRetryAfter  == {0, 3}
BothKinds       == {Config(TRUE, 0), Config(FALSE, 1)}
Interchangeable == Permutations(Workers)
=============================================================================
