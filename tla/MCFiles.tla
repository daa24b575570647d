------------------------------- MODULE MCFiles -------------------------------
(* Files with two workers, a folder, a file in it, and two names.             *)
EXTENDS Files, TLC

Both      == {"local", "sftp"}
TwoNames  == {"a", "b"}
AllPaths  == {<<"a">>, <<"b">>, <<"a", "a">>, <<"a", "b">>}
Workers   == Permutations(Callers)
OldUnits  == <<0, 0, 0>>
=============================================================================
