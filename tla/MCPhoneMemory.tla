---- MODULE MCPhoneMemory ----
(***************************************************************************)
(* Small instances of PhoneMemory.                                         *)
(***************************************************************************)
EXTENDS PhoneMemory, TLC

CONSTANTS c1, c2, m1, m2

\* One sentence in each of two calls.
OneEach == [m \in {m1, m2} |-> IF m = m1 THEN c1 ELSE c2]

Interchangeable == Permutations(Workers)

====
