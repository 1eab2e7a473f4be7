---- MODULE MCPhoneBilling ----
(***************************************************************************)
(* Small instances of PhoneBilling.                                        *)
(***************************************************************************)
EXTENDS PhoneBilling, TLC

TwoTranches == 1..2
OneTranche == 1..1

\* The media sessions are interchangeable, and so are the deliveries.
Interchangeable == Permutations(Callbacks)

====
