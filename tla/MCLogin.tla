------------------------------- MODULE MCLogin -------------------------------
(***************************************************************************)
(* Model values for Login: logins that are alike, all for one phone, and a *)
(* logout and an authenticate.                                             *)
(***************************************************************************)
EXTENDS Login, TLC

CONSTANTS phone, l1, l2, l3, out, auth

MCPhones == {phone}
MCLogins == {l1, l2, l3}
MCLoginPhone == [l \in MCLogins |-> phone]
MCCalls == {out, auth}
MCCallKind == [c \in MCCalls |-> IF c = out THEN "logout" ELSE "authenticate"]

Symmetry == Permutations(MCLogins)
=============================================================================
