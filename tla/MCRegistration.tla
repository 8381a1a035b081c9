--------------------------- MODULE MCRegistration ---------------------------
(***************************************************************************)
(* Model values for Registration: requests that are alike, all for one     *)
(* phone and from one address.                                             *)
(***************************************************************************)
EXTENDS Registration, TLC

CONSTANTS phone, ip, s1, s2, r1, r2, r3, r4

MCPhones == {phone}
MCIps == {ip}
MCSends == {s1, s2}
MCSendPhone == [s \in MCSends |-> phone]
MCRequests == {r1, r2, r3, r4}
MCPhoneOf == [r \in MCRequests |-> phone]
MCIpOf == [r \in MCRequests |-> ip]

Symmetry == Permutations(MCRequests)
=============================================================================
