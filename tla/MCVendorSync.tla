---------------------------- MODULE MCVendorSync ----------------------------
(***************************************************************************)
(* Instances of VendorSync for TLC: the first account has one device, which *)
(* the second has as well, beside one of its own.                           *)
(***************************************************************************)
EXTENDS VendorSync

CONSTANTS c1, c2, d1, d2

Accounts == [c \in {c1, c2} |-> IF c = c1 THEN {d1} ELSE {d1, d2}]

=============================================================================
