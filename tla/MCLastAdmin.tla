----------------------------- MODULE MCLastAdmin -----------------------------
(* Small instances of LastAdmin for TLC. Nothing needs a bound: requests   *)
(* are used again, and an account that is deleted stays so.                *)
EXTENDS LastAdmin
=============================================================================
