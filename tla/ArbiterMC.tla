------------------------------ MODULE ArbiterMC ------------------------------
(* The smallest instance in which a replaced timer matters: two clients and three *)
(* timer objects, one of them current while callbacks of the others are late.  The *)
(* arbiter's properties are checked on a larger instance, in PackagesMC.           *)
EXTENDS Arbiter
==============================================================================
