--------------------------- MODULE MCCompleterMap ---------------------------
(* Small tables for TLC.  The sizes are small primes instead of 53, 97,    *)
(* ...; the hash gives keys that share their first entry (equal modulo     *)
(* Capacity) equal or different steps, so that probe sequences cross.      *)
EXTENDS CompleterMap

MCPrimes == {3, 5, 7}
MCHash == [k \in Keys |-> IF k % 2 = 0 THEN k + 7 ELSE 3 * k + 1]

(* No probe of any key exceeds the word size.                              *)
NoProbeWraps == \A k \in Keys, i \in Slots : k + i * step(k) < WordSize

ASSUME NoProbeWraps => ProbesCover
=============================================================================
