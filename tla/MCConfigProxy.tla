--------------------------- MODULE MCConfigProxy ---------------------------
(* Two public keys, each matching one private key, so that a mismatched   *)
(* pair exists; one address and one chain id.                             *)
EXTENDS ConfigProxy

CONSTANTS k1, k2, s1, s2, a1, c1

MCMatching == {<<k1, s1>>, <<k2, s2>>}
=============================================================================
