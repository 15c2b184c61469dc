---------------------------- MODULE MCRateLimit ----------------------------
(* Three entries whose calls interleave; a window of 2 with ages up to 5   *)
(* lets keys outlive a cleanup, expire in the map and be evicted.          *)
EXTENDS RateLimit, TLC

CONSTANTS id1, id2, id3

MCIds == {id1, id2, id3}

Symmetry == Permutations(MCIds)
=============================================================================
