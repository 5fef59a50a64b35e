--------------------------- MODULE MCCacheServer ---------------------------
(***************************************************************************)
(* Bounds for CacheServer: three sector numbers and a table pruned at      *)
(* three entries, so that evictions happen; a counter of four values, so   *)
(* that it wraps within the five messages sent.                             *)
(***************************************************************************)
EXTENDS CacheServer

MCKeys == {0, 1, 2}
MCVersions == {"a", "b"}
=============================================================================
