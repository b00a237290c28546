----------------------------- MODULE MCRaplLimit -----------------------------
(* Model checking of RaplLimit.  Two one-bit numbers of watts show a mixture *)
(* of two limits as a third one.  The first tool sets either half or both,   *)
(* the second the upper half and, in MixedUses, the DRAM limit; in MixedReads *)
(* each limit is read back by one of them.                                   *)
EXTENDS RaplLimit

CONSTANTS t1, t2

PackageUses == {<<t1, "pkg1">>, <<t1, "pkg2">>, <<t2, "pkg2">>}
MixedUses == PackageUses \cup {<<t2, "dram">>}
MixedReads == {<<t1, "pkg1">>, <<t2, "pkg2">>, <<t2, "dram">>}
OneToolUses == {t1} \X Limit
=============================================================================
