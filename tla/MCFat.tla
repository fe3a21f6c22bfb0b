------------------------------- MODULE MCFat -------------------------------
(* A volume of three clusters, a root of three entries, one short name and *)
(* one long name.                                                          *)
EXTENDS Fat

ShortOnes == {<<n>> : n \in Short}
===========================================================================
