------------------------------- MODULE MCWal --------------------------------
(***************************************************************************)
(* Small instances of Wal.                                                 *)
(***************************************************************************)
EXTENDS Wal, TLC

CONSTANTS k1, k2

Config(k, salvage) == [key |-> k, truncateAtCorrupt |-> salvage]

MCNew == {"new"}
MCAllStarts == {"new", "legacy", "newer"}
MCKinds == {"set", "batch"}
MCTTLKinds == {"ttl", "batch"}
MCDeleteKinds == {"delete", "batch"}
MCFramed == {"framed"}
MCHuge == {"huge"}
MCPlain == {Config(NoKey, FALSE)}
MCSealed == {Config(k1, FALSE)}
MCAllConfigs ==
  {Config(NoKey, FALSE), Config(NoKey, TRUE), Config(k1, FALSE), Config(k2, FALSE)}

MCSymmetry == Permutations({k1, k2})

=============================================================================
