--------------------------- MODULE MCAutoreleasePool ---------------------------
(* AutoreleasePool.tla for TLC. *)
EXTENDS AutoreleasePool

\* The process as it is normally started, and with each of the two variables.
Normal  == [DebugPoolAllocation |-> FALSE, DebugMissingPools |-> FALSE]
Missing == [DebugPoolAllocation |-> FALSE, DebugMissingPools |-> TRUE]
PerPool == [DebugPoolAllocation |-> TRUE, DebugMissingPools |-> FALSE]

AllModes == {Normal, Missing, PerPool}
NotPerPool == {Normal, Missing}
OnlyPerPool == {PerPool}
=============================================================================
