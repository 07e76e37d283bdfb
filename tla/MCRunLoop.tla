------------------------------ MODULE MCRunLoop ------------------------------
(* RunLoop.tla for TLC: two sources0 in one mode, a source1 in the other. *)
EXTENDS RunLoop, TLC

ModeOf == 2 :> "tracking" @@ 3 :> "default" @@ 4 :> "default"
=============================================================================
