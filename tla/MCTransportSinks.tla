-------------------------- MODULE MCTransportSinks --------------------------
(***************************************************************************)
(* Instances of TransportSinks for TLC: three records of two seconds, the  *)
(* last of level Error.                                                    *)
(***************************************************************************)
EXTENDS TransportSinks, TLC

Seconds == 1 :> 0 @@ 2 :> 1 @@ 3 :> 1
Config(append, file, err) ==
    [append |-> append, useStderrForErrors |-> err,
     autoFlush |-> [k \in SinkNames |-> k = "file" /\ file]]
EveryOption == {Config(TRUE, FALSE, TRUE), Config(FALSE, TRUE, FALSE), Config(FALSE, FALSE, TRUE)}
Symmetry == Permutations(Threads)
=============================================================================
