-------------------------- MODULE MCOpticalRecorder ---------------------------
(***************************************************************************)
(* Instances of OpticalRecorder for TLC: four blocks, the sampled block in *)
(* the middle, one data content whose sampled bytes look like zeros.       *)
(***************************************************************************)
EXTENDS OpticalRecorder

CONSTANT Plain        \* what the host writes outside the volume descriptor

DataPatterns == {[l \in Lba |-> Plain],
                 [l \in Lba |-> IF l = SampleLba THEN Udf ELSE Plain]}

\* Across the pre-gap, over and up to the sampled block, and past the end
WriteRequests == {<<-1, 3>>, <<0, 2>>, <<2, 1>>, <<2, 2>>, <<3, 2>>}

FormatParameters == {
  [blocks |-> 3, type |-> "full", param |-> 2048, tryOut |-> FALSE],
  [blocks |-> 1, type |-> "cdrw", param |-> 2, tryOut |-> FALSE],
  [blocks |-> 0, type |-> "full", param |-> 2048, tryOut |-> TRUE]}
=============================================================================
