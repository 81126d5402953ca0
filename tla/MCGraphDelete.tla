----------------------------- MODULE MCGraphDelete ----------------------------
(* Instances of GraphDelete for TLC: three documents of which two mention a   *)
(* shared entity, and each one of its own.                                   *)
EXTENDS GraphDelete, TLC

TwoChunksEach ==
    { <<<<"d1", 1>>, "own1">>, <<<<"d1", 2>>, "shared">>,
      <<<<"d2", 1>>, "own2">>, <<<<"d2", 2>>, "shared">>,
      <<<<"d3", 1>>, "own3">>, <<<<"d3", 2>>, "own3">> }

AllDocs == {"d1", "d2", "d3"}
AllEntities == {"own1", "own2", "own3", "shared"}
TwoCommunities ==
    [e \in AllEntities |-> IF e \in {"own1", "own2"} THEN "c1" ELSE "c2"]
===============================================================================
