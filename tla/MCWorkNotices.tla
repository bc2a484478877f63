---------------------------- MODULE MCWorkNotices ----------------------------
(* An application and its interview, two managers, two owners, two messages. *)
EXTENDS WorkNotices, TLC
CONSTANTS m1, m2, r1, r2, s1, s2
TwoManagers == {m1, m2}
TwoRecruiters == {r1, r2}
Alike == Permutations(TwoRecruiters) \cup Permutations({s1, s2})
(* Both are required, or one takes part and nobody is required.              *)
SomeJuries == {[m \in TwoManagers |-> "required"], [m \in TwoManagers |-> IF m = m2 THEN "optional" ELSE "out"]}
SomeActors == {m1, Nobody}
TwoPlaces == {s1, s2}
=============================================================================
