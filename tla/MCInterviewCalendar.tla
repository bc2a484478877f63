------------------------ MODULE MCInterviewCalendar ------------------------
(* Two workers, which play the same part, and an interview that is created, *)
(* moved and cancelled: three generations.                                  *)
EXTENDS InterviewCalendar, TLC

CONSTANTS w1, w2

MCProcs == {w1, w2}
Symmetry == Permutations(MCProcs)
=============================================================================
