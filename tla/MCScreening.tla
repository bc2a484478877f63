---------------------------- MODULE MCScreening ----------------------------
(* One uploaded resume through the whole pipeline.                          *)
EXTENDS Screening

CONSTANTS resume

OneItem == {resume}
=============================================================================
