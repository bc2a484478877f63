------------------------- MODULE MCInterviewNotices -------------------------
(* An interview that is created, moved or cancelled, and two deliveries.  *)
EXTENDS InterviewNotices
=============================================================================
