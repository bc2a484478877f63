----------------------------- MODULE MCMembers -----------------------------
(* Two system administrators, a recruiter with work, and one more to come.  *)
EXTENDS Members, TLC

CONSTANTS a, b, m, n, job, late, step1, step2

MCUsers == {a, b, m, n}
MCFirstRoles == (a :> {"system_admin", "recruiting_admin"}) @@ (b :> {"system_admin", "recruiting_admin"})
                  @@ (m :> {"recruiter", "hiring_manager"}) @@ (n :> {})
MCItems == {job, late, step1, step2}
MCKindOf == [i \in MCItems |-> IF i = job THEN "job" ELSE IF i = late THEN "app" ELSE "step"]
MCOwnerOf == [i \in MCItems |-> IF i = late THEN None ELSE IF i = step2 THEN a ELSE m]
=============================================================================
