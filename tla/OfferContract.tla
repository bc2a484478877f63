--------------------------- MODULE OfferContract ----------------------------
(***************************************************************************)
(* What an Offer promises, without versions, chains of approvers, links,   *)
(* mails and workers: it is sent only when it is approved, answered once   *)
(* and only after it was sent, the answer moves the application in the     *)
(* same step, and a stopped application has no Offer in force.             *)
(***************************************************************************)
VARIABLES
  stage,    \* of the application
  stopped,  \* it was terminated
  status,   \* of the Offer in force
  approved, \* the current version has every approval
  answer    \* of the candidate

state == <<stage, stopped, status, approved, answer>>

Ended == stopped \/ stage = "withdrawn"

ContractInit ==
  stage = "passed" /\ ~stopped /\ status = "none" /\ ~approved /\ answer = "none"

(* A new text, of a new Offer or of a version that nobody decides on now.  *)
Draft ==
  /\ ~Ended /\ status \in {"none", "withdrawn", "draft", "changes_requested", "ready_to_send", "sent"}
  /\ status' = "draft" /\ ~approved'
  /\ UNCHANGED <<stage, stopped, answer>>

Submit ==
  /\ ~Ended /\ status \in {"draft", "changes_requested"}
  /\ status' = "pending_approval" /\ ~approved' /\ UNCHANGED <<stage, stopped, answer>>

Decide ==
  /\ ~Ended /\ status = "pending_approval"
  /\ \/ status' \in {"pending_approval", "changes_requested"} /\ ~approved'
     \/ status' = "ready_to_send" /\ approved'
  /\ UNCHANGED <<stage, stopped, answer>>

Send ==
  /\ ~Ended /\ status = "ready_to_send" /\ approved
  /\ status' = "sent" /\ UNCHANGED <<stage, stopped, approved, answer>>

Answer ==
  /\ stage = "passed" /\ ~stopped /\ status = "sent" /\ approved /\ answer = "none"
  /\ \/ answer' = "accepted" /\ status' = "accepted" /\ stage' = "hired"
     \/ answer' = "declined" /\ status' = "declined" /\ stage' = "withdrawn"
  /\ UNCHANGED <<stopped, approved>>

Withdraw ==
  /\ status \notin {"none", "accepted"}
  /\ status' = "withdrawn" /\ UNCHANGED <<stage, stopped, approved, answer>>

(* A whole stop, from the hired stage too.                                 *)
Stop ==
  /\ stage \in {"passed", "hired"} /\ ~stopped
  /\ stopped' /\ stage' = "withdrawn"
  /\ status' = IF status = "none" THEN "none" ELSE "withdrawn"
  /\ UNCHANGED <<approved, answer>>

(* The application ends beside the Offer: deletion or bulk rejection.      *)
Leave ==
  /\ stage = "passed" /\ stage' \in {"withdrawn", "rejected"}
  /\ UNCHANGED <<stopped, status, approved, answer>>

ContractNext ==
  Draft \/ Submit \/ Decide \/ Send \/ Answer \/ Withdraw \/ Stop \/ Leave

ContractSpec == ContractInit /\ [][ContractNext]_state
=============================================================================
