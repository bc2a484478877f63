------------------------------ MODULE Members ------------------------------
(***************************************************************************)
(* Accounts, sessions, links, and the removal of a member with the hand-   *)
(* over of what was theirs (server/app/identity).                          *)
(*                                                                         *)
(* Commands that change an account hold its row lock and so are one step   *)
(* each; invitations, access changes and password changes first resolve    *)
(* the caller in a transaction of its own, and act on that answer later    *)
(* (pend).  A removal is also serialized by its organization's row.  Work  *)
(* is one job with its collaborators, what hangs on it, and the approval   *)
(* steps of one offer; a late screening product adds to it.  Clocks are    *)
(* left out: a session or a link may end at any time.                      *)
(***************************************************************************)
EXTENDS Integers, FiniteSets

CONSTANTS
  Users, None,
  FirstRoles,   \* the roles of every member; one without is not invited yet
  Sessions,     \* browser sessions
  Links,        \* invitation and reset links
  Items,        \* the work: KindOf says what it takes, OwnerOf whose it is at first
  KindOf, OwnerOf,
  Submitter,    \* who submitted the offer
  Creator,      \* who started the screening run
  Roles,        \* what an administrator assigns
  MaxCommands   \* bound on commands, log-outs and time-outs

ASSUME ConstantsAssumption ==
  /\ None \notin Users /\ {Submitter, Creator} \subseteq Users
  /\ FirstRoles \in [Users -> SUBSET {"system_admin", "recruiting_admin", "recruiter", "hiring_manager"}]
  /\ Sessions \subseteq Nat /\ Links \subseteq Nat /\ IsFiniteSet(Users)
  /\ KindOf \in [Items -> {"job", "app", "step"}] /\ OwnerOf \in [Items -> Users \cup {None}]
  \* a job has an owner, and submit gives each approver one step
  /\ \A i \in Items : KindOf[i] # "app" => OwnerOf[i] # None
  /\ \A i, j \in Items : KindOf[i] = "step" /\ KindOf[j] = "step" /\ i # j => OwnerOf[i] # OwnerOf[j]
  /\ Roles \subseteq {"system_admin", "recruiting_admin", "recruiter", "hiring_manager"} /\ MaxCommands \in Nat

VARIABLES
  user,    \* users: status, roles, authorization_version
  sess,    \* user_sessions: whose, the version it carries, revoked
  link,    \* password_invitations: whose, purpose, version, live
  recov,   \* the recovery request: whose, queued or processed
  pend,    \* per session, the request whose caller has been resolved
  off,     \* member_offboardings: removed, successor, status, version
  item,    \* the work: owner and whether it is unfinished
  grant,   \* collaborators of the job
  count    \* commands, log-outs and time-outs

vars == <<user, sess, link, recov, pend, off, item, grant, count>>
accounts == <<user, sess, link>>
work == <<item, grant>>

AdminRoles == {"system_admin", "recruiting_admin"}
AllRoles == AdminRoles \cup {"recruiter", "hiring_manager"}
NoPend == [op |-> "none", roles |-> {}]

Versions == Nat
UserRow == [st : {"absent", "invited", "active", "disabled"}, roles : SUBSET AllRoles, ver : Versions \ {0}]
SessionRow == [u : Users \cup {None}, ver : Versions, revoked : BOOLEAN]
LinkRow == [u : Users \cup {None}, purpose : {"none", "invitation", "reset"}, ver : Versions, live : BOOLEAN]
RecoveryRow == [u : Users \cup {None}, st : {"none", "queued", "processed"}]
OffboardingRow == [gone : BOOLEAN, succ : Users \cup {None}, st : {"none", "pending", "completed"}, ver : Versions]

TypeOK ==
  /\ user \in [Users -> UserRow] /\ sess \in [Sessions -> SessionRow] /\ link \in [Links -> LinkRow]
  /\ recov \in RecoveryRow /\ off \in [Users -> OffboardingRow]
  /\ pend \in [Sessions -> [op : {"none", "invite", "reissue", "scope", "password"}, roles : SUBSET AllRoles]]
  /\ item \in [Items -> [owner : Users \cup {None}, live : BOOLEAN]]
  /\ grant \subseteq Users /\ count \in 0..MaxCommands

Init ==
  /\ user = [u \in Users |-> [ver |-> 1, roles |-> FirstRoles[u],
                             st |-> IF FirstRoles[u] = {} THEN "absent" ELSE "active"]]
  /\ sess = [s \in Sessions |-> [u |-> None, ver |-> 0, revoked |-> FALSE]]
  /\ link = [l \in Links |-> [u |-> None, purpose |-> "none", ver |-> 0, live |-> FALSE]]
  /\ recov = [u |-> None, st |-> "none"]
  /\ pend = [s \in Sessions |-> NoPend]
  /\ off = [u \in Users |-> [gone |-> FALSE, succ |-> None, st |-> "none", ver |-> 0]]
  /\ item = [i \in Items |-> [owner |-> OwnerOf[i], live |-> OwnerOf[i] # None]]
  /\ grant = {OwnerOf[i] : i \in {j \in Items : KindOf[j] = "job"}}
  /\ count = 0

Active(u) == u # None /\ user[u].st = "active"
CanCommand == count < MaxCommands
Commanded == count' = count + 1

-----------------------------------------------------------------------------
(* Sessions.                                                                *)

(* _resolve_session: not revoked, of an active user, of its version.        *)
Usable(s) == /\ Active(sess[s].u) /\ ~sess[s].revoked
             /\ sess[s].ver = user[sess[s].u].ver
UsableLink(l) ==
  /\ link[l].live
  /\ IF link[l].purpose = "invitation" THEN user[link[l].u].st = "invited"
     ELSE Active(link[l].u) /\ link[l].ver = user[link[l].u].ver

(* login, and issue_session after the Feishu callback.                      *)
Login(s, u) ==
  /\ sess[s].u = None /\ \A r \in Sessions : sess[r].u = None => s <= r
  /\ Active(u)
  /\ sess' = [sess EXCEPT ![s] = [u |-> u, ver |-> user[u].ver, revoked |-> FALSE]]
  /\ UNCHANGED <<user, link, recov, pend, off, work, count>>

(* logout, a timeout, or a session found invalid when it is next used.      *)
EndSession(s) ==
  /\ sess[s].u # None /\ ~sess[s].revoked /\ CanCommand /\ Commanded
  /\ sess' = [sess EXCEPT ![s].revoked = TRUE]
  /\ UNCHANGED <<user, link, recov, pend, off, work>>

(* The first transaction of a two-transaction command.                      *)
Begin(s, op) ==
  /\ Usable(s) /\ pend[s].op = "none" /\ CanCommand /\ Commanded
  /\ op # "password" => user[sess[s].u].roles \cap AdminRoles # {}
  /\ pend' = [pend EXCEPT ![s] = [op |-> op, roles |-> user[sess[s].u].roles]]
  /\ UNCHANGED <<accounts, recov, off, work>>

Done(s) == pend' = [pend EXCEPT ![s] = NoPend]
Revoked(ss, u, except) == [s \in Sessions |-> IF ss[s].u = u /\ s # except THEN [ss[s] EXCEPT !.revoked = TRUE] ELSE ss[s]]

(* Mutant: the session is not looked at again under the user's lock.        *)
ChangePasswordOfCaller(s) ==
  LET u == sess[s].u
  IN /\ pend[s].op = "password" /\ Done(s)
     /\ user' = [user EXCEPT ![u].ver = @ + 1]
     /\ sess' = [Revoked(sess, u, s) EXCEPT ![s].ver = user[u].ver + 1]
     /\ UNCHANGED <<link, recov, off, work, count>>

ChangePassword(s) ==
  LET u == sess[s].u
  IN /\ pend[s].op = "password" /\ Done(s)
     /\ \/ UNCHANGED <<user, sess>>
        \/ /\ Usable(s)
           /\ user' = [user EXCEPT ![u].ver = @ + 1]
           /\ sess' = [Revoked(sess, u, s) EXCEPT ![s].ver = user[u].ver + 1]
     /\ UNCHANGED <<link, recov, off, work, count>>

-----------------------------------------------------------------------------
(* Links.                                                                   *)

Unused(l) == link[l].purpose = "none" /\ \A k \in Links : link[k].purpose = "none" => l <= k
Expired(ls, u, purposes) == [l \in Links |-> IF ls[l].u = u /\ ls[l].purpose \in purposes THEN [ls[l] EXCEPT !.live = FALSE] ELSE ls[l]]
Issued(ls, l, u, purpose) ==
  [ls EXCEPT ![l] = [u |-> u, purpose |-> purpose, live |-> TRUE,
                     ver |-> IF purpose = "reset" THEN user[u].ver ELSE 0]]

(* Which roles an administrator may hand out, invite or remove.             *)
May(roles, target) == target # {} /\ ("system_admin" \in roles \/ target \cap AdminRoles = {})

(* invite_user.  The unique e-mail makes a second invitation fail.          *)
InviteUser(s, u, role) ==
  /\ pend[s].op = "invite" /\ Done(s)
  /\ user[u].st = "absent" /\ May(pend[s].roles, {role})
  /\ user' = [user EXCEPT ![u].st = "invited", ![u].roles = {role}]
  /\ \E l \in Links : Unused(l) /\ link' = Issued(link, l, u, "invitation")
  /\ UNCHANGED <<sess, recov, off, work, count>>

(* reissue_user_invitation.                                                 *)
Reissue(s, u) ==
  /\ pend[s].op = "reissue" /\ Done(s)
  /\ user[u].st = "invited" /\ May(pend[s].roles, user[u].roles)
  /\ \E l \in Links : Unused(l) /\ link' = Issued(Expired(link, u, {"invitation"}), l, u, "invitation")
  /\ UNCHANGED <<user, sess, recov, off, work, count>>

(* issue_user_password_reset resolves its caller again under the locks.     *)
IssueReset(s, u) ==
  /\ Usable(s) /\ u # sess[s].u /\ Active(u) /\ CanCommand /\ Commanded
  /\ user[sess[s].u].roles \cap AdminRoles # {}
  /\ May(user[sess[s].u].roles, user[u].roles)
  /\ \E l \in Links : Unused(l) /\ link' = Issued(Expired(link, u, {"reset"}), l, u, "reset")
  /\ UNCHANGED <<user, sess, recov, pend, off, work>>

(* request_password_reset: anybody, of any address, is queued.              *)
AskRecovery(u) ==
  /\ recov.st # "queued" /\ recov.u = None
  /\ recov' = [u |-> u, st |-> "queued"] /\ CanCommand /\ Commanded
  /\ UNCHANGED <<accounts, pend, off, work>>

(* PasswordRecoveryJobHandler: one link or, under a limit, none; a dead job *)
(* is marked processed by its callback.                                     *)
ProcessRecovery ==
  /\ recov.st = "queued" /\ recov' = [recov EXCEPT !.st = "processed"]
  /\ \/ UNCHANGED link
     \/ Active(recov.u) /\ \E l \in Links : Unused(l) /\ link' = Issued(link, l, recov.u, "reset")
  /\ UNCHANGED <<user, sess, pend, off, work, count>>

LinkEnds(l) ==
  /\ link[l].live /\ link' = [link EXCEPT ![l].live = FALSE] /\ CanCommand /\ Commanded
  /\ UNCHANGED <<user, sess, recov, pend, off, work>>

AcceptInvitation(l) ==
  /\ link[l].purpose = "invitation" /\ UsableLink(l)
  /\ user' = [user EXCEPT ![link[l].u].st = "active"]
  /\ link' = [link EXCEPT ![l].live = FALSE]
  /\ UNCHANGED <<sess, recov, pend, off, work, count>>

AcceptReset(l) ==
  LET u == link[l].u
  IN /\ link[l].purpose = "reset" /\ UsableLink(l)
     /\ user' = [user EXCEPT ![u].ver = @ + 1]
     /\ link' = Expired(link, u, {"reset"})
     /\ sess' = Revoked(sess, u, 0)
     /\ UNCHANGED <<recov, pend, off, work, count>>

(* The Feishu callback activates an invited member whose address it finds.  *)
FeishuActivates(u) ==
  /\ user[u].st = "invited"
  /\ user' = [user EXCEPT ![u].st = "active"]
  /\ UNCHANGED <<sess, link, recov, pend, off, work, count>>

-----------------------------------------------------------------------------
(* Access and removal.                                                      *)

(* update_user_recruiting_scope: the caller is the one resolved before.     *)
UpdateScope(s, u, role) ==
  /\ pend[s].op = "scope" /\ Done(s)
  /\ user[u].st # "absent"
  /\ "system_admin" \notin pend[s].roles => user[u].roles \cap AdminRoles = {} /\ role = "same"
  /\ role # "same" => u # sess[s].u
  /\ user' = [user EXCEPT ![u].ver = @ + 1, ![u].roles = IF role = "same" THEN @ ELSE {role}]
  /\ UNCHANGED <<sess, link, recov, off, work, count>>

(* Mutant: the offboarding record is not looked for.                        *)
BootstrapAnyone(u) ==
  /\ user[u].st # "absent" /\ CanCommand /\ Commanded
  /\ user' = [user EXCEPT ![u].st = "active", ![u].ver = @ + 1, ![u].roles = @ \cup {"system_admin"}]
  /\ UNCHANGED <<sess, link, recov, pend, off, work>>

(* bootstrap_system_admin, by the operator, of an account there is.         *)
Bootstrap(u) ==
  /\ user[u].st # "absent" /\ ~off[u].gone /\ CanCommand /\ Commanded
  /\ user' = [user EXCEPT ![u].st = "active", ![u].ver = @ + 1, ![u].roles = @ \cup {"system_admin"}]
  /\ UNCHANGED <<sess, link, recov, pend, off, work>>

(* handover_destination, in a state os of the records and us of the users.  *)
Destination(os, us, u) ==
  LET N == Cardinality(Users)
      d[n \in 0..N, x \in Users] == IF us[x].st = "active" THEN x
         ELSE IF n = 0 \/ us[x].st # "disabled" \/ os[x].succ = None THEN None
         ELSE d[n - 1, os[x].succ]
  IN d[N, u]

(* What a successor may take: the role, and the job where it takes one.     *)
Needs(kind) == IF kind = "step" THEN {"hiring_manager", "recruiting_admin"} ELSE {"recruiter", "recruiting_admin"}
Able(us, x, kind) == x \in Users /\ us[x].st = "active" /\ us[x].roles \cap Needs(kind) # {}
Unfinished(u) == {i \in Items : item[i].live /\ item[i].owner = u}
AddedGrant(us, u, x) ==
  IF Able(us, x, "job") /\ (u \in grant \/ \E i \in Unfinished(u) : KindOf[i] = "job" /\ "recruiting_admin" \notin us[x].roles)
  THEN {x} ELSE {}
Scoped(us, gs, x) == "recruiting_admin" \in us[x].roles \/ x \in gs

Moves(us, u, x, i) ==
  /\ Able(us, x, KindOf[i])
  /\ KindOf[i] = "app" => Scoped(us, grant \cup AddedGrant(us, u, x), x)
  /\ KindOf[i] = "step" => x # Submitter /\ \A j \in Items : KindOf[j] = "step" => item[j].owner # x

(* apply_handover.                                                          *)
Given(moved, x) == [i \in Items |-> IF i \in moved THEN [item[i] EXCEPT !.owner = x] ELSE item[i]]

(* Mutant: somebody who has left will do.                                   *)
AnySuccessor(u, x) == x # u /\ user[x].st # "absent"

(* _successor: another member, active.                                      *)
Successor(u, x) == x # u /\ Active(x)

(* offboard_member.  The plan it was drawn from must be the one there is    *)
(* now, or nothing happens; the revocation stands even if the handover      *)
(* fails.                                                                   *)
Offboard(s, u, x, only, fails) ==
  LET actor == sess[s].u
      first == ~off[u].gone
      to    == IF only THEN None ELSE x
      us    == IF first THEN [user EXCEPT ![u].st = "disabled", ![u].ver = @ + 1] ELSE user
      moved == IF only \/ fails THEN {} ELSE {i \in Unfinished(u) : Moves(us, u, x, i)}
      os    == [off EXCEPT ![u].gone = TRUE, ![u].ver = @ + 1, ![u].succ = IF first \/ ~only THEN to ELSE @]
      left  == Unfinished(u) \ moved
  IN /\ user[u].st # "absent" /\ CanCommand /\ Commanded
     /\ Usable(s) /\ user[actor].roles \cap AdminRoles # {} /\ u # actor
     /\ May(user[actor].roles, user[u].roles)
     /\ "system_admin" \in user[u].roles /\ Active(u) =>
          Cardinality({v \in Users : Active(v) /\ "system_admin" \in user[v].roles}) > 1
     /\ (x # None => Successor(u, x)) /\ (x = None => only)
     /\ user' = us
     /\ sess' = IF first THEN Revoked(sess, u, 0) ELSE sess
     /\ link' = IF first THEN Expired(link, u, {"invitation", "reset"}) ELSE link
     /\ item' = Given(moved, x)
     /\ grant' = IF only \/ fails THEN grant ELSE grant \cup AddedGrant(us, u, x)
     /\ off' = [os EXCEPT ![u].st = IF left = {} /\ (u = Creator => Destination(os, us, u) # None) THEN "completed" ELSE "pending"]
     /\ UNCHANGED <<recov, pend>>

-----------------------------------------------------------------------------
(* Work.                                                                    *)

(* Its owner finishes it: a decided step keeps its approver.                *)
Finish(s, i) ==
  /\ Usable(s) /\ item[i].live /\ item[i].owner = sess[s].u /\ CanCommand /\ Commanded
  /\ item' = [item EXCEPT ![i].live = FALSE]
  /\ UNCHANGED <<accounts, recov, pend, off, grant>>

(* Mutant: the run's own creator gets the product.                          *)
OperatorIsCreator(u) == u

(* resolve_operational_user_id: the creator, or a destination of the        *)
(* handover that can do the work.                                           *)
Operator(u) ==
  LET d == Destination(off, user, u)
  IN IF Active(u) THEN u ELSE IF Able(user, d, "app") /\ Scoped(user, grant, d) THEN d ELSE None

(* A late product of the screening run, or of the talent pool.              *)
Produce(i) ==
  /\ item[i].owner = None /\ Operator(Creator) # None
  /\ item' = [item EXCEPT ![i] = [owner |-> Operator(Creator), live |-> TRUE]]
  /\ UNCHANGED <<accounts, recov, pend, off, grant, count>>

-----------------------------------------------------------------------------
Next ==
  \/ ProcessRecovery
  \/ \E u \in Users : AskRecovery(u) \/ FeishuActivates(u) \/ Bootstrap(u)
  \/ \E l \in Links : LinkEnds(l) \/ AcceptInvitation(l) \/ AcceptReset(l)
  \/ \E i \in Items : Produce(i)
  \/ \E s \in Sessions :
       \/ EndSession(s) \/ ChangePassword(s)
       \/ \E op \in {"invite", "reissue", "scope", "password"} : Begin(s, op)
       \/ \E i \in Items : Finish(s, i)
       \/ \E u \in Users :
            \/ Login(s, u) \/ Reissue(s, u) \/ IssueReset(s, u)
            \/ \E r \in Roles : InviteUser(s, u, r)
            \/ \E r \in Roles \cup {"same"} : UpdateScope(s, u, r)
            \/ \E x \in Users \cup {None}, only, fails \in BOOLEAN : Offboard(s, u, x, only, fails)

Spec == Init /\ [][Next]_vars

-----------------------------------------------------------------------------
(* Properties.                                                              *)

(* A removed member is out: disabled, without a session or a link that      *)
(* still works, whatever logins, invitations, resets, Feishu callbacks and  *)
(* bootstraps were under way.                                               *)
RemovedIsOut ==
  \A u \in Users : off[u].gone =>
    /\ user[u].st = "disabled"
    /\ \A s \in Sessions : sess[s].u = u => ~Usable(s)
    /\ \A l \in Links : link[l].u = u => ~UsableLink(l)

(* A session or a link that has stopped working never works again: what a   *)
(* reset, a new password or a change of access has ended stays ended.       *)
NothingRevives ==
  [][/\ \A s \in Sessions : sess[s].u # None /\ ~Usable(s) => ~Usable(s)'
     /\ \A l \in Links : link[l].u # None /\ ~UsableLink(l) => ~UsableLink(l)']_vars

(* At most one invitation of a member works.                                *)
OneInvitation ==
  \A k, l \in Links :
    (UsableLink(k) /\ UsableLink(l) /\ link[k].u = link[l].u
       /\ link[k].purpose = "invitation" /\ link[l].purpose = "invitation") => k = l

(* Access ends, and is granted once.                                        *)
AccessSafety == RemovedIsOut /\ OneInvitation

(* Following the handover records from a removed member never comes back:   *)
(* those whom the records may lead to are some set of others.               *)
ChainEnds ==
  \A u \in Users : off[u].gone /\ off[u].succ # None =>
    \E S \in SUBSET (Users \ {u}) :
      /\ off[u].succ \in S
      /\ \A v \in S : user[v].st = "disabled" /\ off[v].succ # None => off[v].succ \in S

(* However often work is handed over, no offer is approved twice by one     *)
(* person, and nobody is made an approver of what they submitted.           *)
FairApproval ==
  \A i, j \in Items : KindOf[i] = "step" /\ KindOf[j] = "step" =>
    /\ item[i].owner = Submitter => OwnerOf[i] = Submitter
    /\ i # j => item[i].owner # item[j].owner

(* Work that changed hands, however often, is in the right ones.            *)
HandoverSafety == ChainEnds /\ FairApproval

(* A late product is given to a member who is there to do it.               *)
LateWorkHasOwner ==
  [][\A i \in Items : item[i].owner = None /\ item'[i].owner # None => Active(item'[i].owner)]_vars

(* There is always a system administrator (violated: see README).           *)
AdminRemains == \E u \in Users : Active(u) /\ "system_admin" \in user[u].roles

-----------------------------------------------------------------------------
(* The inductive invariant.                                                 *)

(* Only removal disables an account, and nothing enables it again.          *)
GoneIsDisabled ==
  \A u \in Users : (off[u].gone <=> user[u].st = "disabled") /\ (off[u].succ # None => off[u].gone)

(* Sessions and links are of members who once were active or invited, and   *)
(* carry no version that is yet to come.                                    *)
SessionOK(s) ==
  sess[s].u # None => user[sess[s].u].st \in {"active", "disabled"} /\ sess[s].ver <= user[sess[s].u].ver
LinkOK(l) ==
  /\ link[l].purpose = "none" <=> link[l].u = None
  /\ link[l].purpose = "none" => ~link[l].live
  /\ link[l].u # None => user[link[l].u].st # "absent"
  /\ link[l].purpose = "reset" =>
       user[link[l].u].st \in {"active", "disabled"} /\ link[l].ver <= user[link[l].u].ver
OneLiveInvitation ==
  \A k, l \in Links :
    (/\ link[k].live /\ link[l].live /\ link[k].u = link[l].u
     /\ link[k].purpose = "invitation" /\ link[l].purpose = "invitation") => k = l

(* A step always has an approver.                                           *)
StepsOwned == \A i \in Items : KindOf[i] = "step" => item[i].owner # None

IInv ==
  /\ TypeOK /\ GoneIsDisabled
  /\ \A s \in Sessions : SessionOK(s)
  /\ \A l \in Links : LinkOK(l)
  /\ OneLiveInvitation /\ ChainEnds /\ StepsOwned /\ FairApproval
=============================================================================
