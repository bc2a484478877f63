--------------------------- MODULE MembersProofs ---------------------------
(***************************************************************************)
(* Proofs about Members, of any members, sessions, links and work.         *)
(*                                                                         *)
(* Every step moves the accounts, sessions and links in an orderly way     *)
(* (Orderly); whatever moves so keeps the invariant and revives nothing.   *)
(***************************************************************************)
EXTENDS Members, TLAPS

PendRow == [op : {"none", "invite", "reissue", "scope", "password"}, roles : SUBSET AllRoles]
ItemRow == [owner : Users \cup {None}, live : BOOLEAN]

LEMMA Types ==
  ASSUME IInv
  PROVE  /\ user \in [Users -> UserRow] /\ sess \in [Sessions -> SessionRow] /\ link \in [Links -> LinkRow]
         /\ recov \in RecoveryRow /\ off \in [Users -> OffboardingRow] /\ pend \in [Sessions -> PendRow]
         /\ item \in [Items -> ItemRow] /\ grant \in SUBSET Users /\ count \in 0..MaxCommands
         /\ \A u \in Users : user[u].ver \in Nat
         /\ \A s \in Sessions : sess[s].u \in Users \cup {None} /\ sess[s].ver \in Nat
         /\ \A l \in Links : link[l].u \in Users \cup {None} /\ link[l].ver \in Nat
  BY DEF IInv, TypeOK, UserRow, SessionRow, LinkRow, Versions, PendRow, ItemRow

-----------------------------------------------------------------------------
(* What a step may do to an account, a session and a link.                  *)
AccountMoves(u) ==
  /\ user'[u].ver >= user[u].ver
  /\ user[u].st = "disabled" => user'[u].st = "disabled"
  /\ user[u].st = "active" => user'[u].st \in {"active", "disabled"}
  /\ user[u].st # "absent" => user'[u].st # "absent"
  /\ user'[u].st = "invited" => user[u].st \in {"absent", "invited"}
SessionMoves(s) ==
  \/ /\ sess'[s].u = sess[s].u /\ sess'[s].ver = sess[s].ver
     /\ sess[s].revoked => sess'[s].revoked
  \/ Usable(s) /\ sess'[s].u = sess[s].u /\ user'[sess[s].u].st = "active" /\ sess'[s].ver = user'[sess[s].u].ver
  \/ sess[s].u = None /\ user'[sess'[s].u].st = "active" /\ sess'[s].ver = user'[sess'[s].u].ver
LinkMoves(l) ==
  \/ /\ link'[l].u = link[l].u /\ link'[l].purpose = link[l].purpose /\ link'[l].ver = link[l].ver
     /\ link'[l].live => link[l].live
  \/ /\ link[l].u = None /\ link'[l].u # None
     /\ \/ link'[l].purpose = "invitation" /\ user'[link'[l].u].st = "invited"
        \/ /\ link'[l].purpose = "reset" /\ user'[link'[l].u].st = "active"
           /\ link'[l].ver = user'[link'[l].u].ver

Moved ==
  /\ \A u \in Users : AccountMoves(u)
  /\ \A s \in Sessions : SessionMoves(s)
  /\ \A l \in Links : LinkMoves(l)
Orderly == TypeOK' /\ GoneIsDisabled' /\ Moved /\ OneLiveInvitation'

(* A session that moves so stays well formed and does not revive.           *)
LEMMA SessionKept ==
  ASSUME IInv, Orderly, NEW s \in Sessions
  PROVE  SessionOK(s)' /\ (sess[s].u # None /\ ~Usable(s) => ~Usable(s)')
<1>1. /\ sess[s].u \in Users \cup {None} /\ sess[s].ver \in Nat /\ sess[s].revoked \in BOOLEAN
      /\ sess'[s].u \in Users \cup {None} /\ sess'[s].ver \in Nat /\ sess'[s].revoked \in BOOLEAN
      /\ \A u \in Users : user[u].ver \in Nat /\ user'[u].ver \in Nat
  BY DEF Orderly, IInv, TypeOK, SessionRow, UserRow, Versions
<1>2. SessionOK(s) /\ SessionMoves(s) /\ \A u \in Users : AccountMoves(u)
  BY DEF IInv, Orderly, Moved
<1>3. CASE sess[s].u = None
  BY <1>1, <1>2, <1>3 DEF SessionOK, SessionMoves, Usable, Active
<1>4. CASE sess[s].u # None
  <2>1. /\ sess'[s].u = sess[s].u /\ sess[s].u \in Users /\ user[sess[s].u].st \in {"active", "disabled"}
        /\ sess[s].ver <= user[sess[s].u].ver /\ AccountMoves(sess[s].u)
    BY <1>1, <1>2, <1>4 DEF SessionOK, SessionMoves
  <2>2. SessionOK(s)'
    BY <1>1, <1>2, <2>1 DEF SessionOK, SessionMoves, AccountMoves
  <2>3. ASSUME ~Usable(s), Usable(s)' PROVE FALSE
    <3>1. sess'[s].ver = sess[s].ver /\ ~sess[s].revoked
      BY <1>1, <1>2, <1>4, <2>3 DEF SessionMoves, Usable
    <3>2. user[sess[s].u].st = "active"
      BY <2>1, <2>3 DEF Usable, Active, AccountMoves
    <3>3. sess[s].ver = user[sess[s].u].ver
      BY <1>1, <2>1, <2>3, <3>1 DEF Usable, AccountMoves
    <3> QED
      BY <1>4, <2>3, <3>1, <3>2, <3>3 DEF Usable, Active
  <2> QED
    BY <2>2, <2>3
<1> QED
  BY <1>3, <1>4

(* So does a link.                                                          *)
LEMMA LinkKept ==
  ASSUME IInv, Orderly, NEW l \in Links
  PROVE  LinkOK(l)' /\ (link[l].u # None /\ ~UsableLink(l) => ~UsableLink(l)')
<1>1. /\ link[l].u \in Users \cup {None} /\ link[l].ver \in Nat /\ link[l].live \in BOOLEAN
      /\ link'[l].u \in Users \cup {None} /\ link'[l].ver \in Nat /\ link'[l].live \in BOOLEAN
      /\ link[l].purpose \in {"none", "invitation", "reset"}
      /\ \A u \in Users : user[u].ver \in Nat /\ user'[u].ver \in Nat
  BY DEF Orderly, IInv, TypeOK, LinkRow, UserRow, Versions
<1>2. LinkOK(l) /\ LinkMoves(l) /\ \A u \in Users : AccountMoves(u)
  BY DEF IInv, Orderly, Moved
<1>3. CASE link[l].u = None
  BY <1>1, <1>2, <1>3 DEF LinkOK, LinkMoves
<1>4. CASE link[l].u # None
  <2>1. /\ link'[l].u = link[l].u /\ link'[l].purpose = link[l].purpose /\ link'[l].ver = link[l].ver
        /\ link'[l].live => link[l].live
    BY <1>2, <1>4 DEF LinkMoves
  <2>2. /\ link[l].u \in Users /\ link[l].purpose \in {"invitation", "reset"} /\ user[link[l].u].st # "absent"
        /\ AccountMoves(link[l].u)
    BY <1>1, <1>2, <1>4 DEF LinkOK
  <2>3. LinkOK(l)'
    BY <1>1, <1>2, <1>4, <2>1, <2>2 DEF LinkOK, AccountMoves
  <2>4. ASSUME ~UsableLink(l), UsableLink(l)' PROVE FALSE
    <3>1. link[l].live
      BY <2>1, <2>4 DEF UsableLink
    <3>2. CASE link[l].purpose = "invitation"
      BY <2>1, <2>2, <2>4, <3>1, <3>2 DEF UsableLink, AccountMoves
    <3>3. CASE link[l].purpose = "reset"
      <4>1. user'[link[l].u].st = "active" /\ link[l].ver = user'[link[l].u].ver
        BY <2>1, <2>4, <3>3 DEF UsableLink, Active
      <4>2. user[link[l].u].st = "active" /\ link[l].ver <= user[link[l].u].ver
        BY <1>2, <2>2, <3>3, <4>1 DEF LinkOK, AccountMoves
      <4>3. link[l].ver = user[link[l].u].ver
        BY <1>1, <2>2, <4>1, <4>2 DEF AccountMoves
      <4> QED
        BY <1>4, <2>4, <3>1, <3>3, <4>2, <4>3 DEF UsableLink, Active
    <3> QED
      BY <2>2, <3>2, <3>3
  <2> QED
    BY <2>3, <2>4
<1> QED
  BY <1>3, <1>4

(* Tables a step leaves alone.                                              *)
LEMMA Same ==
  ASSUME IInv
  PROVE  /\ UNCHANGED user => \A u \in Users : AccountMoves(u)
         /\ UNCHANGED <<user, off>> => GoneIsDisabled'
         /\ UNCHANGED sess => \A s \in Sessions : SessionMoves(s)
         /\ UNCHANGED link => (\A l \in Links : LinkMoves(l)) /\ OneLiveInvitation'
<1>1. UNCHANGED user => \A u \in Users : AccountMoves(u)
  BY Types DEF AccountMoves
<1>2. UNCHANGED <<user, off>> => GoneIsDisabled'
  BY DEF GoneIsDisabled, IInv
<1>3. UNCHANGED sess => \A s \in Sessions : SessionMoves(s)
  BY DEF SessionMoves
<1>4. UNCHANGED link => (\A l \in Links : LinkMoves(l)) /\ OneLiveInvitation'
  BY DEF LinkMoves, OneLiveInvitation, IInv
<1> QED
  BY <1>1, <1>2, <1>3, <1>4

(* What is revoked or expired moves in an orderly way.                      *)
LEMMA RevokedMoves ==
  ASSUME IInv, NEW u, NEW x, NEW s \in Sessions, sess' = Revoked(sess, u, x)
  PROVE  SessionMoves(s) /\ sess' \in [Sessions -> SessionRow]
<1>1. sess'[s] = sess[s] \/ sess'[s] = [sess[s] EXCEPT !.revoked = TRUE]
  BY Types DEF Revoked
<1>2. SessionMoves(s)
  BY <1>1, Types DEF SessionMoves, SessionRow
<1>3. ASSUME NEW t \in Sessions PROVE [sess[t] EXCEPT !.revoked = TRUE] \in SessionRow /\ sess[t] \in SessionRow
  BY Types DEF SessionRow
<1>4. sess' \in [Sessions -> SessionRow]
  BY <1>3 DEF Revoked
<1> QED
  BY <1>2, <1>4

LEMMA ExpiredIs ==
  ASSUME IInv, NEW u, NEW purposes
  PROVE  /\ Expired(link, u, purposes) \in [Links -> LinkRow]
         /\ \A l \in Links :
              LET new == Expired(link, u, purposes)[l]
              IN /\ new.u = link[l].u /\ new.purpose = link[l].purpose /\ new.ver = link[l].ver
                 /\ new.live => link[l].live
                 /\ link[l].u = u /\ link[l].purpose \in purposes => ~new.live
<1>1. ASSUME NEW l \in Links
      PROVE  /\ [link[l] EXCEPT !.live = FALSE] \in LinkRow /\ link[l] \in LinkRow
             /\ [link[l] EXCEPT !.live = FALSE].u = link[l].u
             /\ [link[l] EXCEPT !.live = FALSE].purpose = link[l].purpose
             /\ [link[l] EXCEPT !.live = FALSE].ver = link[l].ver
             /\ [link[l] EXCEPT !.live = FALSE].live = FALSE
  BY Types DEF LinkRow
<1> QED
  BY <1>1 DEF Expired

LEMMA ExpiredMoves ==
  ASSUME IInv, NEW u, NEW purposes, link' = Expired(link, u, purposes)
  PROVE  (\A l \in Links : LinkMoves(l)) /\ OneLiveInvitation'
  BY ExpiredIs DEF LinkMoves, OneLiveInvitation, IInv

(* A new link is of an unused row.                                          *)
LEMMA IssuedIs ==
  ASSUME IInv, NEW ls \in [Links -> LinkRow], NEW l \in Links, NEW u \in Users, NEW purpose \in {"invitation", "reset"},
         NEW new, new = Issued(ls, l, u, purpose)
  PROVE  /\ new \in [Links -> LinkRow]
         /\ new[l].u = u /\ new[l].purpose = purpose
         /\ purpose = "reset" => new[l].ver = user[u].ver
         /\ \A k \in Links \ {l} : new[k] = ls[k]
<1>1. [u |-> u, purpose |-> purpose, live |-> TRUE, ver |-> IF purpose = "reset" THEN user[u].ver ELSE 0] \in LinkRow
  BY Types DEF LinkRow, Versions
<1> QED
  BY <1>1 DEF Issued

-----------------------------------------------------------------------------
(* Every step is orderly.                                                   *)

(* A step on one account.                                                   *)
LEMMA OneAccount ==
  ASSUME IInv, NEW u \in Users, NEW row \in UserRow, user' = [user EXCEPT ![u] = row],
         row.ver = user[u].ver, row.st # "disabled", row.st # "absent",
         user[u].st # "disabled", user[u].st = "active" => row.st = "active",
         row.st = "invited" => user[u].st \in {"absent", "invited"}, UNCHANGED off
  PROVE  user' \in [Users -> UserRow] /\ GoneIsDisabled' /\ \A v \in Users : AccountMoves(v)
<1>1. user' \in [Users -> UserRow] /\ user'[u] = row /\ \A v \in Users \ {u} : user'[v] = user[v]
  BY Types
<1>2. GoneIsDisabled'
  BY <1>1 DEF GoneIsDisabled, IInv
<1>3. \A v \in Users : AccountMoves(v)
  BY <1>1, Types DEF AccountMoves
<1> QED
  BY <1>1, <1>2, <1>3

(* A new version of an account whose state and roles stay or change.        *)
LEMMA NewVersion ==
  ASSUME IInv, NEW u \in Users, user[u].st # "absent", NEW st \in {"invited", "active", "disabled"},
         NEW roles \in SUBSET AllRoles,
         user' = [user EXCEPT ![u].ver = @ + 1, ![u].st = st, ![u].roles = roles]
  PROVE  /\ user' \in [Users -> UserRow] /\ user'[u].ver = user[u].ver + 1
         /\ user'[u].st = st /\ \A v \in Users \ {u} : user'[v] = user[v]
<1>1. user[u].ver \in Nat \ {0} /\ user[u] \in UserRow
  BY Types DEF UserRow, Versions
<1> DEFINE n   == user[u].ver + 1
           one == [user[u] EXCEPT !.ver = n]
           two == [one EXCEPT !.st = st]
           row == [two EXCEPT !.roles = roles]
<1>2. user' = [user EXCEPT ![u] = row]
  BY Types, Zenon
<1>3. n \in Versions \ {0}
  BY <1>1 DEF Versions
<1>4. row \in UserRow /\ row.ver = n /\ row.st = st
  <2> HIDE DEF n
  <2>1. one \in UserRow /\ one.ver = n
    BY <1>1, <1>3 DEF UserRow
  <2> HIDE DEF one
  <2>2. two \in UserRow /\ two.ver = n /\ two.st = st
    BY <2>1 DEF UserRow
  <2> HIDE DEF two
  <2> QED
    BY <2>2 DEF UserRow
<1> HIDE DEF row, n
<1>5. user' \in [Users -> UserRow] /\ user'[u] = row /\ \A v \in Users \ {u} : user'[v] = user[v]
  BY <1>2, <1>4, Types
<1> QED
  BY <1>4, <1>5 DEF n

LEMMA LoginOrderly ==
  ASSUME IInv, NEW s \in Sessions, NEW u \in Users, Login(s, u)
  PROVE  Orderly
<1>1. UNCHANGED <<user, link, recov, pend, off, item, grant, count>>
  BY DEF Login, work
<1>2. user[u].ver \in Nat /\ user[u].st = "active" /\ sess[s].u = None
  BY Types DEF Login, Active
<1>3. sess' = [sess EXCEPT ![s] = [u |-> u, ver |-> user[u].ver, revoked |-> FALSE]]
  BY DEF Login
<1>4. sess' \in [Sessions -> SessionRow]
  BY <1>2, <1>3, Types DEF SessionRow, Versions
<1>5. ASSUME NEW t \in Sessions PROVE SessionMoves(t)
  BY <1>1, <1>2, <1>3, Types DEF SessionMoves
<1> QED
  BY <1>1, <1>4, <1>5, Same DEF Orderly, Moved, IInv, TypeOK

LEMMA EndSessionOrderly ==
  ASSUME IInv, NEW s \in Sessions, EndSession(s)
  PROVE  Orderly
<1>1. /\ UNCHANGED <<user, link, recov, pend, off, item, grant>> /\ count < MaxCommands /\ count' = count + 1
      /\ sess' = [sess EXCEPT ![s].revoked = TRUE]
  BY DEF EndSession, work, CanCommand, Commanded
<1>2. sess' \in [Sessions -> SessionRow]
  <2>1. [sess[s] EXCEPT !.revoked = TRUE] \in SessionRow
    BY Types DEF SessionRow
  <2> QED
    BY <1>1, <2>1, Types
<1>3. ASSUME NEW t \in Sessions PROVE SessionMoves(t)
  BY <1>1, Types DEF SessionMoves, SessionRow
<1>4. count' \in 0..MaxCommands
  BY <1>1, Types, ConstantsAssumption
<1> QED
  BY <1>1, <1>2, <1>3, <1>4, Same DEF Orderly, Moved, IInv, TypeOK

LEMMA BeginOrderly ==
  ASSUME IInv, NEW s \in Sessions, NEW op \in {"invite", "reissue", "scope", "password"}, Begin(s, op)
  PROVE  Orderly
<1>1. /\ UNCHANGED <<user, sess, link, recov, off, item, grant>> /\ count < MaxCommands /\ count' = count + 1
      /\ pend' = [pend EXCEPT ![s] = [op |-> op, roles |-> user[sess[s].u].roles]] /\ sess[s].u \in Users
  BY Types DEF Begin, accounts, work, CanCommand, Commanded, Usable, Active
<1>2. pend' \in [Sessions -> PendRow]
  BY <1>1, Types DEF PendRow, UserRow
<1>3. count' \in 0..MaxCommands
  BY <1>1, Types, ConstantsAssumption
<1> QED
  BY <1>1, <1>2, <1>3, Same DEF Orderly, Moved, IInv, TypeOK, PendRow

LEMMA DoneTyped == ASSUME IInv, NEW s \in Sessions, Done(s) PROVE pend' \in [Sessions -> PendRow]
<1>1. NoPend \in PendRow
  BY DEF NoPend, PendRow
<1> QED
  BY <1>1, Types DEF Done

LEMMA ChangePasswordOrderly ==
  ASSUME IInv, NEW s \in Sessions, ChangePassword(s)
  PROVE  Orderly
<1> DEFINE u == sess[s].u
<1>1. UNCHANGED <<link, recov, off, item, grant, count>> /\ pend' \in [Sessions -> PendRow]
  BY DoneTyped DEF ChangePassword, work
<1>2. CASE UNCHANGED <<user, sess>>
  BY <1>1, <1>2, Same DEF Orderly, Moved, IInv, TypeOK, PendRow
<1>3. CASE /\ Usable(s) /\ user' = [user EXCEPT ![u].ver = @ + 1]
           /\ sess' = [Revoked(sess, u, s) EXCEPT ![s].ver = user[u].ver + 1]
  <2>1. u \in Users /\ user[u].st = "active" /\ user[u].ver \in Nat /\ user[u].roles \in SUBSET AllRoles
    BY <1>3, Types DEF Usable, Active, UserRow
  <2>2. user' = [user EXCEPT ![u].ver = @ + 1, ![u].st = "active", ![u].roles = user[u].roles]
    BY <1>3, <2>1, Types DEF UserRow
  <2>3. /\ user' \in [Users -> UserRow] /\ user'[u].ver = user[u].ver + 1
        /\ user'[u].st = "active" /\ \A v \in Users \ {u} : user'[v] = user[v]
    BY <2>1, <2>2, NewVersion
  <2>4. GoneIsDisabled' /\ \A v \in Users : AccountMoves(v)
    BY <1>1, <2>1, <2>3, Types DEF GoneIsDisabled, IInv, AccountMoves
  <2>5. ASSUME NEW t \in Sessions
        PROVE  /\ t = s => sess'[t] = [sess[t] EXCEPT !.ver = user[u].ver + 1]
               /\ t # s => sess'[t] = sess[t] \/ sess'[t] = [sess[t] EXCEPT !.revoked = TRUE]
    BY <1>3, Types DEF Revoked
  <2>6. sess' \in [Sessions -> SessionRow]
    <3>1. sess' = [t \in Sessions |-> sess'[t]]
      BY <1>3 DEF Revoked
    <3>2. ASSUME NEW t \in Sessions PROVE sess'[t] \in SessionRow
      <4> DEFINE n == user[u].ver + 1
      <4>1. n \in Versions
        BY <2>1 DEF Versions
      <4> HIDE DEF n
      <4>2. sess[t] \in SessionRow
        BY Types
      <4>3. [sess[t] EXCEPT !.ver = n] \in SessionRow
        BY <4>1, <4>2 DEF SessionRow
      <4>4. [sess[t] EXCEPT !.revoked = TRUE] \in SessionRow
        BY <4>2 DEF SessionRow
      <4> QED
        BY <2>5, <4>2, <4>3, <4>4 DEF n
    <3> QED
      BY <3>1, <3>2
  <2>7. ASSUME NEW t \in Sessions PROVE SessionMoves(t)
    <3>1. CASE t = s
      <4>1. sess'[s].u = u /\ sess'[s].ver = user[u].ver + 1
        BY <2>5, <3>1, Types DEF SessionRow
      <4> QED
        BY <1>3, <2>3, <3>1, <4>1 DEF SessionMoves
    <3>2. CASE t # s
      <4>1. /\ sess'[t].u = sess[t].u /\ sess'[t].ver = sess[t].ver
            /\ sess[t].revoked => sess'[t].revoked
        BY <2>5, <3>2, Types DEF SessionRow
      <4> QED
        BY <4>1 DEF SessionMoves
    <3> QED
      BY <3>1, <3>2
  <2> QED
    BY <1>1, <2>3, <2>4, <2>6, <2>7, Same DEF Orderly, Moved, IInv, TypeOK, PendRow
<1> QED
  BY <1>2, <1>3 DEF ChangePassword

(* An invitation of a member who is absent is the only one.                 *)
LEMMA InviteUserOrderly ==
  ASSUME IInv, NEW s \in Sessions, NEW u \in Users, NEW r \in Roles, InviteUser(s, u, r)
  PROVE  Orderly
<1>1. UNCHANGED <<sess, recov, off, item, grant, count>> /\ pend' \in [Sessions -> PendRow] /\ user[u].st = "absent"
  BY DoneTyped DEF InviteUser, work
<1>2. PICK l \in Links : Unused(l) /\ link' = Issued(link, l, u, "invitation")
  BY DEF InviteUser
<1>3. /\ link' \in [Links -> LinkRow] /\ link'[l].u = u /\ link'[l].purpose = "invitation"
      /\ \A k \in Links \ {l} : link'[k] = link[k]
  BY <1>2, IssuedIs, Types
<1> DEFINE row == [user[u] EXCEPT !.st = "invited", !.roles = {r}]
<1>4. row \in UserRow /\ row.ver = user[u].ver /\ row.st = "invited"
  <2>1. user[u] \in UserRow /\ {r} \in SUBSET AllRoles
    BY Types, ConstantsAssumption DEF AllRoles, AdminRoles
  <2> QED
    BY <2>1 DEF UserRow
<1>5. user' = [user EXCEPT ![u] = row]
  BY Types, Zenon DEF InviteUser
<1> HIDE DEF row
<1>6. user' \in [Users -> UserRow] /\ GoneIsDisabled' /\ \A v \in Users : AccountMoves(v)
  BY <1>1, <1>4, <1>5, OneAccount, Types DEF UserRow, Versions
<1>7. link[l].u = None /\ user'[u].st = "invited"
  BY <1>2, <1>4, <1>5, Types DEF IInv, LinkOK, Unused
<1>8. ASSUME NEW k \in Links PROVE LinkMoves(k)
  BY <1>3, <1>7, ConstantsAssumption DEF LinkMoves
<1>9. OneLiveInvitation'
  <2>1. \A k \in Links \ {l} : link'[k].u # u
    BY <1>1, <1>3, ConstantsAssumption DEF IInv, LinkOK
  <2> QED
    BY <1>3, <2>1 DEF OneLiveInvitation, IInv
<1> QED
  BY <1>1, <1>3, <1>6, <1>8, <1>9, Same DEF Orderly, Moved, IInv, TypeOK, PendRow

(* A link issued after those of its kind have expired is the only one.      *)
LEMMA IssueAfterExpiry ==
  ASSUME IInv, NEW u \in Users, NEW purpose \in {"invitation", "reset"}, NEW l \in Links, Unused(l),
         purpose = "invitation" => user[u].st = "invited", purpose = "reset" => user[u].st = "active",
         NEW purposes, purpose = "invitation" => purposes = {"invitation"}, UNCHANGED user,
         link' = Issued(Expired(link, u, purposes), l, u, purpose) \/ (purpose = "reset" /\ link' = Issued(link, l, u, purpose))
  PROVE  link' \in [Links -> LinkRow] /\ OneLiveInvitation' /\ \A k \in Links : LinkMoves(k)
<1> DEFINE old == IF link' = Issued(Expired(link, u, purposes), l, u, purpose) THEN Expired(link, u, purposes) ELSE link
<1>1. /\ old \in [Links -> LinkRow] /\ link' = Issued(old, l, u, purpose)
      /\ \A k \in Links : /\ old[k].u = link[k].u /\ old[k].purpose = link[k].purpose /\ old[k].ver = link[k].ver
                          /\ old[k].live => link[k].live
                          /\ purpose = "invitation" /\ link[k].u = u /\ link[k].purpose = "invitation" => ~old[k].live
  BY ExpiredIs, Types
<1> HIDE DEF old
<1>2. /\ link' \in [Links -> LinkRow] /\ \A k \in Links \ {l} : link'[k] = old[k]
      /\ link'[l].u = u /\ link'[l].purpose = purpose /\ (purpose = "reset" => link'[l].ver = user[u].ver)
  BY <1>1, IssuedIs
<1>3. link[l].u = None /\ u # None
  BY ConstantsAssumption DEF IInv, LinkOK, Unused
<1>4. ASSUME NEW k \in Links PROVE LinkMoves(k)
  <2>1. CASE k = l
    BY <1>2, <1>3, <2>1 DEF LinkMoves
  <2>2. CASE k # l
    BY <1>1, <1>2, <2>2 DEF LinkMoves
  <2> QED
    BY <2>1, <2>2
<1>5. OneLiveInvitation'
  BY <1>1, <1>2 DEF OneLiveInvitation, IInv
<1> QED
  BY <1>2, <1>4, <1>5

LEMMA ReissueOrderly ==
  ASSUME IInv, NEW s \in Sessions, NEW u \in Users, Reissue(s, u)
  PROVE  Orderly
<1>1. UNCHANGED <<user, sess, recov, off, item, grant, count>> /\ pend' \in [Sessions -> PendRow] /\ user[u].st = "invited"
  BY DoneTyped DEF Reissue, work
<1>2. PICK l \in Links : Unused(l) /\ link' = Issued(Expired(link, u, {"invitation"}), l, u, "invitation")
  BY DEF Reissue
<1>3. link' \in [Links -> LinkRow] /\ OneLiveInvitation' /\ \A k \in Links : LinkMoves(k)
  BY <1>1, <1>2, IssueAfterExpiry
<1> QED
  BY <1>1, <1>3, Same DEF Orderly, Moved, IInv, TypeOK, PendRow

LEMMA IssueResetOrderly ==
  ASSUME IInv, NEW s \in Sessions, NEW u \in Users, IssueReset(s, u)
  PROVE  Orderly
<1>1. /\ UNCHANGED <<user, sess, recov, pend, off, item, grant>> /\ count < MaxCommands /\ count' = count + 1
      /\ user[u].st = "active"
  BY DEF IssueReset, work, CanCommand, Commanded, Active
<1>2. PICK l \in Links : Unused(l) /\ link' = Issued(Expired(link, u, {"reset"}), l, u, "reset")
  BY DEF IssueReset
<1>3. link' \in [Links -> LinkRow] /\ OneLiveInvitation' /\ \A k \in Links : LinkMoves(k)
  BY <1>1, <1>2, IssueAfterExpiry
<1>4. count' \in 0..MaxCommands
  BY <1>1, Types, ConstantsAssumption
<1> QED
  BY <1>1, <1>3, <1>4, Same DEF Orderly, Moved, IInv, TypeOK

LEMMA AskRecoveryOrderly ==
  ASSUME IInv, NEW u \in Users, AskRecovery(u)
  PROVE  Orderly
<1>1. /\ UNCHANGED <<user, sess, link, pend, off, item, grant>> /\ count < MaxCommands /\ count' = count + 1
      /\ recov' = [u |-> u, st |-> "queued"]
  BY DEF AskRecovery, accounts, work, CanCommand, Commanded
<1>2. count' \in 0..MaxCommands /\ recov' \in RecoveryRow
  BY <1>1, Types, ConstantsAssumption DEF RecoveryRow
<1> QED
  BY <1>1, <1>2, Same DEF Orderly, Moved, IInv, TypeOK

LEMMA ProcessRecoveryOrderly ==
  ASSUME IInv, ProcessRecovery
  PROVE  Orderly
<1>1. UNCHANGED <<user, sess, pend, off, item, grant, count>> /\ recov' = [recov EXCEPT !.st = "processed"]
  BY DEF ProcessRecovery, work
<1>2. recov' \in RecoveryRow
  BY <1>1, Types DEF RecoveryRow
<1>3. CASE UNCHANGED link
  BY <1>1, <1>2, <1>3, Same DEF Orderly, Moved, IInv, TypeOK
<1>4. CASE Active(recov.u) /\ \E l \in Links : Unused(l) /\ link' = Issued(link, l, recov.u, "reset")
  <2>1. recov.u \in Users /\ user[recov.u].st = "active"
    BY <1>4, Types DEF Active, RecoveryRow
  <2>2. PICK l \in Links : Unused(l) /\ link' = Issued(link, l, recov.u, "reset")
    BY <1>4
  <2>3. link' \in [Links -> LinkRow] /\ OneLiveInvitation' /\ \A k \in Links : LinkMoves(k)
    BY <1>1, <2>1, <2>2, IssueAfterExpiry
  <2> QED
    BY <1>1, <1>2, <2>3, Same DEF Orderly, Moved, IInv, TypeOK
<1> QED
  BY <1>3, <1>4 DEF ProcessRecovery

LEMMA LinkEndsOrderly ==
  ASSUME IInv, NEW l \in Links, LinkEnds(l)
  PROVE  Orderly
<1>1. /\ UNCHANGED <<user, sess, recov, pend, off, item, grant>> /\ count < MaxCommands /\ count' = count + 1
      /\ link' = [link EXCEPT ![l].live = FALSE]
  BY DEF LinkEnds, work, CanCommand, Commanded
<1>2. count' \in 0..MaxCommands
  BY <1>1, Types, ConstantsAssumption
<1>3. /\ [link[l] EXCEPT !.live = FALSE] \in LinkRow
      /\ link'[l].u = link[l].u /\ link'[l].purpose = link[l].purpose /\ link'[l].ver = link[l].ver /\ ~link'[l].live
      /\ \A k \in Links \ {l} : link'[k] = link[k]
  BY <1>1, Types DEF LinkRow
<1>4. link' \in [Links -> LinkRow]
  BY <1>1, <1>3, Types
<1>5. OneLiveInvitation' /\ \A k \in Links : LinkMoves(k)
  BY <1>3 DEF LinkMoves, OneLiveInvitation, IInv
<1> QED
  BY <1>1, <1>2, <1>4, <1>5, Same DEF Orderly, Moved, IInv, TypeOK

LEMMA AcceptInvitationOrderly ==
  ASSUME IInv, NEW l \in Links, AcceptInvitation(l)
  PROVE  Orderly
<1> DEFINE u == link[l].u
           row == [user[u] EXCEPT !.st = "active"]
<1>1. /\ UNCHANGED <<sess, recov, pend, off, item, grant, count>>
      /\ user' = [user EXCEPT ![u].st = "active"] /\ link' = [link EXCEPT ![l].live = FALSE]
      /\ link[l].purpose = "invitation" /\ user[u].st = "invited"
  BY DEF AcceptInvitation, work, UsableLink
<1>2. /\ [link[l] EXCEPT !.live = FALSE] \in LinkRow
      /\ link'[l].u = link[l].u /\ link'[l].purpose = link[l].purpose /\ link'[l].ver = link[l].ver /\ ~link'[l].live
      /\ \A k \in Links \ {l} : link'[k] = link[k]
  BY <1>1, Types DEF LinkRow
<1>3. link' \in [Links -> LinkRow]
  BY <1>1, <1>2, Types
<1>4. OneLiveInvitation' /\ \A k \in Links : LinkMoves(k)
  BY <1>2 DEF LinkMoves, OneLiveInvitation, IInv
<1>5. u \in Users
  BY <1>1, Types DEF IInv, LinkOK
<1>6. row \in UserRow /\ row.ver = user[u].ver /\ row.st = "active"
  <2>1. user[u] \in UserRow
    BY <1>5, Types
  <2> QED
    BY <2>1 DEF UserRow
<1>7. user' = [user EXCEPT ![u] = row]
  BY <1>1
<1> HIDE DEF row
<1>8. user' \in [Users -> UserRow] /\ GoneIsDisabled' /\ \A v \in Users : AccountMoves(v)
  BY <1>1, <1>5, <1>6, <1>7, OneAccount, Types
<1> QED
  BY <1>1, <1>3, <1>4, <1>8, Same DEF Orderly, Moved, IInv, TypeOK

LEMMA FeishuOrderly ==
  ASSUME IInv, NEW u \in Users, FeishuActivates(u)
  PROVE  Orderly
<1> DEFINE row == [user[u] EXCEPT !.st = "active"]
<1>1. UNCHANGED <<sess, link, recov, pend, off, item, grant, count>> /\ user' = [user EXCEPT ![u] = row] /\ user[u].st = "invited"
  BY DEF FeishuActivates, work
<1>2. row \in UserRow /\ row.ver = user[u].ver /\ row.st = "active"
  <2>1. user[u] \in UserRow
    BY Types
  <2> QED
    BY <2>1 DEF UserRow
<1> HIDE DEF row
<1>3. user' \in [Users -> UserRow] /\ GoneIsDisabled' /\ \A v \in Users : AccountMoves(v)
  BY <1>1, <1>2, OneAccount
<1> QED
  BY <1>1, <1>3, Same DEF Orderly, Moved, IInv, TypeOK

(* A reset ends every session and every reset link of its user.             *)
LEMMA AcceptResetOrderly ==
  ASSUME IInv, NEW l \in Links, AcceptReset(l)
  PROVE  Orderly
<1> DEFINE u == link[l].u
<1>1. /\ UNCHANGED <<recov, pend, off, item, grant, count>>
      /\ user' = [user EXCEPT ![u].ver = @ + 1] /\ link' = Expired(link, u, {"reset"}) /\ sess' = Revoked(sess, u, 0)
      /\ user[u].st = "active" /\ u # None
  BY DEF AcceptReset, work, UsableLink, Active
<1>2. u \in Users /\ user[u].ver \in Nat /\ user[u].roles \in SUBSET AllRoles
  BY <1>1, Types DEF UserRow
<1>2a. user[u].st # "absent" /\ user[u].st = "active"
  BY <1>1
<1>3. user' = [user EXCEPT ![u].ver = @ + 1, ![u].st = "active", ![u].roles = user[u].roles]
  BY <1>1, <1>2, Types DEF UserRow
<1>4. /\ user' \in [Users -> UserRow] /\ user'[u].ver = user[u].ver + 1
      /\ user'[u].st = "active" /\ \A v \in Users \ {u} : user'[v] = user[v]
  BY <1>2, <1>2a, <1>3, NewVersion
<1>5. GoneIsDisabled' /\ \A v \in Users : AccountMoves(v)
  BY <1>1, <1>2, <1>4, Types DEF GoneIsDisabled, IInv, AccountMoves
<1>6. link' \in [Links -> LinkRow] /\ OneLiveInvitation' /\ \A k \in Links : LinkMoves(k)
  BY <1>1, ExpiredIs, ExpiredMoves
<1>7. (\A s \in Sessions : SessionMoves(s)) /\ sess' \in [Sessions -> SessionRow]
  <2>1. \A s \in Sessions : SessionMoves(s)
    BY <1>1, RevokedMoves
  <2>2. sess' \in [Sessions -> SessionRow]
    <3>1. ASSUME NEW t \in Sessions PROVE [sess[t] EXCEPT !.revoked = TRUE] \in SessionRow /\ sess[t] \in SessionRow
      BY Types DEF SessionRow
    <3> QED
      BY <1>1, <3>1 DEF Revoked
  <2> QED
    BY <2>1, <2>2
<1> QED
  BY <1>1, <1>4, <1>5, <1>6, <1>7 DEF Orderly, Moved, IInv, TypeOK

LEMMA UpdateScopeOrderly ==
  ASSUME IInv, NEW s \in Sessions, NEW u \in Users, NEW role \in Roles \cup {"same"}, UpdateScope(s, u, role)
  PROVE  Orderly
<1> DEFINE roles == IF role = "same" THEN user[u].roles ELSE {role}
<1>1. UNCHANGED <<sess, link, recov, off, item, grant, count>> /\ pend' \in [Sessions -> PendRow] /\ user[u].st # "absent"
  BY DoneTyped DEF UpdateScope, work
<1>2. /\ user[u].st \in {"invited", "active", "disabled"} /\ user[u].ver \in Nat /\ roles \in SUBSET AllRoles
      /\ user[u] \in UserRow
  BY <1>1, Types, ConstantsAssumption DEF UserRow, AllRoles, AdminRoles
<1>3. user' = [user EXCEPT ![u].ver = @ + 1, ![u].st = user[u].st, ![u].roles = roles]
  BY <1>2, Types DEF UpdateScope, UserRow
<1> HIDE DEF roles
<1>4. /\ user' \in [Users -> UserRow] /\ user'[u].ver = user[u].ver + 1
      /\ user'[u].st = user[u].st /\ \A v \in Users \ {u} : user'[v] = user[v]
  BY <1>1, <1>2, <1>3, NewVersion
<1>5. GoneIsDisabled' /\ \A v \in Users : AccountMoves(v)
  BY <1>1, <1>2, <1>4, Types DEF GoneIsDisabled, IInv, AccountMoves
<1> QED
  BY <1>1, <1>4, <1>5, Same DEF Orderly, Moved, IInv, TypeOK, PendRow

LEMMA BootstrapOrderly ==
  ASSUME IInv, NEW u \in Users, Bootstrap(u)
  PROVE  Orderly
<1> DEFINE roles == user[u].roles \cup {"system_admin"}
<1>1. /\ UNCHANGED <<sess, link, recov, pend, off, item, grant>> /\ count < MaxCommands /\ count' = count + 1
      /\ user[u].st # "absent" /\ user[u].st # "disabled"
  BY DEF Bootstrap, work, CanCommand, Commanded, IInv, GoneIsDisabled
<1>2. user[u].st \in {"invited", "active"} /\ user[u].ver \in Nat /\ roles \in SUBSET AllRoles
  BY <1>1, Types DEF UserRow, AllRoles, AdminRoles
<1>3. user' = [user EXCEPT ![u].ver = @ + 1, ![u].st = "active", ![u].roles = roles]
  BY Types DEF Bootstrap, UserRow
<1> HIDE DEF roles
<1>4. /\ user' \in [Users -> UserRow] /\ user'[u].ver = user[u].ver + 1
      /\ user'[u].st = "active" /\ \A v \in Users \ {u} : user'[v] = user[v]
  BY <1>1, <1>2, <1>3, NewVersion
<1>5. GoneIsDisabled' /\ \A v \in Users : AccountMoves(v)
  BY <1>1, <1>2, <1>4, Types DEF GoneIsDisabled, IInv, AccountMoves
<1>6. count' \in 0..MaxCommands
  BY <1>1, Types, ConstantsAssumption
<1> QED
  BY <1>1, <1>4, <1>5, <1>6, Same DEF Orderly, Moved, IInv, TypeOK

LEMMA FinishOrderly ==
  ASSUME IInv, NEW s \in Sessions, NEW i \in Items, Finish(s, i)
  PROVE  Orderly
<1>1. /\ UNCHANGED <<user, sess, link, recov, pend, off, grant>> /\ count < MaxCommands /\ count' = count + 1
      /\ item' = [item EXCEPT ![i].live = FALSE]
  BY DEF Finish, accounts, CanCommand, Commanded
<1>2. count' \in 0..MaxCommands
  BY <1>1, Types, ConstantsAssumption
<1>3. item' \in [Items -> ItemRow]
  BY <1>1, Types DEF ItemRow
<1> QED
  BY <1>1, <1>2, <1>3, Same DEF Orderly, Moved, IInv, TypeOK, ItemRow

(* Whoever gets a late product is an active member.                         *)
LEMMA OperatorIs == ASSUME IInv, Operator(Creator) # None PROVE Operator(Creator) \in Users /\ user[Operator(Creator)].st = "active"
<1>1. CASE Active(Creator)
  BY <1>1, ConstantsAssumption DEF Operator, Active
<1>2. CASE ~Active(Creator)
  BY <1>2 DEF Operator, Able
<1> QED
  BY <1>1, <1>2

LEMMA ProduceOrderly ==
  ASSUME IInv, NEW i \in Items, Produce(i)
  PROVE  Orderly
<1>1. /\ UNCHANGED <<user, sess, link, recov, pend, off, grant, count>>
      /\ item' = [item EXCEPT ![i] = [owner |-> Operator(Creator), live |-> TRUE]] /\ Operator(Creator) \in Users
  BY OperatorIs DEF Produce, accounts
<1>2. item' \in [Items -> ItemRow]
  BY <1>1, Types DEF ItemRow
<1> QED
  BY <1>1, <1>2, Same DEF Orderly, Moved, IInv, TypeOK, ItemRow

(* What a removal does to the accounts and to the records of removals.      *)
LEMMA OffboardDoes ==
  ASSUME IInv, NEW s \in Sessions, NEW u \in Users, NEW x \in Users \cup {None}, NEW only \in BOOLEAN, NEW fails \in BOOLEAN,
         Offboard(s, u, x, only, fails)
  PROVE  /\ user' \in [Users -> UserRow] /\ user'[u].st = "disabled" /\ user'[u].ver >= user[u].ver
         /\ \A v \in Users \ {u} : user'[v] = user[v]
         /\ off' \in [Users -> OffboardingRow] /\ off'[u].gone
         /\ \A v \in Users \ {u} : off'[v] = off[v]
         /\ off'[u].succ \in {None, x, off[u].succ}
         /\ x # None => x # u /\ user[x].st = "active"
         /\ off[u].gone => UNCHANGED user
<1> DEFINE first == ~off[u].gone
<1>1. /\ user[u].st # "absent" /\ (x # None => x # u /\ user[x].st = "active")
      /\ user' = IF first THEN [user EXCEPT ![u].st = "disabled", ![u].ver = @ + 1] ELSE user
  BY DEF Offboard, Successor, Active
<1>2. /\ user' \in [Users -> UserRow] /\ user'[u].st = "disabled" /\ user'[u].ver >= user[u].ver
      /\ \A v \in Users \ {u} : user'[v] = user[v]
  <2>1. CASE first
    <3>1. user[u].ver \in Nat /\ user[u].roles \in SUBSET AllRoles
      BY Types DEF UserRow
    <3>2. user' = [user EXCEPT ![u].ver = @ + 1, ![u].st = "disabled", ![u].roles = user[u].roles]
      BY <1>1, <2>1, Types DEF UserRow
    <3>3. /\ user' \in [Users -> UserRow] /\ user'[u].ver = user[u].ver + 1
          /\ user'[u].st = "disabled" /\ \A v \in Users \ {u} : user'[v] = user[v]
      BY <1>1, <3>1, <3>2, NewVersion
    <3> QED
      BY <3>1, <3>3
  <2>2. CASE ~first
    BY <1>1, <2>2, Types DEF IInv, GoneIsDisabled
  <2> QED
    BY <2>1, <2>2
<1> DEFINE to   == IF only THEN None ELSE x
           succ == IF first \/ ~only THEN to ELSE off[u].succ
           given == [off EXCEPT ![u].gone = TRUE, ![u].ver = @ + 1, ![u].succ = succ]
<1>3a. succ \in {None, x, off[u].succ}
  OBVIOUS
<1>3b. PICK st \in {"completed", "pending"} : off' = [given EXCEPT ![u].st = st]
  <2> DEFINE cond(P) == IF P THEN "completed" ELSE "pending"
  <2>1. \E P : off' = [given EXCEPT ![u].st = cond(P)]
    BY Zenon DEF Offboard
  <2>2. \A P : cond(P) \in {"completed", "pending"}
    OBVIOUS
  <2> HIDE DEF cond, given
  <2> QED
    BY <2>1, <2>2
<1> HIDE DEF succ
<1>3. /\ succ \in {None, x, off[u].succ} /\ st \in {"completed", "pending"}
      /\ off' = [[off EXCEPT ![u].gone = TRUE, ![u].ver = @ + 1, ![u].succ = succ] EXCEPT ![u].st = st]
  BY <1>3a, <1>3b
<1> DEFINE n   == off[u].ver + 1
           one == [off[u] EXCEPT !.gone = TRUE]
           two == [one EXCEPT !.ver = n]
           three == [two EXCEPT !.succ = succ]
           row == [three EXCEPT !.st = st]
<1>4. off' = [off EXCEPT ![u] = row]
  BY <1>3, Types, Zenon
<1>5. off[u] \in OffboardingRow /\ n \in Versions /\ succ \in Users \cup {None}
  BY <1>3, Types DEF OffboardingRow, Versions
<1>6. row \in OffboardingRow /\ row.gone /\ row.succ = succ
  <2> HIDE DEF n
  <2>1. one \in OffboardingRow /\ one.gone
    BY <1>5 DEF OffboardingRow
  <2> HIDE DEF one
  <2>2. two \in OffboardingRow /\ two.gone
    BY <1>5, <2>1 DEF OffboardingRow
  <2> HIDE DEF two
  <2>3. three \in OffboardingRow /\ three.gone /\ three.succ = succ
    BY <1>5, <2>2 DEF OffboardingRow
  <2> HIDE DEF three
  <2> QED
    BY <1>3, <2>3 DEF OffboardingRow
<1> HIDE DEF row
<1>7. /\ off' \in [Users -> OffboardingRow] /\ off'[u].gone /\ off'[u].succ = succ
      /\ \A v \in Users \ {u} : off'[v] = off[v]
  BY <1>4, <1>6, Types
<1> QED
  BY <1>1, <1>2, <1>3, <1>7

(* What moves to x is the unfinished work of u that x may take.             *)
LEMMA OffboardGives ==
  ASSUME IInv, NEW s \in Sessions, NEW u \in Users, NEW x \in Users \cup {None}, NEW only \in BOOLEAN, NEW fails \in BOOLEAN,
         Offboard(s, u, x, only, fails), NEW i \in Items
  PROVE  \/ item'[i] = item[i]
         \/ /\ item'[i].owner = x /\ x \in Users /\ item'[i].live = item[i].live
            /\ item[i].owner = u
            /\ KindOf[i] = "step" => x # Submitter /\ \A j \in Items : KindOf[j] = "step" => item[j].owner # x
<1> DEFINE us == IF ~off[u].gone THEN [user EXCEPT ![u].st = "disabled", ![u].ver = @ + 1] ELSE user
           moved == IF only \/ fails THEN {} ELSE {j \in Unfinished(u) : Moves(us, u, x, j)}
<1>1. item' = Given(moved, x)
  BY Zenon DEF Offboard
<1> HIDE DEF us
<1>2. CASE i \notin moved
  BY <1>1, <1>2 DEF Given
<1>3. CASE i \in moved
  <2>1. item'[i] = [item[i] EXCEPT !.owner = x] /\ item[i].owner = u /\ Moves(us, u, x, i)
    BY <1>1, <1>3 DEF Given, Unfinished
  <2>2. x \in Users
    BY <2>1 DEF Moves, Able
  <2>3. item'[i].owner = x /\ item'[i].live = item[i].live
    BY <2>1, Types DEF ItemRow
  <2> QED
    BY <2>1, <2>2, <2>3 DEF Moves
<1> QED
  BY <1>2, <1>3

LEMMA OffboardOrderly ==
  ASSUME IInv, NEW s \in Sessions, NEW u \in Users, NEW x \in Users \cup {None}, NEW only \in BOOLEAN, NEW fails \in BOOLEAN,
         Offboard(s, u, x, only, fails)
  PROVE  Orderly
<1>1. /\ UNCHANGED <<recov, pend>> /\ count < MaxCommands /\ count' = count + 1
      /\ UNCHANGED sess \/ sess' = Revoked(sess, u, 0)
      /\ UNCHANGED link \/ link' = Expired(link, u, {"invitation", "reset"})
  BY Zenon DEF Offboard, CanCommand, Commanded
<1>2. count' \in 0..MaxCommands
  BY <1>1, Types, ConstantsAssumption
<1>3. sess' \in [Sessions -> SessionRow] /\ \A t \in Sessions : SessionMoves(t)
  <2>1. CASE UNCHANGED sess
    BY <2>1, Same, Types
  <2>2. CASE sess' = Revoked(sess, u, 0)
    <3>1. \A t \in Sessions : SessionMoves(t)
      BY <2>2, RevokedMoves
    <3>2. ASSUME NEW t \in Sessions PROVE [sess[t] EXCEPT !.revoked = TRUE] \in SessionRow /\ sess[t] \in SessionRow
      BY Types DEF SessionRow
    <3>3. sess' \in [Sessions -> SessionRow]
      BY <2>2, <3>2 DEF Revoked
    <3> QED
      BY <3>1, <3>3
  <2> QED
    BY <1>1, <2>1, <2>2
<1>4. link' \in [Links -> LinkRow] /\ OneLiveInvitation' /\ \A l \in Links : LinkMoves(l)
  BY <1>1, Same, ExpiredIs, ExpiredMoves, Types
<1>5. GoneIsDisabled' /\ \A v \in Users : AccountMoves(v)
  <2>1. /\ user'[u].st = "disabled" /\ user'[u].ver >= user[u].ver /\ \A v \in Users \ {u} : user'[v] = user[v]
        /\ off'[u].gone /\ \A v \in Users \ {u} : off'[v] = off[v]
    BY OffboardDoes
  <2> QED
    BY <2>1, Types DEF GoneIsDisabled, IInv, AccountMoves
<1>6. item' \in [Items -> ItemRow]
  <2>1. item' = [i \in Items |-> item'[i]]
    BY Zenon DEF Offboard, Given
  <2>2. ASSUME NEW i \in Items PROVE item'[i] \in ItemRow
    <3>1. PICK moved : item' = Given(moved, x)
      BY Zenon DEF Offboard
    <3>2. item'[i] = item[i] \/ item'[i] = [item[i] EXCEPT !.owner = x]
      BY <3>1 DEF Given
    <3> QED
      BY <3>2, Types DEF ItemRow
  <2> QED
    BY <2>1, <2>2
<1>7. grant' \subseteq Users
  <2>1. PICK us : grant' = grant \/ grant' = grant \cup AddedGrant(us, u, x)
    BY Zenon DEF Offboard
  <2>2. AddedGrant(us, u, x) \subseteq Users
    BY DEF AddedGrant, Able
  <2> QED
    BY <2>1, <2>2, Types
<1>8. user' \in [Users -> UserRow] /\ off' \in [Users -> OffboardingRow]
  BY OffboardDoes
<1> QED
  BY <1>1, <1>2, <1>3, <1>4, <1>5, <1>6, <1>7, <1>8, Types DEF Orderly, Moved, IInv, TypeOK, PendRow, ItemRow

(* Every step is orderly.                                                   *)
LEMMA NextOrderly ==
  ASSUME IInv, [Next]_vars
  PROVE  Orderly
<1>1. CASE UNCHANGED vars
  BY <1>1, Same DEF vars, accounts, work, Orderly, Moved, IInv, TypeOK
<1>2. ASSUME NEW s \in Sessions,
             \/ EndSession(s) \/ ChangePassword(s)
             \/ \E op \in {"invite", "reissue", "scope", "password"} : Begin(s, op)
             \/ \E i \in Items : Finish(s, i)
      PROVE  Orderly
  BY <1>2, EndSessionOrderly, ChangePasswordOrderly, BeginOrderly, FinishOrderly
<1>3. ASSUME NEW s \in Sessions, NEW u \in Users,
             \/ Login(s, u) \/ Reissue(s, u) \/ IssueReset(s, u)
             \/ \E r \in Roles : InviteUser(s, u, r)
             \/ \E r \in Roles \cup {"same"} : UpdateScope(s, u, r)
             \/ \E x \in Users \cup {None}, only, fails \in BOOLEAN : Offboard(s, u, x, only, fails)
      PROVE  Orderly
  BY <1>3, LoginOrderly, ReissueOrderly, IssueResetOrderly, InviteUserOrderly, UpdateScopeOrderly, OffboardOrderly
<1>4. CASE \/ ProcessRecovery
           \/ \E u \in Users : AskRecovery(u) \/ FeishuActivates(u) \/ Bootstrap(u)
           \/ \E l \in Links : LinkEnds(l) \/ AcceptInvitation(l) \/ AcceptReset(l)
           \/ \E i \in Items : Produce(i)
  BY <1>4, ProcessRecoveryOrderly, AskRecoveryOrderly, FeishuOrderly, BootstrapOrderly, LinkEndsOrderly,
     AcceptInvitationOrderly, AcceptResetOrderly, ProduceOrderly
<1> QED
  BY <1>1, <1>2, <1>3, <1>4 DEF Next

-----------------------------------------------------------------------------
(* The work and the chain of successors.                                    *)

(* A removal leads the records to somebody who is there, so that no chain   *)
(* that was free of u comes to u.                                           *)
LEMMA ChainKept ==
  ASSUME IInv, [Next]_vars
  PROVE  ChainEnds'
<1>1. Orderly
  BY NextOrderly
<1>2. ASSUME UNCHANGED off PROVE ChainEnds'
  <2>1. \A v \in Users : user'[v].st = "disabled" <=> user[v].st = "disabled"
    BY <1>1, <1>2 DEF Orderly, GoneIsDisabled, IInv
  <2> QED
    BY <1>2, <2>1 DEF ChainEnds, IInv
<1>3. ASSUME NEW s \in Sessions, NEW u \in Users, NEW x \in Users \cup {None}, NEW only \in BOOLEAN, NEW fails \in BOOLEAN,
             Offboard(s, u, x, only, fails)
      PROVE  ChainEnds'
  <2>1. /\ user'[u].st = "disabled" /\ \A v \in Users \ {u} : user'[v] = user[v]
        /\ off'[u].gone /\ \A v \in Users \ {u} : off'[v] = off[v]
        /\ off'[u].succ \in {None, x, off[u].succ}
        /\ x # None => x # u /\ user[x].st = "active"
        /\ off[u].gone => UNCHANGED user
    BY <1>3, OffboardDoes
  <2> SUFFICES ASSUME NEW v \in Users, off'[v].gone, off'[v].succ # None
               PROVE  \E S \in SUBSET (Users \ {v}) :
                        /\ off'[v].succ \in S
                        /\ \A w \in S : user'[w].st = "disabled" /\ off'[w].succ # None => off'[w].succ \in S
    BY DEF ChainEnds
  <2>2. CASE off'[u].succ = x /\ x # None
    <3>1. CASE v = u
      <4>1. {x} \in SUBSET (Users \ {v}) /\ user'[x].st # "disabled"
        BY <2>1, <2>2, <3>1
      <4> QED
        BY <2>2, <3>1, <4>1
    <3>2. CASE v # u
      <4>1. off[v].gone /\ off[v].succ # None /\ off'[v] = off[v] /\ user[v].st = "disabled"
        BY <2>1, <3>2 DEF IInv, GoneIsDisabled
      <4>2. PICK S \in SUBSET (Users \ {v}) :
              /\ off[v].succ \in S
              /\ \A w \in S : user[w].st = "disabled" /\ off[w].succ # None => off[w].succ \in S
        BY <4>1 DEF IInv, ChainEnds
      <4>3. S \cup {x} \in SUBSET (Users \ {v}) /\ user'[x].st # "disabled"
        BY <2>1, <2>2, <4>1
      <4>4. \A w \in S \cup {x} : user'[w].st = "disabled" /\ off'[w].succ # None => off'[w].succ \in S \cup {x}
        BY <2>1, <2>2, <4>2, <4>3
      <4> QED
        BY <4>1, <4>2, <4>3, <4>4
    <3> QED
      BY <3>1, <3>2
  <2>3. CASE off'[u].succ = None
    <3>1. v # u /\ off[v].gone /\ off[v].succ # None /\ off'[v] = off[v]
      BY <2>1, <2>3
    <3>2. PICK S \in SUBSET (Users \ {v}) :
            /\ off[v].succ \in S
            /\ \A w \in S : user[w].st = "disabled" /\ off[w].succ # None => off[w].succ \in S
      BY <3>1 DEF IInv, ChainEnds
    <3>3. \A w \in S : user'[w].st = "disabled" /\ off'[w].succ # None => off'[w].succ \in S
      BY <2>1, <2>3, <3>2
    <3> QED
      BY <3>1, <3>2, <3>3
  <2>4. CASE off'[u].succ = off[u].succ /\ off[u].succ # None
    <3>1. off[u].gone
      BY <2>4 DEF IInv, GoneIsDisabled
    <3>2. UNCHANGED user /\ off[v].gone /\ off[v].succ # None /\ \A w \in Users : off'[w].succ = off[w].succ
      BY <2>1, <2>4, <3>1
    <3>3. PICK S \in SUBSET (Users \ {v}) :
            /\ off[v].succ \in S
            /\ \A w \in S : user[w].st = "disabled" /\ off[w].succ # None => off[w].succ \in S
      BY <3>2 DEF IInv, ChainEnds
    <3> QED
      BY <3>2, <3>3
  <2> QED
    BY <2>1, <2>2, <2>3, <2>4
<1>4. CASE UNCHANGED vars
  BY <1>2, <1>4 DEF vars
<1>5. ASSUME NEW s \in Sessions,
             \/ EndSession(s) \/ ChangePassword(s)
             \/ \E op \in {"invite", "reissue", "scope", "password"} : Begin(s, op)
             \/ \E i \in Items : Finish(s, i)
      PROVE  UNCHANGED off
  BY <1>5 DEF EndSession, ChangePassword, Begin, Finish
<1>6. ASSUME NEW s \in Sessions, NEW u \in Users,
             \/ Login(s, u) \/ Reissue(s, u) \/ IssueReset(s, u)
             \/ \E r \in Roles : InviteUser(s, u, r)
             \/ \E r \in Roles \cup {"same"} : UpdateScope(s, u, r)
      PROVE  UNCHANGED off
  BY <1>6 DEF Login, Reissue, IssueReset, InviteUser, UpdateScope
<1>7. ASSUME \/ ProcessRecovery
             \/ \E u \in Users : AskRecovery(u) \/ FeishuActivates(u) \/ Bootstrap(u)
             \/ \E l \in Links : LinkEnds(l) \/ AcceptInvitation(l) \/ AcceptReset(l)
             \/ \E i \in Items : Produce(i)
      PROVE  UNCHANGED off
  BY <1>7 DEF ProcessRecovery, AskRecovery, FeishuActivates, Bootstrap, LinkEnds, AcceptInvitation, AcceptReset, Produce
<1> QED
  BY <1>2, <1>3, <1>4, <1>5, <1>6, <1>7 DEF Next

(* Work changes its owner by a late product, which no step is, or by a      *)
(* removal.                                                                 *)
LEMMA WorkMoves ==
  ASSUME IInv, [Next]_vars
  PROVE  \/ \A i \in Items : item'[i].owner = item[i].owner
         \/ \E i \in Items : /\ item[i].owner = None /\ user[item'[i].owner].st = "active" /\ item'[i].owner \in Users
                            /\ \A j \in Items \ {i} : item'[j] = item[j]
         \/ \E u, x \in Users :
              /\ user[x].st = "active"
              /\ \A i \in Items :
                   \/ item'[i] = item[i]
                   \/ /\ item'[i].owner = x /\ item[i].owner = u
                      /\ KindOf[i] = "step" => x # Submitter /\ \A j \in Items : KindOf[j] = "step" => item[j].owner # x
<1>1. CASE UNCHANGED vars
  BY <1>1 DEF vars, work
<1>2. ASSUME NEW s \in Sessions, EndSession(s) \/ ChangePassword(s) \/ \E op \in {"invite", "reissue", "scope", "password"} : Begin(s, op)
      PROVE  UNCHANGED item
  BY <1>2 DEF EndSession, ChangePassword, Begin, work
<1>3. ASSUME NEW s \in Sessions, NEW i \in Items, Finish(s, i) PROVE \A j \in Items : item'[j].owner = item[j].owner
  BY <1>3, Types DEF Finish, ItemRow
<1>4. ASSUME NEW s \in Sessions, NEW u \in Users,
             \/ Login(s, u) \/ Reissue(s, u) \/ IssueReset(s, u)
             \/ \E r \in Roles : InviteUser(s, u, r)
             \/ \E r \in Roles \cup {"same"} : UpdateScope(s, u, r)
      PROVE  UNCHANGED item
  BY <1>4 DEF Login, Reissue, IssueReset, InviteUser, UpdateScope, work
<1>5. ASSUME \/ ProcessRecovery
             \/ \E u \in Users : AskRecovery(u) \/ FeishuActivates(u) \/ Bootstrap(u)
             \/ \E l \in Links : LinkEnds(l) \/ AcceptInvitation(l) \/ AcceptReset(l)
      PROVE  UNCHANGED item
  BY <1>5 DEF ProcessRecovery, AskRecovery, FeishuActivates, Bootstrap, LinkEnds, AcceptInvitation, AcceptReset, work
<1>6. ASSUME NEW i \in Items, Produce(i)
      PROVE  /\ item[i].owner = None /\ user[item'[i].owner].st = "active" /\ item'[i].owner \in Users
             /\ \A j \in Items \ {i} : item'[j] = item[j]
  BY <1>6, OperatorIs, Types DEF Produce
<1>7. ASSUME NEW s \in Sessions, NEW u \in Users, NEW x \in Users \cup {None}, NEW only \in BOOLEAN, NEW fails \in BOOLEAN,
             Offboard(s, u, x, only, fails)
      PROVE  \/ \A i \in Items : item'[i].owner = item[i].owner
             \/ /\ x \in Users /\ user[x].st = "active"
                /\ \A i \in Items :
                     \/ item'[i] = item[i]
                     \/ /\ item'[i].owner = x /\ item[i].owner = u
                        /\ KindOf[i] = "step" => x # Submitter /\ \A j \in Items : KindOf[j] = "step" => item[j].owner # x
  <2>1. x # None => user[x].st = "active"
    BY <1>7, OffboardDoes
  <2>2. \A i \in Items :
          \/ item'[i] = item[i]
          \/ /\ item'[i].owner = x /\ x \in Users /\ item'[i].live = item[i].live
             /\ item[i].owner = u
             /\ KindOf[i] = "step" => x # Submitter /\ \A j \in Items : KindOf[j] = "step" => item[j].owner # x
    BY <1>7, OffboardGives
  <2>3. CASE x = None
    BY <2>2, <2>3, ConstantsAssumption
  <2>4. CASE x # None
    BY <2>1, <2>2, <2>4
  <2> QED
    BY <2>3, <2>4
<1> QED
  BY <1>1, <1>2, <1>3, <1>4, <1>5, <1>6, <1>7 DEF Next

LEMMA WorkKept ==
  ASSUME IInv, [Next]_vars
  PROVE  StepsOwned' /\ FairApproval'
<1>1. CASE \A i \in Items : item'[i].owner = item[i].owner
  BY <1>1 DEF StepsOwned, FairApproval, IInv
<1>2. ASSUME NEW i \in Items, item[i].owner = None, item'[i].owner \in Users, \A j \in Items \ {i} : item'[j] = item[j]
      PROVE  StepsOwned' /\ FairApproval'
  <2>1. KindOf[i] # "step"
    BY <1>2 DEF StepsOwned, IInv
  <2> QED
    BY <1>2, <2>1 DEF StepsOwned, FairApproval, IInv
<1>3. ASSUME NEW u \in Users, NEW x \in Users,
             \A i \in Items :
               \/ item'[i] = item[i]
               \/ /\ item'[i].owner = x /\ item[i].owner = u
                  /\ KindOf[i] = "step" => x # Submitter /\ \A j \in Items : KindOf[j] = "step" => item[j].owner # x
      PROVE  StepsOwned' /\ FairApproval'
  <2>1. StepsOwned'
    BY <1>3, ConstantsAssumption DEF StepsOwned, IInv
  <2>2. FairApproval'
    <3> SUFFICES ASSUME NEW i \in Items, NEW j \in Items, KindOf[i] = "step", KindOf[j] = "step"
                 PROVE  /\ item'[i].owner = Submitter => OwnerOf[i] = Submitter
                        /\ i # j => item'[i].owner # item'[j].owner
      BY DEF FairApproval
    <3>1. /\ item[i].owner = Submitter => OwnerOf[i] = Submitter
          /\ i # j => item[i].owner # item[j].owner
      BY DEF FairApproval, IInv
    <3> QED
      BY <1>3, <3>1
  <2> QED
    BY <2>1, <2>2
<1> QED
  BY <1>1, <1>2, <1>3, WorkMoves

-----------------------------------------------------------------------------
(* The invariant holds in every state.                                      *)
THEOREM MembersInvariant == Spec => []IInv
<1>1. Init => IInv
  <2> SUFFICES ASSUME Init PROVE IInv
    OBVIOUS
  <2>1. TypeOK
    <3>1. user \in [Users -> UserRow]
      BY ConstantsAssumption DEF Init, UserRow, Versions, AllRoles, AdminRoles
    <3>2. sess \in [Sessions -> SessionRow] /\ link \in [Links -> LinkRow] /\ recov \in RecoveryRow
      BY DEF Init, SessionRow, LinkRow, RecoveryRow, Versions
    <3>3. off \in [Users -> OffboardingRow] /\ pend \in [Sessions -> PendRow]
      BY DEF Init, OffboardingRow, PendRow, NoPend, Versions
    <3>4. item \in [Items -> ItemRow] /\ grant \subseteq Users /\ count \in 0..MaxCommands
      BY ConstantsAssumption DEF Init, ItemRow
    <3> QED
      BY <3>1, <3>2, <3>3, <3>4 DEF TypeOK, PendRow, ItemRow
  <2>2. GoneIsDisabled /\ ChainEnds
    BY DEF Init, GoneIsDisabled, ChainEnds
  <2>3. (\A s \in Sessions : SessionOK(s)) /\ (\A l \in Links : LinkOK(l)) /\ OneLiveInvitation
    BY DEF Init, SessionOK, LinkOK, OneLiveInvitation
  <2>4. StepsOwned /\ FairApproval
    BY ConstantsAssumption DEF Init, StepsOwned, FairApproval
  <2> QED
    BY <2>1, <2>2, <2>3, <2>4 DEF IInv
<1>2. IInv /\ [Next]_vars => IInv'
  <2> SUFFICES ASSUME IInv, [Next]_vars PROVE IInv'
    OBVIOUS
  <2>1. Orderly
    BY NextOrderly
  <2>2. (\A s \in Sessions : SessionOK(s)') /\ (\A l \in Links : LinkOK(l)')
    BY <2>1, SessionKept, LinkKept
  <2> QED
    BY <2>1, <2>2, ChainKept, WorkKept DEF IInv, Orderly
<1> QED
  BY <1>1, <1>2, PTL DEF Spec

(* A removed member is out, and at most one invitation of a member works,   *)
(* whatever logins, invitations, resets, Feishu callbacks and bootstraps    *)
(* were under way (the row locks of admin_api.py and offboarding_api.py).   *)
THEOREM AccessCorrect == Spec => []AccessSafety
<1>1. IInv => AccessSafety
  <2> SUFFICES ASSUME IInv PROVE AccessSafety
    OBVIOUS
  <2>1. RemovedIsOut
    BY DEF IInv, GoneIsDisabled, RemovedIsOut, Usable, UsableLink, Active
  <2>2. OneInvitation
    BY DEF IInv, OneLiveInvitation, OneInvitation, UsableLink
  <2> QED
    BY <2>1, <2>2 DEF AccessSafety
<1> QED
  BY <1>1, MembersInvariant, PTL

(* However often work is handed over, no chain of successors closes, and    *)
(* nobody approves an offer twice or is made an approver of their own       *)
(* (apply_handover, handover_destination).                                  *)
THEOREM HandoverCorrect == Spec => []HandoverSafety
<1>1. IInv => HandoverSafety
  BY DEF IInv, HandoverSafety
<1> QED
  BY <1>1, MembersInvariant, PTL

(* A session or a link that has stopped working never works again.          *)
THEOREM RevocationCorrect == Spec => NothingRevives
<1>1. IInv /\ [Next]_vars =>
        [/\ \A s \in Sessions : sess[s].u # None /\ ~Usable(s) => ~Usable(s)'
         /\ \A l \in Links : link[l].u # None /\ ~UsableLink(l) => ~UsableLink(l)']_vars
  BY NextOrderly, SessionKept, LinkKept
<1> QED
  BY <1>1, MembersInvariant, PTL DEF Spec, NothingRevives

(* A late product is given to a member who is there to do it                *)
(* (resolve_operational_user_id).                                           *)
THEOREM LateWorkCorrect == Spec => LateWorkHasOwner
<1>1. IInv /\ [Next]_vars =>
        [\A i \in Items : item[i].owner = None /\ item'[i].owner # None => Active(item'[i].owner)]_vars
  <2> SUFFICES ASSUME IInv, [Next]_vars, NEW i \in Items, item[i].owner = None, item'[i].owner # None
               PROVE  user[item'[i].owner].st = "active"
    BY DEF Active
  <2> QED
    BY WorkMoves, ConstantsAssumption
<1> QED
  BY <1>1, MembersInvariant, PTL DEF Spec, LateWorkHasOwner
=============================================================================
