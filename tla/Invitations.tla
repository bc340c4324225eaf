----------------------------- MODULE Invitations -----------------------------
(***************************************************************************)
(* Invitations to one organization and the memberships they lead to:       *)
(* src/internal/handlers/invitations.go, InviteMember of orgs.go, the      *)
(* hourly ticker of main.go, and their statements in queries.go.           *)
(*                                                                         *)
(* A handler reads the invitation, decides, and writes later, statement by *)
(* statement; only the registration of a new account runs in one           *)
(* transaction.  How the last owner is guarded is the subject of module    *)
(* OrgOwners: here a removal or demotion may go through or not.  Names are *)
(* chosen so that OrganizationProofs can extend both.                      *)
(***************************************************************************)
EXTENDS Naturals

CONSTANTS
    Addresses,  \* users, by the e-mail address that invitations are matched by
    Founder,    \* the user who created the organization
    Invites,    \* invitations that may be made
    Visits,     \* HTTP requests under way at the same time
    MaxOps      \* bound: requests made in all

ASSUME InviteAssumption == Founder \in Addresses /\ MaxOps \in Nat

VARIABLES
    member,    \* org_memberships: a user's role, or "none"
    account,   \* addresses that have an account
    inv,       \* invitations: address, role offered, status, whether expires_at is ahead
    req,       \* requests: pc and what they carry
    ops,       \* requests made
    joined,    \* ghost: invitations that made their addressee a member, or found one
    late       \* ghost: requests whose invitation was decided after they read it

inviteVars == <<member, account, inv, req, ops, joined, late>>

OfferedRoles == {"member", "admin"}
MemberRoles == OfferedRoles \cup {"owner"}
Decisions == {"accepted", "declined", "expired"}
NoRequest == [pc |-> "idle"]

InviteInit ==
    /\ member = [u \in Addresses |-> IF u = Founder THEN "owner" ELSE "none"]
    /\ \E known \in SUBSET Addresses : account = known \cup {Founder}
    /\ inv = [i \in Invites |-> [email |-> Founder, offer |-> "member", status |-> "unsent", ahead |-> FALSE]]
    /\ req = [r \in Visits |-> NoRequest]
    /\ ops = 0
    /\ joined = {} /\ late = {}

Pending(i) == inv[i].status = "pending"
InForce(i) == Pending(i) /\ inv[i].ahead
IsMember(u) == member[u] # "none"

(* CanManageOrg; staff, who need no membership, act like an admin.         *)
CanManage(u) == member[u] \in {"owner", "admin"}

Goto(r, q) == req' = [req EXCEPT ![r] = q]
Count == ops < MaxOps /\ ops' = ops + 1
Arrive(r, q) == Count /\ req[r] = NoRequest /\ Goto(r, q) /\ late' = late \ {r}

(* UPDATE invitations SET status = ... WHERE id = ..., whatever it was.    *)
Decide(i, status) ==
    /\ inv' = [inv EXCEPT ![i].status = status]
    /\ late' = late \cup {s \in Visits : req[s].pc \in {"insert", "register", "reset"} /\ req[s].i = i}

-----------------------------------------------------------------------------
(* A manager invites, resends, revokes.                                    *)

InviteMember(r, u, e, offer) ==
    /\ CanManage(u)
    /\ ~IsMember(e)
    /\ ~\E i \in Invites : InForce(i) /\ inv[i].email = e
    /\ Arrive(r, [pc |-> "create", e |-> e, offer |-> offer])
    /\ UNCHANGED <<member, account, inv, joined>>

(* idx_invitations_email_org_pending, which knows nothing of expires_at.   *)
NoPending(e) == ~\E i \in Invites : Pending(i) /\ inv[i].email = e

CreateInvitation(r, i) ==
    /\ req[r].pc = "create" /\ inv[i].status = "unsent"
    /\ inv' = IF NoPending(req[r].e)
              THEN [inv EXCEPT ![i] = [email |-> req[r].e, offer |-> req[r].offer, status |-> "pending", ahead |-> TRUE]]
              ELSE inv
    /\ Goto(r, NoRequest)
    /\ UNCHANGED <<ops, member, account, joined, late>>

ResendInvitation(r, u, i) ==
    /\ CanManage(u) /\ Pending(i)
    /\ Arrive(r, [pc |-> "reset", i |-> i])
    /\ UNCHANGED <<member, account, inv, joined>>

(* ResetInvitationToken: a new token and seven more days, whatever the     *)
(* status has become.                                                      *)
ResetToken(r) ==
    /\ req[r].pc = "reset"
    /\ inv' = [inv EXCEPT ![req[r].i].ahead = TRUE]
    /\ Goto(r, NoRequest)
    /\ UNCHANGED <<ops, member, account, joined, late>>

(* No look at the status: an accepted invitation may be revoked too.       *)
RevokeInvitation(r, u, i) ==
    /\ CanManage(u) /\ inv[i].status # "unsent"
    /\ Arrive(r, [pc |-> "mark", i |-> i, status |-> "expired"])
    /\ UNCHANGED <<member, account, inv, joined>>

-----------------------------------------------------------------------------
(* The addressee, logged in.                                               *)

(* Mutant: the status is not looked at.                                    *)
AcceptableAlways(i) == inv[i].status # "unsent" /\ inv[i].ahead
Acceptable(i) == InForce(i)

AcceptInvitation(r, i) ==
    /\ Acceptable(i) /\ inv[i].email \in account
    /\ Arrive(r, [pc |-> "insert", i |-> i])
    /\ UNCHANGED <<member, account, inv, joined>>

(* InsertOrgMembershipIfAbsent: the role a member has stays.               *)
WithMember(u, offer) == [member EXCEPT ![u] = IF IsMember(u) THEN @ ELSE offer]

(* Mutant: the status is written first.                                    *)
InsertAfterMark(r) ==
    LET i == req[r].i
    IN  /\ Decide(i, "accepted") /\ Goto(r, NoRequest)
        /\ \/ member' = WithMember(inv[i].email, inv[i].offer) /\ joined' = joined \cup {i}
           \/ UNCHANGED <<member, joined>>       \* the second statement failed
InsertMember(r) ==
    LET i == req[r].i
    IN  /\ member' = WithMember(inv[i].email, inv[i].offer)
        /\ joined' = joined \cup {i}
        /\ Goto(r, [pc |-> "mark", i |-> i, status |-> "accepted"])
        /\ UNCHANGED <<inv, late>>

JoinOrg(r) == req[r].pc = "insert" /\ InsertMember(r) /\ UNCHANGED <<account, ops>>

DeclineInvitation(r, i) ==
    /\ Pending(i) /\ inv[i].email \in account
    /\ Arrive(r, [pc |-> "mark", i |-> i, status |-> "declined"])
    /\ UNCHANGED <<member, account, inv, joined>>

MarkInvitation(r) ==
    /\ req[r].pc = "mark"
    /\ Decide(req[r].i, req[r].status)
    /\ Goto(r, NoRequest)
    /\ UNCHANGED <<ops, member, account, joined>>

-----------------------------------------------------------------------------
(* The addressee, without an account, follows the link.                    *)

InviteRegister(r, i) ==
    /\ InForce(i)
    /\ Arrive(r, [pc |-> "register", i |-> i])
    /\ UNCHANGED <<member, account, inv, joined>>

(* AND status = 'pending', checked by the rows affected.                   *)
Consumable(i) == Pending(i)

(* One transaction: the account, the invitation, the membership.           *)
AcceptInviteTx(r) ==
    LET i == req[r].i  u == inv[i].email
    IN  /\ req[r].pc = "register"
        /\ IF u \notin account /\ Consumable(i)
           THEN /\ account' = account \cup {u}
                /\ member' = [member EXCEPT ![u] = inv[i].offer]
                /\ joined' = joined \cup {i}
                /\ Decide(i, "accepted")
           ELSE UNCHANGED <<account, member, joined, inv, late>>
        /\ Goto(r, NoRequest) /\ UNCHANGED ops

-----------------------------------------------------------------------------

(* RemoveMember, UpdateMemberRole: no one removes themselves.              *)
RemoveMember(u, target) ==
    /\ Count /\ CanManage(u) /\ IsMember(target) /\ target # u
    /\ member' = [member EXCEPT ![target] = "none"]
    /\ UNCHANGED <<account, inv, req, joined, late>>

UpdateMemberRole(u, target, new) ==
    /\ Count /\ CanManage(u) /\ IsMember(target)
    /\ member' = [member EXCEPT ![target] = new]
    /\ UNCHANGED <<account, inv, req, joined, late>>

(* Seven days have passed.                                                 *)
Lapse(i) ==
    /\ InForce(i)
    /\ inv' = [inv EXCEPT ![i].ahead = FALSE]
    /\ UNCHANGED <<ops, member, account, req, joined, late>>

Overdue == {i \in Invites : Pending(i) /\ ~inv[i].ahead}

(* The hourly ticker.                                                      *)
ExpireOldInvitations ==
    /\ Overdue # {}
    /\ inv' = [i \in Invites |-> IF i \in Overdue THEN [inv[i] EXCEPT !.status = "expired"] ELSE inv[i]]
    /\ late' = late \cup {s \in Visits : req[s].pc \in {"insert", "register", "reset"} /\ req[s].i \in Overdue}
    /\ UNCHANGED <<ops, member, account, req, joined>>

(* A statement fails, the client is gone, or the replica dies.             *)
CutOff(r) ==
    /\ req[r] # NoRequest
    /\ Goto(r, NoRequest)
    /\ UNCHANGED <<ops, member, account, inv, joined, late>>

InviteNext ==
    \/ \E r \in Visits :
          \/ \E u, e \in Addresses, offer \in OfferedRoles : InviteMember(r, u, e, offer)
          \/ \E u \in Addresses, i \in Invites : ResendInvitation(r, u, i) \/ RevokeInvitation(r, u, i)
          \/ \E i \in Invites :
                CreateInvitation(r, i) \/ AcceptInvitation(r, i) \/ DeclineInvitation(r, i) \/ InviteRegister(r, i)
          \/ ResetToken(r) \/ JoinOrg(r) \/ MarkInvitation(r) \/ AcceptInviteTx(r) \/ CutOff(r)
    \/ \E u, target \in Addresses :
          RemoveMember(u, target) \/ \E new \in MemberRoles : UpdateMemberRole(u, target, new)
    \/ \E i \in Invites : Lapse(i)
    \/ ExpireOldInvitations

InviteSpec == InviteInit /\ [][InviteNext]_inviteVars

-----------------------------------------------------------------------------
(* The type invariant; a member has an account.                            *)
InviteTypeOK ==
    /\ member \in [Addresses -> MemberRoles \cup {"none"}]
    /\ account \subseteq Addresses
    /\ inv \in [Invites -> [email : Addresses, offer : OfferedRoles,
                            status : Decisions \cup {"unsent", "pending"}, ahead : BOOLEAN]]
    /\ \A r \in Visits : req[r].pc = "mark" => req[r].status \in Decisions
    /\ ops \in 0..MaxOps /\ joined \subseteq Invites /\ late \subseteq Visits
    /\ \A u \in Addresses : IsMember(u) => u \in account

(* An invitation on record as accepted has made its addressee a member (or *)
(* found one), even though the membership and the status are written in    *)
(* two statements and either may be the last.                              *)
AcceptedJoined == \A i \in Invites : inv[i].status = "accepted" => i \in joined

(* Whoever becomes a member was let in by an invitation that was pending   *)
(* until that step, or by a request that had read it while it was: no      *)
(* decision -- declined, revoked, expired, accepted before -- is undone by *)
(* a request that comes after it.                                          *)
AdmittedWhilePending ==
    [][\A u \in Addresses :
          (~IsMember(u) /\ member'[u] # "none") =>
              \E r \in Visits :
                  /\ req[r].pc \in {"insert", "register"} /\ req'[r] # req[r]
                  /\ inv[req[r].i].email = u
                  /\ Pending(req[r].i) \/ r \in late]_inviteVars

=============================================================================
