------------------------------ MODULE OrgOwners -----------------------------
(***************************************************************************)
(* The owners of one organization: its org_memberships rows as changed by  *)
(* RemoveMember and UpdateMemberRole (orgs.go) through the two guarded     *)
(* transactions of queries.go, and by accepted invitations.                *)
(*                                                                         *)
(* A guarded transaction begins with SELECT ... WHERE role = 'owner' ORDER *)
(* BY user_id FOR UPDATE.  READ COMMITTED fixes the rows it will look at   *)
(* when the statement starts.  They are then locked one after the other,   *)
(* and each is read again once it is locked: a row that is no owner's any  *)
(* more, or is deleted, is dropped; a row that became an owner's after the *)
(* start is never looked at.                                               *)
(***************************************************************************)
EXTENDS Integers

CONSTANTS
  Users,     \* by their user_id, which the rows are ordered by
  Requests   \* handler goroutines, on any server replica

ASSUME UsersAssumption == Users \subseteq Nat

VARIABLES
  role,  \* the committed org_memberships: a user's role, or "none"
  tx     \* the transaction of each request

vars == <<role, tx>>

-----------------------------------------------------------------------------
(* State *)

\* "member" stands for admin too: the guards tell only owners apart.
Roles == {"owner", "member"}

\* A transaction gives "target" the role "to" ("none" removes it).  "todo" are
\* the owner rows of its snapshot that it has not locked yet.
Tx == [open : BOOLEAN, target : Users, to : Roles \cup {"none"},
       todo : SUBSET Users, locked : SUBSET Users]

Owners == {u \in Users : role[u] = "owner"}

\* Mutant: SELECT without FOR UPDATE.
FreeAlways(t, u) == TRUE

\* No other transaction holds the lock of u's row.
Free(t, u) == \A s \in Requests : s # t => u \notin tx[s].locked

\* Commit or rollback: the locks go with the transaction.
Closed(x) == [x EXCEPT !.open = FALSE, !.todo = {}, !.locked = {}]

\* CreateOrgWithOwnerTx has just made the organization.
Init ==
  /\ \E creator \in Users :
       role = [u \in Users |-> IF u = creator THEN "owner" ELSE "none"]
  /\ tx \in [Requests -> {x \in Tx : x.to = "none" /\ x = Closed(x)}]

-----------------------------------------------------------------------------
(* lockOrgOwners *)

Begin(t, target, to) ==
  /\ ~tx[t].open
  /\ tx' = [tx EXCEPT ![t] = [open |-> TRUE, target |-> target, to |-> to,
                              todo |-> Owners, locked |-> {}]]
  /\ UNCHANGED role

\* Mutant: no ORDER BY.
IsNextAny(t, u) == u \in tx[t].todo

IsNext(t, u) == u \in tx[t].todo /\ \A v \in tx[t].todo : u <= v

\* The row is locked and read again.
Examined(x, u) ==
  [x EXCEPT !.todo = @ \ {u},
            !.locked = IF role[u] = "owner" THEN @ \cup {u} ELSE @]

LockOwner(t, u) ==
  /\ IsNext(t, u)
  /\ Free(t, u)
  /\ tx' = [tx EXCEPT ![t] = Examined(@, u)]
  /\ UNCHANGED role

-----------------------------------------------------------------------------
(* RemoveOrgMemberGuarded and UpdateOrgMemberRoleGuarded *)

HasLocked(t) == tx[t].open /\ tx[t].todo = {}

\* Mutant: the check of the last owner is skipped.
IsLastOwnerNever(t) == FALSE

\* ErrLastOwner: the list has one owner, the target.
IsLastOwner(t) == tx[t].to # "owner" /\ tx[t].locked = {tx[t].target}

Refuse(t) ==
  /\ HasLocked(t)
  /\ IsLastOwner(t)
  /\ tx' = [tx EXCEPT ![t] = Closed(@)]
  /\ UNCHANGED role

\* ErrMemberNotFound.
NotFound(t) ==
  /\ HasLocked(t)
  /\ ~IsLastOwner(t)
  /\ role[tx[t].target] = "none"
  /\ tx' = [tx EXCEPT ![t] = Closed(@)]
  /\ UNCHANGED role

\* The row of u is deleted under the snapshot of x.
Without(x, u) == [x EXCEPT !.todo = @ \ {u}]

\* The DELETE or UPDATE, which waits for the target's row, and the commit.  A
\* deleted row drops out of the snapshots of others: should its user return,
\* that is another row.
Write(t) ==
  LET target == tx[t].target
  IN  /\ HasLocked(t)
      /\ ~IsLastOwner(t)
      /\ role[target] # "none"
      /\ Free(t, target)
      /\ role' = [role EXCEPT ![target] = tx[t].to]
      /\ tx' = [s \in Requests |->
                  IF s = t THEN Closed(tx[t])
                  ELSE IF tx[t].to = "none" THEN Without(tx[s], target) ELSE tx[s]]

\* The client is gone, a statement fails, the replica dies, or PostgreSQL
\* breaks a deadlock: rollback.
Abort(t) ==
  /\ tx[t].open
  /\ tx' = [tx EXCEPT ![t] = Closed(@)]
  /\ UNCHANGED role

\* InsertOrgMembershipIfAbsent, or AcceptInviteTx for a new account.  Nobody is
\* invited as an owner.
Join(u) ==
  /\ role[u] = "none"
  /\ role' = [role EXCEPT ![u] = "member"]
  /\ UNCHANGED tx

-----------------------------------------------------------------------------

Step(t) ==
  \/ \E u \in Users, to \in Roles \cup {"none"} : Begin(t, u, to)
  \/ \E u \in Users : LockOwner(t, u)
  \/ Refuse(t)
  \/ NotFound(t)
  \/ Write(t)
  \/ Abort(t)

Next == (\E t \in Requests : Step(t)) \/ (\E u \in Users : Join(u))

Spec == Init /\ [][Next]_vars

-----------------------------------------------------------------------------
(* Properties *)

\* The type invariant; a transaction that is over holds no lock.
TypeOK ==
  /\ role \in [Users -> Roles \cup {"none"}]
  /\ tx \in [Requests -> Tx]
  /\ \A t \in Requests : ~tx[t].open => tx[t] = Closed(tx[t])

\* What the guards count on: an owner in the list lockOrgOwners returned is
\* still one, until that transaction ends, whatever others commit meanwhile.
ListedAreOwners == \A t \in Requests : tx[t].locked \subseteq Owners

\* Locks are taken in one order.
Ascending ==
  \A t \in Requests : \A u \in tx[t].locked, v \in tx[t].todo : u < v

\* "ORDER BY user_id ensures concurrent transactions acquire the row locks in
\* the same sequence, avoiding lock-ordering deadlocks": of two transactions in
\* lockOrgOwners, neither waits for a row of the other that waits for one of
\* its own.  (The row of a target that is no owner yet is outside that order.)
NoLockOrderDeadlock ==
  \A s, t \in Requests : \A u, v \in Users :
    ~(IsNext(s, u) /\ u \in tx[t].locked /\ IsNext(t, v) /\ v \in tx[s].locked)

\* How far the last-owner guard reaches: the organization loses its last owner
\* only to a transaction whose snapshot was so old that every owner in it had
\* been demoted or removed before it could be locked.
OwnerKept ==
  [][Owners # {} /\ Owners' = {} =>
       \E t \in Requests : HasLocked(t) /\ tx[t].locked = {} /\ ~tx'[t].open]_vars

=============================================================================
