------------------------- MODULE OrganizationProofs -------------------------
(***************************************************************************)
(* Proofs about what belongs to an organization: its owners (OrgOwners),   *)
(* the books of its projects (Projects) and its invitations (Invitations), *)
(* for any number of members, projects, invitations and requests.  The     *)
(* three share no state; this module extends all of them.                  *)
(***************************************************************************)
EXTENDS OrgOwners, Invitations, Projects, TLAPS

-----------------------------------------------------------------------------
(* The owners (OrgOwners).                                                 *)

\* A transaction record stays one when it is closed or its snapshot shrinks.
LEMMA ClosedType ==
  ASSUME NEW x \in Tx
  PROVE  /\ Closed(x) \in Tx
         /\ Closed(x).locked = {} /\ Closed(x).todo = {} /\ ~Closed(x).open
         /\ Closed(x) = Closed(Closed(x))
BY DEF Tx, Closed

\* The type invariant is inductive.
LEMMA TypeStep == TypeOK /\ [Next]_vars => TypeOK'
<1> SUFFICES ASSUME TypeOK, [Next]_vars PROVE TypeOK'
  OBVIOUS
<1> USE DEF TypeOK
<1>1. ASSUME NEW t \in Requests, NEW u \in Users, NEW to \in Roles \cup {"none"},
             Begin(t, u, to)
      PROVE  TypeOK'
  BY <1>1 DEF Begin, Tx, Owners
<1>2. ASSUME NEW t \in Requests, NEW u \in Users, LockOwner(t, u) PROVE TypeOK'
  <2>1. PICK x : x = Examined(tx[t], u)
    OBVIOUS
  <2>2. tx[t].open
    <3> SUFFICES ASSUME ~tx[t].open PROVE FALSE
      OBVIOUS
    <3>1. tx[t] \in Tx /\ tx[t] = Closed(tx[t])
      OBVIOUS
    <3>2. tx[t].todo = {}
      BY <3>1, ClosedType
    <3> QED
      BY <1>2, <3>2 DEF LockOwner, IsNext
  <2>3. x \in Tx /\ x.open
    BY <2>1, <2>2 DEF Tx, Examined
  <2>4. tx' = [tx EXCEPT ![t] = x] /\ role' = role
    BY <1>2, <2>1 DEF LockOwner
  <2>5. \A s \in Requests : tx'[s] = IF s = t THEN x ELSE tx[s]
    BY <2>4
  <2>6. tx' \in [Requests -> Tx]
    BY <2>3, <2>4
  <2>7. \A s \in Requests : ~tx'[s].open => tx'[s] = Closed(tx'[s])
    BY <2>3, <2>5
  <2> QED
    BY <2>4, <2>6, <2>7
<1>3. ASSUME NEW t \in Requests, tx' = [tx EXCEPT ![t] = Closed(@)], role' = role
      PROVE  TypeOK'
  <2>1. PICK x : x = Closed(tx[t])
    OBVIOUS
  <2>2. x \in Tx /\ x = Closed(x)
    BY <2>1, ClosedType
  <2> QED
    BY <1>3, <2>1, <2>2
<1>4. ASSUME NEW t \in Requests, Write(t) PROVE TypeOK'
  <2>1. tx[t] \in Tx /\ tx[t].target \in Users /\ tx[t].to \in Roles \cup {"none"}
    BY DEF Tx
  <2>2. role' \in [Users -> Roles \cup {"none"}]
    BY <1>4, <2>1 DEF Write
  <2>3. ASSUME NEW s \in Requests
        PROVE  tx'[s] \in Tx /\ (~tx'[s].open => tx'[s] = Closed(tx'[s]))
    <3>1. CASE s = t
      BY <1>4, <2>1, <3>1, ClosedType DEF Write
    <3>2. CASE s # t /\ tx[t].to = "none"
      <4>1. PICK x : x = Without(tx[s], tx[t].target)
        OBVIOUS
      <4>2. x \in Tx /\ x.open = tx[s].open
        BY <4>1 DEF Tx, Without
      <4>3. ASSUME ~x.open PROVE x = Closed(x)
        <5>1. tx[s] = Closed(tx[s]) /\ tx[s] \in Tx
          BY <4>2, <4>3
        <5>2. tx[s].todo = {}
          BY <5>1, ClosedType
        <5>3. x = tx[s]
          BY <4>1, <5>1, <5>2 DEF Without, Tx
        <5> QED
          BY <5>1, <5>3
      <4> QED
        BY <1>4, <3>2, <4>1, <4>2, <4>3 DEF Write
    <3>3. CASE s # t /\ tx[t].to # "none"
      <4>1. tx'[s] = tx[s]
        BY <1>4, <3>3 DEF Write
      <4> QED
        BY <4>1
    <3> QED
      BY <3>1, <3>2, <3>3
  <2>4. tx' = [s \in Requests |-> tx'[s]]
    BY <1>4 DEF Write
  <2>5. tx' \in [Requests -> Tx]
    BY <2>3, <2>4
  <2> QED
    BY <2>2, <2>3, <2>5
<1>5. ASSUME NEW u \in Users, Join(u) PROVE TypeOK'
  BY <1>5 DEF Join, Roles
<1>6. CASE UNCHANGED vars
  BY <1>6 DEF vars
<1> QED
  BY <1>1, <1>2, <1>3, <1>4, <1>5, <1>6 DEF Next, Step, Refuse, NotFound, Abort

\* The type invariant of the owners' model: a transaction that is over has let
\* go of its locks.
THEOREM TypeCorrect == Spec => []TypeOK
<1>1. Init => TypeOK
  BY DEF Init, TypeOK, Roles
<1> QED
  BY <1>1, TypeStep, PTL DEF Spec

\* What one step does to the list of locked owners and to the roles.
LEMMA ListedStep == TypeOK /\ ListedAreOwners /\ [Next]_vars => ListedAreOwners'
<1> SUFFICES ASSUME TypeOK, ListedAreOwners, [Next]_vars, NEW s \in Requests,
                    NEW y \in tx'[s].locked
             PROVE  y \in Users /\ role'[y] = "owner"
  BY DEF ListedAreOwners, Owners
<1>0. \A r \in Requests : \A z \in tx[r].locked : z \in Users /\ role[z] = "owner"
  BY DEF ListedAreOwners, Owners
<1>t. \A r \in Requests : tx[r] \in Tx
  BY DEF TypeOK
<1>1. ASSUME NEW t \in Requests, NEW u \in Users, NEW to \in Roles \cup {"none"},
             Begin(t, u, to)
      PROVE  y \in Users /\ role'[y] = "owner"
  BY <1>0, <1>1 DEF Begin, TypeOK
<1>2. ASSUME NEW t \in Requests, NEW u \in Users, LockOwner(t, u)
      PROVE  y \in Users /\ role'[y] = "owner"
  <2>1. y \in tx[s].locked \/ (y = u /\ role[u] = "owner")
    BY <1>2, <1>t DEF LockOwner, Examined, TypeOK, Tx
  <2> QED
    BY <1>0, <1>2, <2>1 DEF LockOwner
<1>3. ASSUME NEW t \in Requests, tx' = [tx EXCEPT ![t] = Closed(@)], role' = role
      PROVE  y \in Users /\ role'[y] = "owner"
  BY <1>0, <1>3, <1>t, ClosedType DEF TypeOK
<1>4. ASSUME NEW t \in Requests, Write(t) PROVE y \in Users /\ role'[y] = "owner"
  <2>1. s # t
    BY <1>4, <1>t, ClosedType DEF Write
  <2>2. y \in tx[s].locked
    BY <1>4, <1>t, <2>1 DEF Write, Without, Tx
  <2>3. y # tx[t].target
    BY <1>4, <2>1, <2>2 DEF Write, Free
  <2> QED
    BY <1>0, <1>4, <2>2, <2>3 DEF Write, TypeOK
<1>5. ASSUME NEW u \in Users, Join(u) PROVE y \in Users /\ role'[y] = "owner"
  BY <1>0, <1>5 DEF Join, TypeOK
<1>6. CASE UNCHANGED vars
  BY <1>0, <1>6 DEF vars
<1> QED
  BY <1>1, <1>2, <1>3, <1>4, <1>5, <1>6 DEF Next, Step, Refuse, NotFound, Abort

\* Whoever lockOrgOwners returned stays an owner while the transaction runs,
\* whatever the other requests commit.
THEOREM ListedOwnersStay == Spec => []ListedAreOwners
<1>1. Init => ListedAreOwners
  BY ClosedType DEF Init, ListedAreOwners
<1> QED
  BY <1>1, TypeCorrect, ListedStep, PTL DEF Spec

\* Rows are locked in ascending order of user_id.
LEMMA AscendingStep == TypeOK /\ Ascending /\ [Next]_vars => Ascending'
<1> SUFFICES ASSUME TypeOK, Ascending, [Next]_vars, NEW s \in Requests,
                    NEW x \in tx'[s].locked, NEW y \in tx'[s].todo
             PROVE  x < y
  BY DEF Ascending
<1>0. \A a \in tx[s].locked, b \in tx[s].todo : a < b
  BY DEF Ascending
<1>t. \A r \in Requests : tx[r] \in Tx
  BY DEF TypeOK
<1>1. ASSUME NEW t \in Requests, NEW u \in Users, NEW to \in Roles \cup {"none"},
             Begin(t, u, to)
      PROVE  x < y
  BY <1>0, <1>1 DEF Begin, TypeOK
<1>2. ASSUME NEW t \in Requests, NEW u \in Users, LockOwner(t, u) PROVE x < y
  <2>1. CASE s # t
    BY <1>0, <1>2, <2>1 DEF LockOwner, TypeOK
  <2>2. CASE s = t
    <3>1. x \in tx[t].locked \cup {u} /\ y \in tx[t].todo /\ y # u
      BY <1>2, <1>t, <2>2 DEF LockOwner, Examined, TypeOK, Tx
    <3>2. u \in Nat /\ y \in Nat /\ u <= y
      BY <1>2, <1>t, <3>1, UsersAssumption DEF LockOwner, IsNext, Tx
    <3> QED
      BY <1>0, <2>2, <3>1, <3>2
  <2> QED
    BY <2>1, <2>2
<1>3. ASSUME NEW t \in Requests, tx' = [tx EXCEPT ![t] = Closed(@)] PROVE x < y
  BY <1>0, <1>3, <1>t, ClosedType DEF TypeOK
<1>4. ASSUME NEW t \in Requests, Write(t) PROVE x < y
  <2>1. s # t
    BY <1>4, <1>t, ClosedType DEF Write
  <2>2. x \in tx[s].locked /\ y \in tx[s].todo
    BY <1>4, <1>t, <2>1 DEF Write, Without, Tx
  <2> QED
    BY <1>0, <2>2
<1>5. CASE UNCHANGED tx
  BY <1>0, <1>5
<1> QED
  BY <1>1, <1>2, <1>3, <1>4, <1>5 DEF Next, Step, Refuse, NotFound, Abort, Join, vars

\* Two transactions in lockOrgOwners never wait for each other.
THEOREM NoLockCycle == Spec => []NoLockOrderDeadlock
<1>1. Init => Ascending
  BY ClosedType DEF Init, Ascending
<1>2. TypeOK /\ Ascending => NoLockOrderDeadlock
  <2> SUFFICES ASSUME TypeOK, Ascending, NEW s \in Requests, NEW t \in Requests,
                      NEW u \in Users, NEW v \in Users,
                      IsNext(s, u), u \in tx[t].locked,
                      IsNext(t, v), v \in tx[s].locked
               PROVE  FALSE
    BY DEF NoLockOrderDeadlock
  <2>1. u \in tx[s].todo /\ v \in tx[t].todo
    BY DEF IsNext
  <2>2. u < v /\ v < u
    BY <2>1 DEF Ascending
  <2> QED
    BY <2>2, UsersAssumption
<1> QED
  BY <1>1, <1>2, TypeCorrect, AscendingStep, PTL DEF Spec

\* The organization keeps an owner, unless a transaction found none of the
\* owners of its snapshot when it came to lock them.
THEOREM LastOwnerKept == Spec => OwnerKept
<1>1. TypeOK /\ ListedAreOwners /\ [Next]_vars =>
        [Owners # {} /\ Owners' = {} =>
           \E t \in Requests : HasLocked(t) /\ tx[t].locked = {} /\ ~tx'[t].open]_vars
  <2> SUFFICES ASSUME TypeOK, ListedAreOwners, [Next]_vars, Owners # {}, Owners' = {}
               PROVE  \E t \in Requests :
                        HasLocked(t) /\ tx[t].locked = {} /\ ~tx'[t].open
    OBVIOUS
  <2>0. PICK o \in Users : role[o] = "owner"
    BY DEF Owners
  <2>n. \A x \in Users : role'[x] # "owner"
    BY DEF Owners
  <2>1. ASSUME NEW u \in Users, Join(u) PROVE FALSE
    BY <2>0, <2>1, <2>n DEF Join, TypeOK
  <2>2. role' # role
    BY <2>0, <2>n
  <2>3. PICK t \in Requests : Write(t)
    BY <2>1, <2>2
       DEF Next, Step, Begin, LockOwner, Refuse, NotFound, Abort, vars
  <2>4. tx[t] \in Tx /\ tx[t].target \in Users
    BY DEF TypeOK, Tx
  <2>5. HasLocked(t) /\ ~tx'[t].open
    BY <2>3, <2>4, ClosedType DEF Write
  <2>6. tx[t].to # "owner"
    BY <2>3, <2>4, <2>n DEF Write, TypeOK
  <2>7. tx[t].locked # {tx[t].target}
    BY <2>3, <2>6 DEF Write, IsLastOwner
  <2>8. ASSUME NEW y \in tx[t].locked, y # tx[t].target PROVE FALSE
    <3>1. y \in Users /\ role[y] = "owner"
      BY <2>8 DEF ListedAreOwners, Owners
    <3> QED
      BY <2>3, <2>8, <2>n, <3>1 DEF Write, TypeOK
  <2>9. tx[t].locked = {}
    BY <2>7, <2>8
  <2> QED
    BY <2>5, <2>9
<1> QED
  BY <1>1, TypeCorrect, ListedOwnersStay, PTL DEF Spec, OwnerKept
-----------------------------------------------------------------------------
(* The books of projects (Projects).                                       *)

(* What a handler has read.                                                *)
Editor == [at : {"brief", "revised"}, on : Projects, seen : Texts, new : Texts]
Recorder == [at : {"usage"}, on : Projects, seen : Orgs, new : {"none"}]
Reads(q) == q \in Editor \cup Recorder /\ Exists(q.on)

BooksTyped ==
    /\ BooksTypeOK
    /\ DOMAIN handler = Handlers
    /\ \A h \in Handlers : handler[h] = Idle \/ Reads(handler[h])

(* A project keeps its row.                                                *)
Kept == DOMAIN project' = Projects /\ \A p \in Projects : Exists(p) => Exists(p)'

(* A step that changes one handler to a state of the right type keeps the  *)
(* types of all.                                                           *)
LEMMA HandlersTyped ==
    ASSUME BooksTyped, Kept, NEW h \in Handlers, NEW q, handler' = [handler EXCEPT ![h] = q],
           q = Idle \/ Reads(q)'
    PROVE  /\ DOMAIN handler' = Handlers
           /\ \A g \in Handlers : handler'[g] = Idle \/ Reads(handler[g])'
<1>1. ASSUME NEW x, Reads(x) PROVE Reads(x)'
  <2>1. x.on \in Projects
    BY <1>1 DEF Reads, Editor, Recorder
  <2> QED BY <1>1, <2>1 DEF Reads, Kept
<1>2. ASSUME NEW g \in Handlers PROVE handler'[g] = Idle \/ Reads(handler[g])'
  <2>1. CASE g = h
    <3>1. handler'[g] = q
      BY <2>1 DEF BooksTyped
    <3> QED BY <3>1 DEF Reads
  <2>2. CASE g # h
    <3>1. handler'[g] = handler[g]
      BY <2>2 DEF BooksTyped
    <3>2. PICK x : x = handler[g]
      OBVIOUS
    <3>3. x = Idle \/ Reads(x)
      BY <3>2 DEF BooksTyped
    <3>4. x = Idle \/ Reads(x)'
      BY <3>3, <1>1
    <3> QED BY <3>1, <3>2, <3>4 DEF Reads
  <2> QED BY <2>1, <2>2
<1> QED BY <1>2 DEF BooksTyped
(* What a handler has read tells where it is.                              *)
LEMMA WhereIsRead ==
    ASSUME BooksTyped, NEW h \in Handlers
    PROVE  /\ handler[h].at \in {"brief", "revised"} => handler[h] \in Editor /\ Exists(handler[h].on)
           /\ handler[h].at = "usage" => handler[h] \in Recorder /\ Exists(handler[h].on)
<1>1. ASSUME handler[h] = Idle PROVE handler[h].at = "idle"
  BY <1>1 DEF Idle
<1>2. \A q \in Editor : q.at \in {"brief", "revised"}
  BY DEF Editor
<1>3. \A q \in Recorder : q.at = "usage"
  BY DEF Recorder
<1>4. handler[h] = Idle \/ (handler[h] \in Editor \cup Recorder /\ Exists(handler[h].on))
  BY DEF BooksTyped, Reads
<1> QED BY <1>1, <1>2, <1>3, <1>4

(* The steps of a handler keep the types, and no step removes a project.   *)
LEMMA BooksHandlerStep == BooksTyped /\ HandlerStep => BooksTyped'
<1> SUFFICES ASSUME BooksTyped, HandlerStep PROVE BooksTyped'
  OBVIOUS
<1>0. None \notin Project
  BY ProjectsAssumption DEF None, Project
<1>k. ASSUME UNCHANGED project PROVE Kept
  BY <1>k DEF Kept, BooksTyped, BooksTypeOK, Exists
<1>1. ASSUME NEW h \in Handlers, NEW p \in Projects, NEW o \in Orgs, Exists(p),
             Work(h, "usage", p, o, "none"), astray' \subseteq Handlers,
             UNCHANGED <<project, revisions, usage, been, overlapped, misfiled, transfers>>
      PROVE  BooksTyped'
  <2>1. BooksTypeOK'
    BY <1>1 DEF BooksTyped, BooksTypeOK, Exists
  <2>2. PICK q : q = [at |-> "usage", on |-> p, seen |-> o, new |-> "none"]
    OBVIOUS
  <2>3. handler' = [handler EXCEPT ![h] = q]
    BY <1>1, <2>2 DEF Work
  <2>4. q \in Recorder
    BY <2>2 DEF Recorder
  <2>5. Reads(q)'
    BY <1>1, <2>2, <2>4 DEF Reads, Exists
  <2> QED BY <1>k, <1>1, <2>1, <2>3, <2>5, HandlersTyped DEF BooksTyped
<1>7. ASSUME NEW h \in Handlers, NEW p \in Projects, ReadOrg(h, p) PROVE BooksTyped'
  <2>1. project[p].org \in Orgs /\ astray' \subseteq Handlers
    BY <1>7 DEF ReadOrg, ghosts, BooksTyped, BooksTypeOK, Exists, Project
  <2> QED BY <1>1, <1>7, <2>1 DEF ReadOrg, books, ghosts
<1>8. ASSUME NEW h \in Handlers, NEW p \in Projects, NEW o \in Orgs, FallBack(h, p, o)
      PROVE  BooksTyped'
  <2>1. astray' \subseteq Handlers
    BY <1>8 DEF FallBack, BooksTyped, BooksTypeOK
  <2> QED BY <1>1, <1>8, <2>1 DEF FallBack, books
<1>2. ASSUME NEW h \in Handlers, NEW p \in Projects, NEW text \in Texts, ReadBrief(h, p, text)
      PROVE  BooksTyped'
  <2>1. UNCHANGED <<project, revisions, usage, been, astray, misfiled, transfers>>
    BY <1>2 DEF ReadBrief, books
  <2>2. overlapped' \in [Projects -> BOOLEAN]
    BY <1>2 DEF ReadBrief, BooksTyped, BooksTypeOK
  <2>3. BooksTypeOK'
    BY <2>1, <2>2 DEF BooksTyped, BooksTypeOK, Exists
  <2>4. project[p] \in Project /\ Exists(p)
    BY <1>2 DEF ReadBrief, BooksTyped, BooksTypeOK, Exists
  <2>5. PICK q : q = [at |-> "brief", on |-> p, seen |-> project[p].brief, new |-> text]
    OBVIOUS
  <2>6. handler' = [handler EXCEPT ![h] = q]
    BY <1>2, <2>5 DEF ReadBrief, Work
  <2>7. q \in Editor
    BY <2>4, <2>5 DEF Editor, Project
  <2>8. Reads(q)'
    BY <2>1, <2>4, <2>5, <2>7 DEF Reads, Exists
  <2> QED BY <1>k, <2>1, <2>3, <2>6, <2>8, HandlersTyped DEF BooksTyped
<1>3. ASSUME NEW h \in Handlers, NEW fails \in BOOLEAN, CreateBriefRevision(h, fails)
      PROVE  BooksTyped'
  <2>1. UNCHANGED <<project, usage, been, astray, misfiled, transfers>>
    BY <1>3 DEF CreateBriefRevision
  <2>2. handler[h] \in Editor /\ Exists(handler[h].on)
    BY <1>3, WhereIsRead DEF CreateBriefRevision
  <2>3. PICK q : q = [handler[h] EXCEPT !.at = "revised"]
    OBVIOUS
  <2>4. handler' = [handler EXCEPT ![h] = q]
    BY <1>3, <2>3 DEF CreateBriefRevision
  <2>5. q \in Editor /\ q.on = handler[h].on
    BY <2>2, <2>3 DEF Editor
  <2>6. Reads(q)'
    BY <2>1, <2>2, <2>5 DEF Reads, Exists
  <2>7. revisions' \in [Projects -> SUBSET Texts] /\ overlapped' \in [Projects -> BOOLEAN]
    <3>1. handler[h].on \in Projects /\ handler[h].seen \in Texts
      BY <2>2 DEF Editor
    <3> QED BY <1>3, <3>1 DEF CreateBriefRevision, Previous, BooksTyped, BooksTypeOK
  <2>8. BooksTypeOK'
    BY <2>1, <2>7 DEF BooksTyped, BooksTypeOK, Exists
  <2> QED BY <1>k, <2>1, <2>4, <2>6, <2>8, HandlersTyped DEF BooksTyped
<1>4. ASSUME NEW h \in Handlers, NEW fails \in BOOLEAN, UpdateProjectBrief(h, fails)
      PROVE  BooksTyped'
  <2>1. UNCHANGED <<revisions, usage, overlapped, astray, misfiled, transfers>>
    BY <1>4 DEF UpdateProjectBrief, books
  <2>2. handler[h] \in Editor /\ Exists(handler[h].on)
    BY <1>4, WhereIsRead DEF UpdateProjectBrief
  <2>3. PICK p \in Projects : p = handler[h].on
    BY <2>2 DEF Editor
  <2>4. handler[h].new \in Texts
    BY <2>2 DEF Editor
  <2>5. project[p] \in Project
    BY <2>2, <2>3 DEF BooksTyped, BooksTypeOK, Exists
  <2>6. CASE fails
    <3>1. UNCHANGED <<project, been>>
      BY <1>4, <2>6 DEF UpdateProjectBrief
    <3>2. BooksTypeOK'
      BY <3>1, <2>1 DEF BooksTyped, BooksTypeOK, Exists
    <3>3. handler' = [handler EXCEPT ![h] = Idle]
      BY <1>4 DEF UpdateProjectBrief, End
    <3> QED BY <1>k, <3>1, <3>2, <3>3, HandlersTyped DEF BooksTyped
  <2>7. CASE ~fails
    <3>1. /\ project' = [project EXCEPT ![p].brief = handler[h].new]
          /\ been' = [been EXCEPT ![p] = @ \cup {handler[h].new}]
      BY <1>4, <2>3, <2>7 DEF UpdateProjectBrief
    <3>2. been' \in [Projects -> SUBSET Texts]
      BY <3>1, <2>4 DEF BooksTyped, BooksTypeOK
    <3>3. PICK n : n = [project[p] EXCEPT !.brief = handler[h].new]
      OBVIOUS
    <3>4. n \in Project /\ n.org = project[p].org /\ n.slug = project[p].slug
      BY <3>3, <2>4, <2>5 DEF Project
    <3>5. project' = [project EXCEPT ![p] = n]
      BY <3>1, <3>3
    <3>6. project' \in [Projects -> Project \cup {None}]
      BY <3>4, <3>5 DEF BooksTyped, BooksTypeOK
    <3>7. \A x \in Projects : /\ Exists(x)' <=> Exists(x)
                              /\ project'[x].org = project[x].org /\ project'[x].slug = project[x].slug
      BY <1>0, <2>2, <2>3, <3>4, <3>5 DEF BooksTyped, BooksTypeOK, Exists
    <3>8. BooksTypeOK'
      BY <2>1, <3>2, <3>6, <3>7 DEF BooksTyped, BooksTypeOK
    <3>9. handler' = [handler EXCEPT ![h] = Idle]
      BY <1>4 DEF UpdateProjectBrief, End
    <3>10. Kept
      BY <3>6, <3>7 DEF Kept
    <3> QED BY <3>8, <3>9, <3>10, HandlersTyped DEF BooksTyped
  <2> QED BY <2>6, <2>7
<1>5. ASSUME NEW h \in Handlers, NEW e \in Entries, CreateAIUsageEntry(h, e)
      PROVE  BooksTyped'
  <2>1. UNCHANGED <<project, revisions, been, overlapped, transfers>>
    BY <1>5 DEF CreateAIUsageEntry
  <2>2. handler[h] \in Recorder
    BY <1>5, WhereIsRead DEF CreateAIUsageEntry
  <2>3. usage' \in [Entries -> Entry \cup {NoEntry}] /\ misfiled' \subseteq Entries
        /\ astray' \subseteq Handlers
    <3>1. [on |-> handler[h].on, org |-> handler[h].seen] \in Entry
      BY <2>2 DEF Recorder, Entry
    <3> QED BY <1>5, <3>1 DEF CreateAIUsageEntry, BooksTyped, BooksTypeOK
  <2>4. BooksTypeOK'
    BY <2>1, <2>3 DEF BooksTyped, BooksTypeOK, Exists
  <2>5. handler' = [handler EXCEPT ![h] = Idle]
    BY <1>5 DEF CreateAIUsageEntry, End
  <2> QED BY <1>k, <2>1, <2>4, <2>5, HandlersTyped DEF BooksTyped
<1>6. ASSUME NEW h \in Handlers, UsageUnrecorded(h) PROVE BooksTyped'
  <2>1. UNCHANGED <<project, revisions, usage, been, overlapped, misfiled, transfers>>
        /\ astray' = astray \ {h}
    BY <1>6 DEF UsageUnrecorded, books
  <2>2. BooksTypeOK'
    BY <2>1 DEF BooksTyped, BooksTypeOK, Exists
  <2>3. handler' = [handler EXCEPT ![h] = Idle]
    BY <1>6 DEF UsageUnrecorded, End
  <2> QED BY <1>k, <2>1, <2>2, <2>3, HandlersTyped DEF BooksTyped
<1> QED BY <1>2, <1>3, <1>4, <1>5, <1>6, <1>7, <1>8 DEF HandlerStep
(* The type invariant is inductive.                                        *)
LEMMA BooksTypeStep == BooksTyped /\ [BooksNext]_projectVars => BooksTyped'
<1> SUFFICES ASSUME BooksTyped, [BooksNext]_projectVars PROVE BooksTyped'
  OBVIOUS
<1>0. None \notin Project /\ None.org = "none" /\ \A n \in Project : n.org \in Orgs
  BY ProjectsAssumption DEF None, Project
<1>1. ASSUME NEW p \in Projects, MarkBriefReviewed(p) PROVE BooksTyped'
  <2>1. UNCHANGED <<project, usage, handler, been, overlapped, astray, misfiled, transfers>>
    BY <1>1 DEF MarkBriefReviewed, ghosts
  <2>2. revisions' \in [Projects -> SUBSET Texts]
    BY <1>1 DEF MarkBriefReviewed, BooksTyped, BooksTypeOK, Texts
  <2> QED BY <2>1, <2>2 DEF BooksTyped, BooksTypeOK, Exists, Reads
<1>2. ASSUME NEW p \in Projects, NEW o \in Orgs, TransferProject(p, o) PROVE BooksTyped'
  <2>0. transfers \in 0..MaxTransfers /\ MaxTransfers \in Nat
    BY ProjectsAssumption DEF BooksTyped, BooksTypeOK
  <2>t. UNCHANGED <<revisions, handler, been, overlapped>> /\ transfers < MaxTransfers /\ transfers' = transfers + 1
    BY <1>2 DEF TransferProject
  <2>1. UNCHANGED <<revisions, handler, been, overlapped>> /\ transfers' \in 0..MaxTransfers
    BY <2>0, <2>t
  <2>2. project[p] \in Project
    BY <1>2 DEF TransferProject, BooksTyped, BooksTypeOK, Exists
  <2>3. PICK n : n = [project[p] EXCEPT !.org = o]
    OBVIOUS
  <2>4. n \in Project /\ n.org = o /\ n.slug = project[p].slug
    BY <2>2, <2>3 DEF Project
  <2>5. project' = [project EXCEPT ![p] = n]
    BY <1>2, <2>3 DEF TransferProject
  <2>6. project' \in [Projects -> Project \cup {None}]
    BY <2>4, <2>5 DEF BooksTyped, BooksTypeOK
  <2>7. \A x \in Projects : Exists(x)' <=> Exists(x)
    BY <1>0, <1>2, <2>4, <2>5 DEF TransferProject, BooksTyped, BooksTypeOK, Exists
  <2>8. ASSUME NEW x \in Projects, NEW y \in Projects, x # y, Exists(x)', Exists(y)'
        PROVE  <<project'[x].org, project'[x].slug>> # <<project'[y].org, project'[y].slug>>
    <3>1. \A z \in Projects : ~(project[z].org = o /\ project[z].slug = n.slug)
      BY <1>2, <2>4 DEF TransferProject, MayTransfer, SlugFree
    <3>2. Exists(x) /\ Exists(y)
      BY <2>7, <2>8
    <3>3. <<project[x].org, project[x].slug>> # <<project[y].org, project[y].slug>>
      BY <2>8, <3>2 DEF BooksTyped, BooksTypeOK
    <3>4. \A z \in Projects : project'[z] = IF z = p THEN n ELSE project[z]
      BY <2>5 DEF BooksTyped, BooksTypeOK
    <3>5. CASE x = p
      <4>1. project'[x].org = o /\ project'[x].slug = n.slug /\ project'[y] = project[y]
        BY <2>4, <2>8, <3>4, <3>5
      <4> QED BY <3>1, <4>1
    <3>6. CASE y = p
      <4>1. project'[y].org = o /\ project'[y].slug = n.slug /\ project'[x] = project[x]
        BY <2>4, <2>8, <3>4, <3>6
      <4> QED BY <3>1, <4>1
    <3>7. CASE x # p /\ y # p
      BY <3>3, <3>4, <3>7
    <3> QED BY <3>5, <3>6, <3>7
  <2>9. usage' \in [Entries -> Entry \cup {NoEntry}] /\ misfiled' \subseteq Entries
        /\ astray' \subseteq Handlers
    <3>1. usage' = [e \in Entries |-> IF e \in Of(p) THEN [usage[e] EXCEPT !.org = o] ELSE usage[e]]
      BY <1>2 DEF TransferProject, Moved
    <3>2. \A e \in Entries : e \in Of(p) => usage[e] \in Entry
      BY DEF BooksTyped, BooksTypeOK, Of
    <3>3. \A x \in Entry : [x EXCEPT !.org = o] \in Entry
      BY DEF Entry
    <3>4. \A e \in Entries : usage'[e] \in Entry \cup {NoEntry}
      BY <3>1, <3>2, <3>3 DEF BooksTyped, BooksTypeOK
    <3> QED BY <1>2, <3>1, <3>4 DEF TransferProject, BooksTyped, BooksTypeOK
  <2>10. BooksTypeOK'
    BY <2>1, <2>6, <2>8, <2>9 DEF BooksTyped, BooksTypeOK
  <2> QED BY <2>1, <2>7, <2>10 DEF BooksTyped, Reads, Editor, Recorder
<1>3. ASSUME NEW p \in Projects, NEW o \in Orgs, NEW s \in Slugs, CreateProject(p, o, s) PROVE BooksTyped'
  <2>1. UNCHANGED <<revisions, usage, handler, overlapped, astray, misfiled, transfers>>
    BY <1>3 DEF CreateProject, books
  <2>2. PICK n : n = [org |-> o, slug |-> s, brief |-> ""]
    OBVIOUS
  <2>3. n \in Project /\ n.org = o /\ n.slug = s
    BY <2>2 DEF Project, Texts
  <2>4. project' = [project EXCEPT ![p] = n]
    BY <1>3, <2>2 DEF CreateProject
  <2>5. project' \in [Projects -> Project \cup {None}] /\ been' \in [Projects -> SUBSET Texts]
    BY <1>3, <2>3, <2>4 DEF CreateProject, BooksTyped, BooksTypeOK, Texts
  <2>6. \A z \in Projects : project'[z] = IF z = p THEN n ELSE project[z]
    BY <2>4 DEF BooksTyped, BooksTypeOK
  <2>7. \A x \in Projects : Exists(x)' <=> x = p \/ Exists(x)
    BY <1>0, <2>3, <2>6 DEF Exists
  <2>8. ASSUME NEW x \in Projects, NEW y \in Projects, x # y, Exists(x)', Exists(y)'
        PROVE  <<project'[x].org, project'[x].slug>> # <<project'[y].org, project'[y].slug>>
    <3>1. \A z \in Projects : ~(project[z].org = o /\ project[z].slug = s)
      BY <1>3 DEF CreateProject, SlugFree
    <3>2. x # p /\ y # p => <<project[x].org, project[x].slug>> # <<project[y].org, project[y].slug>>
      BY <2>7, <2>8 DEF BooksTyped, BooksTypeOK
    <3> QED BY <2>3, <2>6, <2>8, <3>1, <3>2
  <2>9. BooksTypeOK'
    BY <2>1, <2>5, <2>8 DEF BooksTyped, BooksTypeOK
  <2> QED BY <2>1, <2>7, <2>9 DEF BooksTyped, Reads, Editor, Recorder
<1>4. CASE UNCHANGED projectVars
  BY <1>4 DEF projectVars, books, ghosts, BooksTyped, BooksTypeOK, Exists, Reads
<1> QED BY <1>1, <1>2, <1>3, <1>4, BooksHandlerStep DEF BooksNext

LEMMA BooksTypeInv == BooksSpec => []BooksTyped
<1>1. ASSUME BooksInit PROVE BooksTyped
  <2>0. transfers = 0 /\ MaxTransfers \in Nat
    BY <1>1, ProjectsAssumption DEF BooksInit
  <2>1. transfers \in 0..MaxTransfers
    BY <2>0
  <2>2. BooksTypeOK
    BY <1>1, <2>1 DEF BooksInit, BooksTypeOK, Exists
  <2> QED BY <1>1, <2>2 DEF BooksInit, BooksTyped
<1>2. BooksTyped /\ [BooksNext]_projectVars => BooksTyped'
  BY BooksTypeStep
<1> QED BY <1>1, <1>2, PTL DEF BooksSpec

(* The type invariant; in particular no two projects have the same slug in *)
(* one organization, also after transfers.                                 *)
THEOREM BooksTypeCorrect == BooksSpec => []BooksTypeOK
<1>1. BooksTyped => BooksTypeOK
  BY DEF BooksTyped
<1> QED BY <1>1, BooksTypeInv, PTL
(* Usage: an entry is one of a project that exists; a request that is not  *)
(* astray still has in hand the organization of its project.               *)
Filed(e) ==
    usage[e] # NoEntry =>
        /\ usage[e].on \in Projects /\ Exists(usage[e].on)
        /\ e \notin misfiled => usage[e].org = project[usage[e].on].org

InHand(h) ==
    handler[h].at = "usage" /\ h \notin astray => handler[h].seen = project[handler[h].on].org

Booked == (\A e \in Entries : Filed(e)) /\ (\A h \in Handlers : InHand(h))

(* A step that changes no project's organization, of a handler that goes on *)
(* to something that is no recording of usage, or already right.           *)
LEMMA StillInHand ==
    ASSUME BooksTyped, Booked, NEW h \in Handlers, NEW q, handler' = [handler EXCEPT ![h] = q],
           q.at = "usage" /\ h \notin astray' => q.seen = project'[q.on].org,
           \A g \in Handlers : g # h => (g \in astray' <=> g \in astray),
           \A p \in Projects : Exists(p) => project'[p].org = project[p].org
    PROVE  \A g \in Handlers : InHand(g)'
<1> SUFFICES ASSUME NEW g \in Handlers PROVE InHand(g)'
  OBVIOUS
<1>1. DOMAIN handler = Handlers
  BY DEF BooksTyped
<1>2. CASE g = h
  <2>1. handler'[g] = q
    BY <1>1, <1>2
  <2> QED BY <1>2, <2>1 DEF InHand
<1>3. CASE g # h
  <2>1. handler'[g] = handler[g] /\ (g \in astray' <=> g \in astray) /\ InHand(g)
    BY <1>1, <1>3 DEF Booked
  <2>2. handler[g].at = "usage" => handler[g].on \in Projects /\ Exists(handler[g].on)
    BY WhereIsRead DEF Recorder
  <2> QED BY <2>1, <2>2 DEF InHand
<1> QED BY <1>2, <1>3

LEMMA BookedStep == BooksTyped /\ Booked /\ [BooksNext]_projectVars => Booked'
<1> SUFFICES ASSUME BooksTyped, Booked, [BooksNext]_projectVars PROVE Booked'
  OBVIOUS
<1>t. /\ project \in [Projects -> Project \cup {None}]
      /\ usage \in [Entries -> Entry \cup {NoEntry}]
      /\ DOMAIN handler = Handlers
  BY DEF BooksTyped, BooksTypeOK
<1>n. "none" \notin Orgs /\ None.org = "none" /\ NoEntry.org = "none" /\ Idle.at = "idle"
  BY ProjectsAssumption DEF None, NoEntry, Idle
<1>1. ASSUME UNCHANGED <<usage, misfiled>>,
             \A p \in Projects : Exists(p) => project'[p] # None /\ project'[p].org = project[p].org
      PROVE  \A e \in Entries : Filed(e)'
  BY <1>1 DEF Booked, Filed, Exists
<1>2. ASSUME UNCHANGED project
      PROVE  \A p \in Projects : Exists(p) => project'[p] # None /\ project'[p].org = project[p].org
  BY <1>2 DEF Exists
<1>3. ASSUME UNCHANGED handler, UNCHANGED astray,
             \A p \in Projects : Exists(p) => project'[p].org = project[p].org
      PROVE  \A h \in Handlers : InHand(h)'
  <2> SUFFICES ASSUME NEW h \in Handlers PROVE InHand(h)'
    OBVIOUS
  <2>1. handler[h].at = "usage" => handler[h].on \in Projects /\ Exists(handler[h].on)
    BY WhereIsRead DEF Recorder
  <2> QED BY <1>3, <2>1 DEF Booked, InHand
<1>4. ASSUME NEW h \in Handlers, NEW p \in Projects, ReadOrg(h, p) PROVE Booked'
  <2>1. UNCHANGED <<usage, misfiled, project, astray>>
    BY <1>4 DEF ReadOrg, books, ghosts
  <2>2. PICK q : q = [at |-> "usage", on |-> p, seen |-> project[p].org, new |-> "none"]
    OBVIOUS
  <2>3. handler' = [handler EXCEPT ![h] = q] /\ q.on = p /\ q.seen = project[p].org
    BY <1>4, <2>2 DEF ReadOrg, Work
  <2> QED BY <1>1, <1>2, <2>1, <2>3, StillInHand DEF Booked
<1>5. ASSUME NEW h \in Handlers, NEW p \in Projects, NEW o \in Orgs, FallBack(h, p, o) PROVE Booked'
  <2>1. UNCHANGED <<usage, misfiled, project>> /\ astray' = astray \cup {h}
    BY <1>5 DEF FallBack, books
  <2>2. PICK q : q = [at |-> "usage", on |-> p, seen |-> o, new |-> "none"]
    OBVIOUS
  <2>3. handler' = [handler EXCEPT ![h] = q]
    BY <1>5, <2>2 DEF FallBack, Work
  <2> QED BY <1>1, <1>2, <2>1, <2>3, StillInHand DEF Booked
<1>6. ASSUME NEW h \in Handlers, UsageUnrecorded(h) PROVE Booked'
  <2>1. UNCHANGED <<usage, misfiled, project>> /\ astray' = astray \ {h}
    BY <1>6 DEF UsageUnrecorded, books
  <2>2. handler' = [handler EXCEPT ![h] = Idle]
    BY <1>6 DEF UsageUnrecorded, End
  <2> QED BY <1>1, <1>2, <1>n, <2>1, <2>2, StillInHand DEF Booked
<1>7. ASSUME NEW h \in Handlers, NEW p \in Projects, NEW text \in Texts, ReadBrief(h, p, text)
      PROVE  Booked'
  <2>1. UNCHANGED <<usage, misfiled, project, astray>>
    BY <1>7 DEF ReadBrief, books
  <2>2. PICK q : q = [at |-> "brief", on |-> p, seen |-> project[p].brief, new |-> text]
    OBVIOUS
  <2>3. handler' = [handler EXCEPT ![h] = q] /\ q.at = "brief"
    BY <1>7, <2>2 DEF ReadBrief, Work
  <2> QED BY <1>1, <1>2, <2>1, <2>3, StillInHand DEF Booked
<1>8. ASSUME NEW h \in Handlers, NEW fails \in BOOLEAN, CreateBriefRevision(h, fails) PROVE Booked'
  <2>1. UNCHANGED <<usage, misfiled, project, astray>> /\ handler[h].at = "brief"
    BY <1>8 DEF CreateBriefRevision
  <2>2. PICK q : q = [handler[h] EXCEPT !.at = "revised"]
    OBVIOUS
  <2>3. q.at = "revised"
    <3>1. handler[h] \in Editor
      BY <2>1, WhereIsRead
    <3> QED BY <2>2, <3>1 DEF Editor
  <2>4. handler' = [handler EXCEPT ![h] = q]
    BY <1>8, <2>2 DEF CreateBriefRevision
  <2> QED BY <1>1, <1>2, <2>1, <2>3, <2>4, StillInHand DEF Booked
<1>9. ASSUME NEW h \in Handlers, NEW fails \in BOOLEAN, UpdateProjectBrief(h, fails) PROVE Booked'
  <2>1. UNCHANGED <<usage, astray, misfiled>> /\ handler' = [handler EXCEPT ![h] = Idle]
    BY <1>9 DEF UpdateProjectBrief, books, End
  <2>2. \A p \in Projects : Exists(p) => project'[p] # None /\ project'[p].org = project[p].org
    <3>1. CASE fails
      BY <1>2, <1>9, <3>1 DEF UpdateProjectBrief
    <3>2. CASE ~fails
      <4>1. PICK p : p = handler[h].on
        OBVIOUS
      <4>2. p \in Projects /\ Exists(p) /\ handler[h].new \in Texts
        BY <1>9, <4>1, WhereIsRead DEF UpdateProjectBrief, Editor
      <4>3. project[p] \in Project
        BY <1>t, <4>2 DEF Exists
      <4>4. PICK n : n = [project[p] EXCEPT !.brief = handler[h].new]
        OBVIOUS
      <4>5. n \in Project /\ n.org = project[p].org
        BY <4>2, <4>3, <4>4 DEF Project
      <4>6. project' = [project EXCEPT ![p] = n]
        BY <1>9, <3>2, <4>1, <4>4 DEF UpdateProjectBrief
      <4>7. n # None
        BY <1>n, <4>5 DEF Project
      <4> QED BY <1>t, <4>5, <4>6, <4>7 DEF Exists
    <3> QED BY <3>1, <3>2
  <2> QED BY <1>1, <1>n, <2>1, <2>2, StillInHand DEF Booked
<1>10. ASSUME NEW h \in Handlers, NEW e \in Entries, CreateAIUsageEntry(h, e) PROVE Booked'
  <2>1. handler[h] \in Recorder /\ Exists(handler[h].on) /\ handler[h].at = "usage"
    BY <1>10, WhereIsRead DEF CreateAIUsageEntry
  <2>2. PICK n : n = [on |-> handler[h].on, org |-> handler[h].seen]
    OBVIOUS
  <2>3. n.on \in Projects /\ Exists(n.on) /\ n.on = handler[h].on /\ n.org = handler[h].seen
    BY <2>1, <2>2 DEF Recorder
  <2>4. /\ usage' = [usage EXCEPT ![e] = n] /\ project' = project
        /\ misfiled' = IF h \in astray THEN misfiled \cup {e} ELSE misfiled
        /\ astray' = astray \ {h}
        /\ handler' = [handler EXCEPT ![h] = Idle]
    BY <1>10, <2>2 DEF CreateAIUsageEntry, End
  <2>5. ASSUME NEW x \in Entries PROVE Filed(x)'
    <3>1. CASE x = e
      <4>1. usage'[x] = n /\ (h \in astray => x \in misfiled')
        BY <1>t, <2>4, <3>1
      <4>2. h \notin astray => n.org = project[n.on].org
        BY <2>1, <2>3 DEF Booked, InHand
      <4> QED BY <2>3, <2>4, <4>1, <4>2 DEF Filed, Exists
    <3>2. CASE x # e
      <4>1. usage'[x] = usage[x] /\ (x \in misfiled' <=> x \in misfiled)
        BY <1>t, <2>4, <3>2
      <4> QED BY <2>4, <4>1 DEF Booked, Filed, Exists
    <3> QED BY <3>1, <3>2
  <2> QED BY <1>2, <1>n, <2>4, <2>5, StillInHand DEF Booked
<1>11. ASSUME NEW p \in Projects, NEW o \in Orgs, TransferProject(p, o) PROVE Booked'
  <2>1. project[p] \in Project
    BY <1>11, <1>t DEF TransferProject, Exists
  <2>2. PICK n : n = [project[p] EXCEPT !.org = o]
    OBVIOUS
  <2>3. n.org = o /\ n # None
    BY <2>1, <2>2, ProjectsAssumption DEF Project, None
  <2>4. project' = [project EXCEPT ![p] = n]
    BY <1>11, <2>2 DEF TransferProject
  <2>5. /\ \A x \in Projects : project'[x] = IF x = p THEN n ELSE project[x]
        /\ \A x \in Projects : Exists(x) => project'[x] # None
    BY <1>t, <2>3, <2>4 DEF Exists
  <2>6. /\ usage' = [e \in Entries |-> IF e \in Of(p) THEN [usage[e] EXCEPT !.org = o] ELSE usage[e]]
        /\ misfiled' = misfiled \ Of(p)
        /\ astray' = astray \cup {h \in Handlers : handler[h].at = "usage" /\ handler[h].on = p}
        /\ handler' = handler
    BY <1>11 DEF TransferProject, Moved
  <2>7. ASSUME NEW e \in Entries PROVE Filed(e)'
    <3>1. CASE e \in Of(p)
      <4>1. usage[e] \in Entry /\ usage[e].on = p
        BY <1>t, <3>1 DEF Of
      <4>2. usage'[e] = [on |-> p, org |-> o]
        BY <2>6, <3>1, <4>1 DEF Entry
      <4>3. usage'[e].on = p /\ usage'[e].org = o /\ project'[p].org = o /\ project'[p] # None
        BY <2>3, <2>5, <4>2
      <4> QED BY <4>3 DEF Filed, Exists
    <3>2. CASE e \notin Of(p)
      <4>1. usage'[e] = usage[e] /\ (e \in misfiled' <=> e \in misfiled)
        BY <2>6, <3>2
      <4>2. usage[e] # NoEntry => usage[e].on # p
        BY <3>2 DEF Of
      <4> QED BY <2>5, <4>1, <4>2 DEF Booked, Filed, Exists
    <3> QED BY <3>1, <3>2
  <2>8. ASSUME NEW h \in Handlers PROVE InHand(h)'
    <3>1. handler[h].at = "usage" => handler[h].on \in Projects
      BY WhereIsRead DEF Recorder
    <3>2. h \notin astray' => h \notin astray /\ (handler[h].at = "usage" => handler[h].on # p)
      BY <2>6
    <3> QED BY <2>5, <2>6, <3>1, <3>2 DEF Booked, InHand
  <2> QED BY <2>7, <2>8 DEF Booked
<1>12. ASSUME NEW p \in Projects, NEW o \in Orgs, NEW s \in Slugs, CreateProject(p, o, s) PROVE Booked'
  <2>1. ~Exists(p) /\ UNCHANGED <<usage, handler, astray, misfiled>>
    BY <1>12 DEF CreateProject, books
  <2>2. PICK n : n = [org |-> o, slug |-> s, brief |-> ""]
    OBVIOUS
  <2>3. project' = [project EXCEPT ![p] = n]
    BY <1>12, <2>2 DEF CreateProject
  <2>4. \A x \in Projects : Exists(x) => project'[x] # None /\ project'[x].org = project[x].org
    BY <1>t, <2>1, <2>3 DEF Exists
  <2> QED BY <1>1, <1>3, <2>1, <2>4 DEF Booked
<1>13. ASSUME NEW p \in Projects, MarkBriefReviewed(p) PROVE Booked'
  <2>1. UNCHANGED <<usage, handler, astray, misfiled, project>>
    BY <1>13 DEF MarkBriefReviewed, ghosts
  <2> QED BY <1>1, <1>2, <1>3, <2>1 DEF Booked
<1>14. CASE UNCHANGED projectVars
  <2>1. UNCHANGED <<usage, handler, astray, misfiled, project>>
    BY <1>14 DEF projectVars, books, ghosts
  <2> QED BY <1>1, <1>2, <1>3, <2>1 DEF Booked
<1> QED
  BY <1>4, <1>5, <1>6, <1>7, <1>8, <1>9, <1>10, <1>11, <1>12, <1>13, <1>14 DEF BooksNext, HandlerStep

(* Every entry is booked to the organization that has its project, through *)
(* any number of transfers, but for those of requests that a transfer      *)
(* overtook and of chats that fell back.                                   *)
THEOREM UsageBooked == BooksSpec => []UsageFollowsProject
<1>1. BooksInit => Booked
  BY DEF BooksInit, Booked, Filed, InHand, Idle
<1>2. BooksTyped /\ Booked /\ [BooksNext]_projectVars => Booked'
  BY BookedStep
<1>3. Booked => UsageFollowsProject
  BY DEF Booked, Filed, UsageFollowsProject
<1> QED BY <1>1, <1>2, <1>3, BooksTypeInv, PTL DEF BooksSpec
(* Briefs: of a project whose edits never overlapped, at most one handler  *)
(* edits the brief; it has read the text that stands there, and what it    *)
(* read is a revision before it is replaced.                               *)
Edits(h, p) == handler[h].at \in {"brief", "revised"} /\ handler[h].on = p

KeptBrief(p) ==
    /\ \A text \in been[p] : text = project[p].brief \/ text \in revisions[p]
    /\ \A g, h \in Handlers : Edits(g, p) /\ Edits(h, p) => g = h
    /\ \A h \in Handlers : Edits(h, p) => /\ handler[h].seen = project[p].brief
                                          /\ handler[h].at = "revised" => handler[h].seen \in revisions[p]

BriefsKept == \A p \in Projects : overlapped[p] \/ KeptBrief(p)

LEMMA BriefsStep == BooksTyped /\ BriefsKept /\ [BooksNext]_projectVars => BriefsKept'
<1> SUFFICES ASSUME BooksTyped, BriefsKept, [BooksNext]_projectVars,
                    NEW x \in Projects, ~overlapped'[x]
             PROVE  KeptBrief(x)'
  BY DEF BriefsKept
<1>t. /\ project \in [Projects -> Project \cup {None}]
      /\ revisions \in [Projects -> SUBSET Texts] /\ been \in [Projects -> SUBSET Texts]
      /\ overlapped \in [Projects -> BOOLEAN] /\ DOMAIN handler = Handlers
  BY DEF BooksTyped, BooksTypeOK
<1>n. "none" \notin Orgs /\ None.org = "none" /\ Idle.at = "idle"
  BY ProjectsAssumption DEF None, Idle
<1>k. ~overlapped[x] => KeptBrief(x)
  BY DEF BriefsKept
(* One handler moves on to a stage that is no edit of x's brief, and what   *)
(* is kept of x does not change.                                           *)
<1>0. ASSUME KeptBrief(x), NEW h \in Handlers, NEW q, handler' = [handler EXCEPT ![h] = q],
             q.at \notin {"brief", "revised"} \/ q.on # x,
             been'[x] = been[x], project'[x].brief = project[x].brief, revisions[x] \subseteq revisions'[x]
      PROVE  KeptBrief(x)'
  <2>1. \A g \in Handlers : Edits(g, x)' => g # h /\ handler'[g] = handler[g] /\ Edits(g, x)
    BY <1>0, <1>t DEF Edits
  <2> QED BY <1>0, <2>1 DEF KeptBrief
<1>1. ASSUME KeptBrief(x), handler' = handler, been'[x] = been[x], project'[x].brief = project[x].brief,
             revisions[x] \subseteq revisions'[x]
      PROVE  KeptBrief(x)'
  BY <1>1 DEF KeptBrief, Edits
<1>2. ASSUME NEW h \in Handlers, NEW p \in Projects, NEW o, Work(h, "usage", p, o, "none"),
             UNCHANGED <<project, revisions, been, overlapped>>
      PROVE  KeptBrief(x)'
  <2>1. PICK q : q = [at |-> "usage", on |-> p, seen |-> o, new |-> "none"]
    OBVIOUS
  <2>2. handler' = [handler EXCEPT ![h] = q] /\ q.at = "usage"
    BY <1>2, <2>1 DEF Work
  <2> QED BY <1>0, <1>k, <1>2, <2>2
<1>12. ASSUME NEW h \in Handlers, NEW p \in Projects,
              ReadOrg(h, p) \/ \E o \in Orgs : FallBack(h, p, o)
       PROVE  KeptBrief(x)'
  BY <1>2, <1>12 DEF ReadOrg, FallBack, books, ghosts
<1>3. ASSUME NEW h \in Handlers, NEW p \in Projects, NEW text \in Texts, ReadBrief(h, p, text)
      PROVE  KeptBrief(x)'
  <2>1. UNCHANGED <<project, revisions, been>> /\ handler[h] = Idle
    BY <1>3 DEF ReadBrief, books, Work
  <2>2. PICK q : q = [at |-> "brief", on |-> p, seen |-> project[p].brief, new |-> text]
    OBVIOUS
  <2>3. q.at = "brief" /\ q.on = p /\ q.seen = project[p].brief
    BY <2>2
  <2>4. handler' = [handler EXCEPT ![h] = q] /\ overlapped' = [overlapped EXCEPT ![p] = @ \/ Editing(p) # {}]
    BY <1>3, <2>2 DEF ReadBrief, Work
  <2>5. CASE p # x
    <3>1. ~overlapped[x]
      BY <1>t, <2>4, <2>5
    <3> QED BY <1>0, <1>k, <2>1, <2>3, <2>4, <2>5, <3>1
  <2>6. CASE p = x
    <3>1. ~overlapped[x] /\ Editing(x) = {}
      BY <1>t, <2>4, <2>6
    <3>2. \A g \in Handlers : ~Edits(g, x)
      BY <3>1 DEF Editing, Edits
    <3>3. \A g \in Handlers : Edits(g, x)' => g = h
      BY <1>t, <2>4, <3>2 DEF Edits
    <3>4. handler'[h] = q
      BY <1>t, <2>4
    <3> QED BY <1>k, <2>1, <2>3, <2>6, <3>1, <3>3, <3>4 DEF KeptBrief
  <2> QED BY <2>5, <2>6
<1>4. ASSUME NEW h \in Handlers, NEW fails \in BOOLEAN, CreateBriefRevision(h, fails)
      PROVE  KeptBrief(x)'
  <2>1. UNCHANGED <<project, been>> /\ handler[h].at = "brief"
    BY <1>4 DEF CreateBriefRevision
  <2>2. handler[h] \in Editor
    BY <2>1, WhereIsRead
  <2>3. PICK p \in Projects : p = handler[h].on
    BY <2>2 DEF Editor
  <2>4. PICK q : q = [handler[h] EXCEPT !.at = "revised"]
    OBVIOUS
  <2>5. q.at = "revised" /\ q.on = p /\ q.seen = handler[h].seen
    BY <2>2, <2>3, <2>4 DEF Editor
  <2>6. handler' = [handler EXCEPT ![h] = q]
    BY <1>4, <2>4 DEF CreateBriefRevision
  <2>7. /\ revisions' = IF fails THEN revisions ELSE [revisions EXCEPT ![p] = @ \cup {handler[h].seen}]
        /\ overlapped' = [overlapped EXCEPT ![p] = @ \/ fails]
    BY <1>4, <2>3 DEF CreateBriefRevision, Previous
  <2>8. CASE p # x
    <3>1. ~overlapped[x] /\ revisions'[x] = revisions[x]
      BY <1>t, <2>7, <2>8
    <3> QED BY <1>0, <1>k, <2>1, <2>5, <2>6, <2>8, <3>1
  <2>9. CASE p = x
    <3>1. ~overlapped[x] /\ ~fails
      BY <1>t, <2>7, <2>9
    <3>2. revisions'[x] = revisions[x] \cup {handler[h].seen}
      BY <1>t, <2>7, <2>9, <3>1
    <3>3. KeptBrief(x) /\ Edits(h, x)
      BY <1>k, <2>1, <2>3, <2>9, <3>1 DEF Edits
    <3>4. \A g \in Handlers : Edits(g, x)' => g = h
      BY <1>t, <2>6, <3>3 DEF Edits, KeptBrief
    <3>5. handler'[h] = q
      BY <1>t, <2>6
    <3> QED BY <2>1, <2>5, <3>2, <3>3, <3>4, <3>5 DEF KeptBrief
  <2> QED BY <2>8, <2>9
<1>5. ASSUME NEW h \in Handlers, NEW fails \in BOOLEAN, UpdateProjectBrief(h, fails)
      PROVE  KeptBrief(x)'
  <2>1. UNCHANGED <<revisions, overlapped>> /\ handler[h].at = "revised"
    BY <1>5 DEF UpdateProjectBrief, books
  <2>2. handler[h] \in Editor /\ Exists(handler[h].on)
    BY <2>1, WhereIsRead
  <2>3. PICK p \in Projects : p = handler[h].on
    BY <2>2 DEF Editor
  <2>4. PICK text : text = handler[h].new
    OBVIOUS
  <2>5. handler' = [handler EXCEPT ![h] = Idle]
    BY <1>5 DEF UpdateProjectBrief, End
  <2>6. KeptBrief(x)
    BY <1>k, <2>1
  <2>7. CASE fails
    <3>1. UNCHANGED <<project, been>>
      BY <1>5, <2>7 DEF UpdateProjectBrief
    <3> QED BY <1>0, <1>n, <2>1, <2>5, <2>6, <3>1
  <2>8. CASE ~fails
    <3>1. /\ project' = [project EXCEPT ![p].brief = text]
          /\ been' = [been EXCEPT ![p] = @ \cup {text}]
      BY <1>5, <2>3, <2>4, <2>8 DEF UpdateProjectBrief
    <3>2. project[p] \in Project
      BY <1>t, <2>2, <2>3 DEF Exists
    <3>3. PICK n : n = [project[p] EXCEPT !.brief = text]
      OBVIOUS
    <3>4. n.brief = text
      BY <3>2, <3>3 DEF Project
    <3>5. project' = [project EXCEPT ![p] = n]
      BY <3>1, <3>3
    <3>6. CASE p # x
      <4>1. project'[x] = project[x] /\ been'[x] = been[x]
        BY <1>t, <3>1, <3>5, <3>6
      <4> QED BY <1>0, <1>n, <2>1, <2>5, <2>6, <4>1
    <3>7. CASE p = x
      <4>1. Edits(h, x)
        BY <2>1, <2>3, <3>7 DEF Edits
      <4>2. \A g \in Handlers : ~Edits(g, x)'
        BY <1>n, <1>t, <2>5, <2>6, <4>1 DEF Edits, KeptBrief
      <4>3. project[x].brief \in revisions[x]
        BY <2>1, <2>6, <4>1 DEF KeptBrief
      <4>4. project'[x].brief = text /\ been'[x] = been[x] \cup {text}
        BY <1>t, <3>1, <3>4, <3>5, <3>7
      <4> QED BY <2>1, <2>6, <4>2, <4>3, <4>4 DEF KeptBrief
    <3> QED BY <3>6, <3>7
  <2> QED BY <2>7, <2>8
<1>6. ASSUME NEW h \in Handlers, handler' = [handler EXCEPT ![h] = Idle],
             UNCHANGED <<project, revisions, been, overlapped>>
      PROVE  KeptBrief(x)'
  BY <1>0, <1>6, <1>k, <1>n
<1>7. ASSUME NEW p \in Projects, MarkBriefReviewed(p) PROVE KeptBrief(x)'
  <2>1. UNCHANGED <<project, handler, been, overlapped>> /\ revisions' = [revisions EXCEPT ![p] = @ \cup {""}]
    BY <1>7 DEF MarkBriefReviewed, ghosts
  <2>2. revisions[x] \subseteq revisions'[x]
    BY <1>t, <2>1
  <2> QED BY <1>1, <1>k, <2>1, <2>2
<1>8. ASSUME NEW p \in Projects, NEW o \in Orgs, TransferProject(p, o) PROVE KeptBrief(x)'
  <2>1. UNCHANGED <<revisions, handler, been, overlapped>> /\ Exists(p)
    BY <1>8 DEF TransferProject
  <2>2. project[p] \in Project
    BY <1>t, <2>1 DEF Exists
  <2>3. PICK n : n = [project[p] EXCEPT !.org = o]
    OBVIOUS
  <2>4. n.brief = project[p].brief
    BY <2>2, <2>3 DEF Project
  <2>5. project' = [project EXCEPT ![p] = n]
    BY <1>8, <2>3 DEF TransferProject
  <2>6. project'[x].brief = project[x].brief
    BY <1>t, <2>4, <2>5
  <2> QED BY <1>1, <1>k, <2>1, <2>6
<1>9. ASSUME NEW p \in Projects, NEW o \in Orgs, NEW s \in Slugs, CreateProject(p, o, s) PROVE KeptBrief(x)'
  <2>1. UNCHANGED <<revisions, handler, overlapped>> /\ ~Exists(p) /\ been' = [been EXCEPT ![p] = {""}]
    BY <1>9 DEF CreateProject, books
  <2>2. PICK n : n = [org |-> o, slug |-> s, brief |-> ""]
    OBVIOUS
  <2>3. project' = [project EXCEPT ![p] = n] /\ n.brief = ""
    BY <1>9, <2>2 DEF CreateProject
  <2>4. CASE p # x
    <3>1. project'[x] = project[x] /\ been'[x] = been[x]
      BY <1>t, <2>1, <2>3, <2>4
    <3> QED BY <1>1, <1>k, <2>1, <3>1
  <2>5. CASE p = x
    <3>1. project'[x].brief = "" /\ been'[x] = {""}
      BY <1>t, <2>1, <2>3, <2>5
    <3>2. \A h \in Handlers : ~Edits(h, x)
      BY <2>1, <2>5, WhereIsRead DEF Edits
    <3>3. \A h \in Handlers : ~Edits(h, x)'
      BY <2>1, <3>2 DEF Edits
    <3> QED BY <3>1, <3>3 DEF KeptBrief
  <2> QED BY <2>4, <2>5
<1>10. CASE UNCHANGED projectVars
  BY <1>1, <1>10, <1>k DEF projectVars, books, ghosts
<1>11. ASSUME NEW h \in Handlers, UsageUnrecorded(h) \/ \E e \in Entries : CreateAIUsageEntry(h, e)
       PROVE  KeptBrief(x)'
  BY <1>6, <1>11 DEF UsageUnrecorded, CreateAIUsageEntry, End, books, ghosts
<1> QED
  BY <1>3, <1>4, <1>5, <1>7, <1>8, <1>9, <1>10, <1>11, <1>12 DEF BooksNext, HandlerStep

(* Every text a brief has had is still there or in a revision, unless two  *)
(* edits of the brief overlapped or a revision could not be saved.         *)
THEOREM NoTextLost == BooksSpec => []BriefHistory
<1>1. BooksInit => BriefsKept
  BY DEF BooksInit, BriefsKept, KeptBrief, Edits, Idle
<1>2. BooksTyped /\ BriefsKept /\ [BooksNext]_projectVars => BriefsKept'
  BY BriefsStep
<1>3. BriefsKept => BriefHistory
  BY DEF BriefsKept, KeptBrief, BriefHistory
<1> QED BY <1>1, <1>2, <1>3, BooksTypeInv, PTL DEF BooksSpec
-----------------------------------------------------------------------------
(* Invitations (Invitations).                                              *)

(* What a request carries: nothing, what it will make, or an invitation    *)
(* that was sent, to an address with an account where it adds a member.    *)
Creation == [pc : {"create"}, e : Addresses, offer : OfferedRoles]
Handling == [pc : {"reset", "insert", "register"}, i : Invites]
            \cup [pc : {"mark"}, i : Invites, status : Decisions]
Sent(i) == i \in Invites /\ inv[i].status # "unsent"
Sound(q) ==
    \/ q \in Creation \cup {NoRequest}
    \/ q \in Handling /\ Sent(q.i) /\ (q.pc = "insert" => inv[q.i].email \in account)

InvitedTyped ==
    /\ InviteTypeOK
    /\ DOMAIN req = Visits
    /\ \A r \in Visits : Sound(req[r])

Invitation == [email : Addresses, offer : OfferedRoles,
               status : Decisions \cup {"unsent", "pending"}, ahead : BOOLEAN]

(* What was sent stays sent, to the same address; accounts stay.           *)
SentStays ==
    /\ account \subseteq account'
    /\ \A i \in Invites : Sent(i) => inv'[i].email = inv[i].email /\ inv'[i].status # "unsent"

LEMMA SoundStep ==
    ASSUME InvitedTyped, SentStays, NEW r \in Visits, NEW q, req' = [req EXCEPT ![r] = q], Sound(q)'
    PROVE  DOMAIN req' = Visits /\ \A s \in Visits : Sound(req[s])'
<1>1. ASSUME NEW x, Sound(x) PROVE Sound(x)'
  BY <1>1 DEF Sound, SentStays, Sent
<1>2. ASSUME NEW s \in Visits PROVE Sound(req[s])'
  <2>1. PICK x : x = req[s]
    OBVIOUS
  <2>2. Sound(x)
    BY <2>1 DEF InvitedTyped
  <2>3. Sound(x)'
    BY <1>1, <2>2
  <2>4. req'[s] = IF s = r THEN q ELSE x
    BY <2>1 DEF InvitedTyped
  <2> QED BY <2>3, <2>4 DEF Sound
<1> QED BY <1>2 DEF InvitedTyped

(* What a request is at tells what it carries.                             *)
LEMMA WhatIsCarried ==
    ASSUME InvitedTyped, NEW r \in Visits
    PROVE  /\ req[r].pc = "create" => req[r] \in Creation
           /\ req[r].pc \in {"reset", "insert", "register", "mark"} => req[r] \in Handling /\ Sent(req[r].i)
           /\ req[r].pc = "mark" => req[r].status \in Decisions
           /\ req[r].pc = "insert" => inv[req[r].i].email \in account
<1>1. NoRequest.pc = "idle"
  BY DEF NoRequest
<1>2. (\A q \in Creation : q.pc = "create") /\ \A q \in Handling : q.pc # "create" /\ q.pc # "idle"
  BY DEF Creation, Handling
<1>3. \A q \in Handling : q.pc = "mark" => q.status \in Decisions
  BY DEF Handling
<1>4. \/ req[r] \in Creation \cup {NoRequest}
      \/ req[r] \in Handling /\ Sent(req[r].i) /\ (req[r].pc = "insert" => inv[req[r].i].email \in account)
  BY DEF InvitedTyped, Sound
<1> QED BY <1>1, <1>2, <1>3, <1>4

(* An invitation is decided on.                                            *)
LEMMA DecideLaws ==
    ASSUME InvitedTyped, NEW i \in Invites, Sent(i), NEW status \in Decisions, Decide(i, status)
    PROVE  /\ inv' \in [Invites -> Invitation]
           /\ \A j \in Invites : j # i => inv'[j] = inv[j]
           /\ inv'[i].email = inv[i].email /\ inv'[i].status = status
           /\ late' \subseteq Visits
<1>1. inv[i] \in Invitation
  BY DEF InvitedTyped, InviteTypeOK, Invitation
<1>2. PICK n : n = [inv[i] EXCEPT !.status = status]
  OBVIOUS
<1>3. n \in Invitation /\ n.email = inv[i].email /\ n.status = status
  BY <1>1, <1>2 DEF Invitation
<1>4. inv' = [inv EXCEPT ![i] = n]
  BY <1>2 DEF Decide
<1>5. inv \in [Invites -> Invitation] /\ late \subseteq Visits
  BY DEF InvitedTyped, InviteTypeOK, Invitation
<1>6. late' \subseteq Visits
  BY <1>5 DEF Decide
<1> QED BY <1>3, <1>4, <1>5, <1>6
LEMMA ArriveLaws ==
    ASSUME InvitedTyped, NEW r \in Visits, NEW q, Arrive(r, q)
    PROVE  /\ req[r] = NoRequest /\ req' = [req EXCEPT ![r] = q]
           /\ late' = late \ {r} /\ late' \subseteq Visits /\ ops' \in 0..MaxOps
<1>1. ops \in 0..MaxOps /\ MaxOps \in Nat /\ late \subseteq Visits
  BY InviteAssumption DEF InvitedTyped, InviteTypeOK
<1>2. ops < MaxOps /\ ops' = ops + 1
  BY DEF Arrive, Count
<1>3. ops' \in 0..MaxOps
  BY <1>1, <1>2
<1> QED BY <1>1, <1>3 DEF Arrive, Goto

(* A request arrives that carries something sound and writes nothing yet.  *)
LEMMA ArriveTyped ==
    ASSUME InvitedTyped, NEW r \in Visits, NEW q, Arrive(r, q), Sound(q),
           UNCHANGED <<member, account, inv, joined>>
    PROVE  InvitedTyped'
<1>1. req' = [req EXCEPT ![r] = q] /\ late' \subseteq Visits /\ ops' \in 0..MaxOps
  BY ArriveLaws
<1>2. SentStays
  BY DEF SentStays, Sent
<1>3. Sound(q)'
  BY DEF Sound, Sent
<1>4. DOMAIN req' = Visits /\ \A s \in Visits : Sound(req[s])'
  BY <1>1, <1>2, <1>3, SoundStep
<1>5. \A s \in Visits : req'[s].pc = "mark" => req'[s].status \in Decisions
  BY <1>4 DEF Sound, Creation, Handling, NoRequest
<1>6. InviteTypeOK'
  BY <1>1, <1>5 DEF InvitedTyped, InviteTypeOK, IsMember
<1> QED BY <1>4, <1>6 DEF InvitedTyped

(* A request moves on, and what it writes is of the right type.            *)
LEMMA GotoTyped ==
    ASSUME InvitedTyped, SentStays, NEW r \in Visits, NEW q, Goto(r, q), Sound(q)',
           member' \in [Addresses -> MemberRoles \cup {"none"}], account' \subseteq Addresses,
           inv' \in [Invites -> Invitation], joined' \subseteq Invites, late' \subseteq Visits, ops' = ops,
           \A u \in Addresses : member'[u] # "none" => u \in account'
    PROVE  InvitedTyped'
<1>1. DOMAIN req' = Visits /\ \A s \in Visits : Sound(req[s])'
  BY SoundStep DEF Goto
<1>2. \A s \in Visits : req'[s].pc = "mark" => req'[s].status \in Decisions
  BY <1>1 DEF Sound, Creation, Handling, NoRequest
<1>3. InviteTypeOK'
  BY <1>2 DEF InvitedTyped, InviteTypeOK, IsMember, Invitation
<1> QED BY <1>1, <1>3 DEF InvitedTyped

(* The type invariant is inductive.                                        *)
LEMMA InvitedTypeStep ==
    InvitedTyped /\ [InviteNext]_inviteVars => InvitedTyped'
<1> SUFFICES ASSUME InvitedTyped, [InviteNext]_inviteVars PROVE InvitedTyped'
  OBVIOUS
<1>t. /\ member \in [Addresses -> MemberRoles \cup {"none"}] /\ account \subseteq Addresses
      /\ inv \in [Invites -> Invitation] /\ joined \subseteq Invites /\ late \subseteq Visits
      /\ \A u \in Addresses : member[u] # "none" => u \in account
  BY DEF InvitedTyped, InviteTypeOK, Invitation, IsMember
<1>d. \A q : q = NoRequest => Sound(q) /\ Sound(q)'
  BY DEF Sound
<1>1. ASSUME NEW r \in Visits, NEW u \in Addresses, NEW e \in Addresses, NEW offer \in OfferedRoles,
             InviteMember(r, u, e, offer)
      PROVE  InvitedTyped'
  <2>1. Sound([pc |-> "create", e |-> e, offer |-> offer])
    BY DEF Sound, Creation
  <2> QED BY <1>1, <2>1, ArriveTyped DEF InviteMember
<1>2. ASSUME NEW r \in Visits, NEW i \in Invites, Sent(i), UNCHANGED <<member, account, inv, joined>>,
             \/ Arrive(r, [pc |-> "reset", i |-> i]) \/ Arrive(r, [pc |-> "register", i |-> i])
             \/ \E status \in Decisions : Arrive(r, [pc |-> "mark", i |-> i, status |-> status])
             \/ Arrive(r, [pc |-> "insert", i |-> i]) /\ inv[i].email \in account
      PROVE  InvitedTyped'
  <2>1. /\ Sound([pc |-> "reset", i |-> i]) /\ Sound([pc |-> "register", i |-> i])
        /\ inv[i].email \in account => Sound([pc |-> "insert", i |-> i])
    BY <1>2 DEF Sound, Handling
  <2>2. \A status \in Decisions : Sound([pc |-> "mark", i |-> i, status |-> status])
    BY <1>2 DEF Sound, Handling
  <2> QED BY <1>2, <2>1, <2>2, ArriveTyped
<1>3. ASSUME NEW r \in Visits, NEW u \in Addresses, NEW i \in Invites,
             ResendInvitation(r, u, i) \/ RevokeInvitation(r, u, i)
      PROVE  InvitedTyped'
  <2>1. Sent(i) /\ UNCHANGED <<member, account, inv, joined>>
    BY <1>3 DEF ResendInvitation, RevokeInvitation, Pending, Sent
  <2>2. "expired" \in Decisions
    BY DEF Decisions
  <2> QED BY <1>2, <1>3, <2>1, <2>2 DEF ResendInvitation, RevokeInvitation
<1>4. ASSUME NEW r \in Visits, NEW i \in Invites,
             \/ AcceptInvitation(r, i) \/ DeclineInvitation(r, i) \/ InviteRegister(r, i)
      PROVE  InvitedTyped'
  <2>1. Sent(i) /\ UNCHANGED <<member, account, inv, joined>>
    BY <1>4 DEF AcceptInvitation, DeclineInvitation, InviteRegister, Pending, Sent,
       Acceptable, InForce
  <2>2. "declined" \in Decisions
    BY DEF Decisions
  <2> QED BY <1>2, <1>4, <2>1, <2>2 DEF AcceptInvitation, DeclineInvitation, InviteRegister
<1>5. ASSUME NEW r \in Visits, NEW i \in Invites, CreateInvitation(r, i) PROVE InvitedTyped'
  <2>1. req[r] \in Creation /\ ~Sent(i)
    BY <1>5, WhatIsCarried DEF CreateInvitation, Sent
  <2>2. PICK n : n = [email |-> req[r].e, offer |-> req[r].offer, status |-> "pending", ahead |-> TRUE]
    OBVIOUS
  <2>3. n \in Invitation
    BY <2>1, <2>2 DEF Creation, Invitation
  <2>4. inv' = inv \/ inv' = [inv EXCEPT ![i] = n]
    BY <1>5, <2>2 DEF CreateInvitation
  <2>5. UNCHANGED <<ops, member, account, joined, late>> /\ Goto(r, NoRequest)
    BY <1>5 DEF CreateInvitation
  <2>6. inv' \in [Invites -> Invitation]
    BY <1>t, <2>3, <2>4
  <2>7. SentStays
    BY <1>t, <2>1, <2>4, <2>5 DEF SentStays, Sent
  <2> QED BY <1>d, <1>t, <2>5, <2>6, <2>7, GotoTyped
<1>6. ASSUME NEW r \in Visits, ResetToken(r) PROVE InvitedTyped'
  <2>1. req[r] \in Handling /\ Sent(req[r].i)
    BY <1>6, WhatIsCarried DEF ResetToken
  <2>2. PICK i \in Invites : i = req[r].i
    BY <2>1 DEF Sent
  <2>3. PICK n : n = [inv[i] EXCEPT !.ahead = TRUE]
    OBVIOUS
  <2>4. n \in Invitation /\ n.email = inv[i].email /\ n.status = inv[i].status
    BY <1>t, <2>3 DEF Invitation
  <2>5. inv' = [inv EXCEPT ![i] = n]
    BY <1>6, <2>2, <2>3 DEF ResetToken
  <2>6. UNCHANGED <<ops, member, account, joined, late>> /\ Goto(r, NoRequest)
    BY <1>6 DEF ResetToken
  <2>7. inv' \in [Invites -> Invitation]
    BY <1>t, <2>4, <2>5
  <2>8. SentStays
    BY <1>t, <2>4, <2>5, <2>6 DEF SentStays, Sent
  <2> QED BY <1>d, <1>t, <2>6, <2>7, <2>8, GotoTyped
<1>7. ASSUME NEW r \in Visits, JoinOrg(r) PROVE InvitedTyped'
  <2>1. req[r] \in Handling /\ Sent(req[r].i) /\ inv[req[r].i].email \in account
    BY <1>7, WhatIsCarried DEF JoinOrg
  <2>2. PICK i \in Invites : i = req[r].i
    BY <2>1 DEF Sent
  <2>3. /\ member' = WithMember(inv[i].email, inv[i].offer) /\ joined' = joined \cup {i}
        /\ Goto(r, [pc |-> "mark", i |-> i, status |-> "accepted"])
        /\ UNCHANGED <<inv, late, account, ops>>
    BY <1>7, <2>2 DEF JoinOrg, InsertMember
  <2>4. inv[i].email \in Addresses /\ inv[i].offer \in OfferedRoles
    BY <1>t DEF Invitation
  <2>5. member' \in [Addresses -> MemberRoles \cup {"none"}]
    BY <1>t, <2>3, <2>4 DEF WithMember, MemberRoles
  <2>6. \A u \in Addresses : member'[u] # "none" => u \in account'
    BY <1>t, <2>1, <2>2, <2>3, <2>4 DEF WithMember
  <2>7. Sound([pc |-> "mark", i |-> i, status |-> "accepted"])'
    BY <2>1, <2>2, <2>3 DEF Sound, Handling, Sent, Decisions
  <2>8. SentStays
    BY <2>3 DEF SentStays, Sent
  <2> QED BY <1>t, <2>3, <2>5, <2>6, <2>7, <2>8, GotoTyped
<1>8. ASSUME NEW r \in Visits, MarkInvitation(r) PROVE InvitedTyped'
  <2>1. Sent(req[r].i) /\ req[r].status \in Decisions
    BY <1>8, WhatIsCarried DEF MarkInvitation
  <2>2. /\ Decide(req[r].i, req[r].status) /\ Goto(r, NoRequest)
        /\ UNCHANGED <<ops, member, account, joined>>
    BY <1>8 DEF MarkInvitation
  <2>3. PICK i \in Invites, status \in Decisions : i = req[r].i /\ status = req[r].status
    BY <2>1 DEF Sent
  <2>4. Sent(i) /\ Decide(i, status)
    BY <2>1, <2>2, <2>3
  <2>5. /\ inv' \in [Invites -> Invitation] /\ \A j \in Invites : j # i => inv'[j] = inv[j]
        /\ inv'[i].email = inv[i].email /\ inv'[i].status = status /\ late' \subseteq Visits
    BY <2>4, DecideLaws
  <2>6. SentStays
    BY <2>2, <2>5 DEF SentStays, Sent, Decisions
  <2> QED BY <1>d, <1>t, <2>2, <2>5, <2>6, GotoTyped
<1>9. ASSUME NEW r \in Visits, AcceptInviteTx(r) PROVE InvitedTyped'
  <2>1. Sent(req[r].i)
    BY <1>9, WhatIsCarried DEF AcceptInviteTx
  <2>i. PICK i \in Invites : i = req[r].i
    BY <2>1 DEF Sent
  <2>u. PICK u : u = inv[i].email
    OBVIOUS
  <2>2. i = req[r].i /\ u = inv[i].email
    BY <2>i, <2>u
  <2>3. Goto(r, NoRequest) /\ UNCHANGED ops
    BY <1>9 DEF AcceptInviteTx
  <2>4. \/ UNCHANGED <<account, member, joined, inv, late>>
        \/ /\ account' = account \cup {u} /\ member' = [member EXCEPT ![u] = inv[i].offer]
           /\ joined' = joined \cup {i} /\ Decide(i, "accepted")
    BY <1>9, <2>2 DEF AcceptInviteTx
  <2>5. CASE UNCHANGED <<account, member, joined, inv, late>>
    <3>1. SentStays
      BY <2>5 DEF SentStays, Sent
    <3> QED BY <1>d, <1>t, <2>3, <2>5, <3>1, GotoTyped
  <2>6. CASE /\ account' = account \cup {u} /\ member' = [member EXCEPT ![u] = inv[i].offer]
             /\ joined' = joined \cup {i} /\ Decide(i, "accepted")
    <3>1. "accepted" \in Decisions /\ Sent(i)
      BY <2>1, <2>2 DEF Decisions
    <3>2. /\ inv' \in [Invites -> Invitation] /\ \A j \in Invites : j # i => inv'[j] = inv[j]
          /\ inv'[i].email = inv[i].email /\ inv'[i].status = "accepted" /\ late' \subseteq Visits
      BY <2>6, <3>1, DecideLaws
    <3>3. SentStays
      BY <2>6, <3>2 DEF SentStays, Sent
    <3>4. u \in Addresses /\ inv[i].offer \in OfferedRoles
      BY <1>t, <2>2 DEF Invitation
    <3>5. /\ member' \in [Addresses -> MemberRoles \cup {"none"}] /\ account' \subseteq Addresses
          /\ joined' \subseteq Invites /\ \A v \in Addresses : member'[v] # "none" => v \in account'
      BY <1>t, <2>6, <3>4 DEF MemberRoles
    <3> QED BY <1>d, <2>3, <3>2, <3>3, <3>5, GotoTyped
  <2> QED BY <2>4, <2>5, <2>6
<1>10. ASSUME NEW r \in Visits, CutOff(r) PROVE InvitedTyped'
  <2>1. Goto(r, NoRequest) /\ UNCHANGED <<ops, member, account, inv, joined, late>>
    BY <1>10 DEF CutOff
  <2>2. SentStays
    BY <2>1 DEF SentStays, Sent
  <2> QED BY <1>d, <1>t, <2>1, <2>2, GotoTyped
<1>11. ASSUME NEW u \in Addresses, NEW target \in Addresses,
              \/ RemoveMember(u, target)
              \/ \E new \in MemberRoles : UpdateMemberRole(u, target, new)
       PROVE  InvitedTyped'
  <2>1. PICK new \in MemberRoles \cup {"none"} : member' = [member EXCEPT ![target] = new]
    BY <1>11 DEF RemoveMember, UpdateMemberRole
  <2>2. UNCHANGED <<account, inv, req, joined, late>> /\ member[target] # "none"
    BY <1>11 DEF RemoveMember, UpdateMemberRole, IsMember
  <2>3. ops < MaxOps /\ ops' = ops + 1
    BY <1>11 DEF RemoveMember, UpdateMemberRole, Count
  <2>4. ops \in 0..MaxOps /\ MaxOps \in Nat
    BY InviteAssumption DEF InvitedTyped, InviteTypeOK
  <2>5. ops' \in 0..MaxOps
    BY <2>3, <2>4
  <2>6. /\ member' \in [Addresses -> MemberRoles \cup {"none"}]
        /\ \A v \in Addresses : member'[v] # "none" => v \in account
    BY <1>t, <2>1, <2>2
  <2>7. InviteTypeOK'
    BY <2>2, <2>5, <2>6 DEF InvitedTyped, InviteTypeOK, IsMember
  <2> QED BY <2>2, <2>7 DEF InvitedTyped, Sound, Sent
<1>12. ASSUME NEW i \in Invites, Lapse(i) PROVE InvitedTyped'
  <2>1. PICK n : n = [inv[i] EXCEPT !.ahead = FALSE]
    OBVIOUS
  <2>2. n \in Invitation /\ n.email = inv[i].email /\ n.status = inv[i].status
    BY <1>t, <2>1 DEF Invitation
  <2>3. inv' = [inv EXCEPT ![i] = n] /\ UNCHANGED <<ops, member, account, req, joined, late>>
    BY <1>12, <2>1 DEF Lapse
  <2>4. /\ inv' \in [Invites -> Invitation]
        /\ \A j \in Invites : inv'[j].email = inv[j].email /\ inv'[j].status = inv[j].status
    BY <1>t, <2>2, <2>3
  <2>5. InviteTypeOK'
    BY <2>3, <2>4 DEF InvitedTyped, InviteTypeOK, Invitation, IsMember
  <2>6. SentStays
    BY <2>3, <2>4 DEF SentStays, Sent
  <2> QED BY <2>3, <2>4, <2>5 DEF InvitedTyped, Sound, Sent
<1>13. ASSUME ExpireOldInvitations PROVE InvitedTyped'
  <2>1. UNCHANGED <<ops, member, account, req, joined>> /\ late' \subseteq Visits
    BY <1>13, <1>t DEF ExpireOldInvitations
  <2>2. inv' = [i \in Invites |-> IF i \in Overdue THEN [inv[i] EXCEPT !.status = "expired"] ELSE inv[i]]
    BY <1>13 DEF ExpireOldInvitations
  <2>3. \A x \in Invitation : LET n == [x EXCEPT !.status = "expired"]
                              IN  n \in Invitation /\ n.email = x.email /\ n.status = "expired"
    BY DEF Invitation, Decisions
  <2>4. /\ inv' \in [Invites -> Invitation]
        /\ \A j \in Invites : inv'[j].email = inv[j].email /\ (Sent(j) => inv'[j].status # "unsent")
    BY <1>t, <2>2, <2>3 DEF Sent
  <2>5. InviteTypeOK'
    BY <2>1, <2>4 DEF InvitedTyped, InviteTypeOK, Invitation, IsMember
  <2> QED BY <2>1, <2>4, <2>5 DEF InvitedTyped, Sound, Sent
<1>14. CASE UNCHANGED inviteVars
  BY <1>14 DEF inviteVars, InvitedTyped, InviteTypeOK, IsMember, Sound, Sent
<1> QED
  BY <1>1, <1>3, <1>4, <1>5, <1>6, <1>7, <1>8, <1>9, <1>10, <1>11, <1>12, <1>13, <1>14 DEF InviteNext
LEMMA InvitedTypeInv == InviteSpec => []InvitedTyped
<1>1. ASSUME InviteInit PROVE InvitedTyped
  <2>1. Founder \in Addresses /\ MaxOps \in Nat /\ ops = 0
    BY <1>1, InviteAssumption DEF InviteInit
  <2>2. ops \in 0..MaxOps
    BY <2>1
  <2>3. /\ inv = [i \in Invites |-> [email |-> Founder, offer |-> "member", status |-> "unsent", ahead |-> FALSE]]
        /\ req = [r \in Visits |-> NoRequest] /\ joined = {} /\ late = {}
        /\ member = [u \in Addresses |-> IF u = Founder THEN "owner" ELSE "none"]
        /\ account \subseteq Addresses /\ Founder \in account
    BY <1>1, <2>1 DEF InviteInit
  <2>4. InviteTypeOK
    BY <2>1, <2>2, <2>3 DEF InviteTypeOK, IsMember, NoRequest, MemberRoles, OfferedRoles
  <2> QED BY <2>3, <2>4 DEF InvitedTyped, Sound
<1>2. InvitedTyped /\ [InviteNext]_inviteVars => InvitedTyped'
  BY InvitedTypeStep
<1> QED BY <1>1, <1>2, PTL DEF InviteSpec

(* The type invariant; in particular every member has an account.          *)
THEOREM InvitedTypeCorrect == InviteSpec => []InviteTypeOK
<1>1. InvitedTyped => InviteTypeOK
  BY DEF InvitedTyped
<1> QED BY <1>1, InvitedTypeInv, PTL

(* A request that will mark an invitation as accepted has added a member.  *)
Accounted ==
    /\ AcceptedJoined
    /\ \A r \in Visits : (req[r].pc = "mark" /\ req[r].status = "accepted") => req[r].i \in joined

(* A request that will add a member read an invitation that is pending, or *)
(* was decided on since.                                                   *)
Deferred ==
    \A r \in Visits : req[r].pc \in {"insert", "register"} => inv[req[r].i].status = "pending" \/ r \in late

LEMMA AccountedStep == InvitedTyped /\ Accounted /\ [InviteNext]_inviteVars => Accounted'
<1> SUFFICES ASSUME InvitedTyped, Accounted, [InviteNext]_inviteVars PROVE Accounted'
  OBVIOUS
<1>t. inv \in [Invites -> Invitation] /\ DOMAIN req = Visits
  BY DEF InvitedTyped, InviteTypeOK, Invitation
<1>a. /\ \A i \in Invites : inv[i].status = "accepted" => i \in joined
      /\ \A r \in Visits : (req[r].pc = "mark" /\ req[r].status = "accepted") => req[r].i \in joined
  BY DEF Accounted, AcceptedJoined
(* A step that marks nothing.                                               *)
<1>1. ASSUME joined \subseteq joined', \A i \in Invites : inv'[i].status = "accepted" => inv[i].status = "accepted" \/ i \in joined',
             \A r \in Visits : \/ req'[r] = req[r]
                               \/ req'[r].pc = "mark" /\ req'[r].status = "accepted" => req'[r].i \in joined'
      PROVE  Accounted'
  BY <1>1, <1>a DEF Accounted, AcceptedJoined
<1>2. ASSUME NEW r \in Visits, NEW q, Goto(r, q), q.pc # "mark" \/ q.status # "accepted",
             joined' = joined, \A i \in Invites : inv'[i].status = "accepted" => inv[i].status = "accepted" \/ i \in joined
      PROVE  Accounted'
  <2>1. \A s \in Visits : req'[s] = IF s = r THEN q ELSE req[s]
    BY <1>2, <1>t DEF Goto
  <2> QED BY <1>1, <1>2, <2>1
<1>3. ASSUME NEW r \in Visits, NEW q, Arrive(r, q), q.pc # "mark" \/ q.status # "accepted", UNCHANGED <<inv, joined>>
      PROVE  Accounted'
  BY <1>2, <1>3 DEF Arrive
<1>i. NoRequest.pc = "idle"
  BY DEF NoRequest
<1>4. ASSUME NEW r \in Visits, NEW u \in Addresses, NEW e \in Addresses, NEW offer \in OfferedRoles,
             InviteMember(r, u, e, offer)
      PROVE  Accounted'
  BY <1>3, <1>4 DEF InviteMember
<1>5. ASSUME NEW r \in Visits, NEW u \in Addresses, NEW i \in Invites,
             ResendInvitation(r, u, i) \/ RevokeInvitation(r, u, i)
      PROVE  Accounted'
  BY <1>3, <1>5 DEF ResendInvitation, RevokeInvitation
<1>6. ASSUME NEW r \in Visits, NEW i \in Invites,
             \/ AcceptInvitation(r, i) \/ DeclineInvitation(r, i) \/ InviteRegister(r, i)
      PROVE  Accounted'
  BY <1>3, <1>6 DEF AcceptInvitation, DeclineInvitation, InviteRegister
<1>7. ASSUME NEW r \in Visits, NEW i \in Invites, CreateInvitation(r, i) PROVE Accounted'
  <2>1. PICK n : n = [email |-> req[r].e, offer |-> req[r].offer, status |-> "pending", ahead |-> TRUE]
    OBVIOUS
  <2>2. inv' = inv \/ inv' = [inv EXCEPT ![i] = n]
    BY <1>7, <2>1 DEF CreateInvitation
  <2>3. \A j \in Invites : inv'[j].status = "accepted" => inv[j].status = "accepted"
    BY <1>t, <2>1, <2>2
  <2> QED BY <1>2, <1>7, <1>i, <2>3 DEF CreateInvitation
<1>8. ASSUME NEW r \in Visits, ResetToken(r) PROVE Accounted'
  <2>1. PICK i : i = req[r].i
    OBVIOUS
  <2>2. i \in Invites
    BY <1>8, <2>1, WhatIsCarried DEF ResetToken, Sent
  <2>3. PICK n : n = [inv[i] EXCEPT !.ahead = TRUE]
    OBVIOUS
  <2>4. n.status = inv[i].status
    BY <1>t, <2>2, <2>3 DEF Invitation
  <2>5. inv' = [inv EXCEPT ![i] = n]
    BY <1>8, <2>1, <2>3 DEF ResetToken
  <2>6. \A j \in Invites : inv'[j].status = "accepted" => inv[j].status = "accepted"
    BY <1>t, <2>4, <2>5
  <2> QED BY <1>2, <1>8, <1>i, <2>6 DEF ResetToken
<1>9. ASSUME NEW r \in Visits, JoinOrg(r) PROVE Accounted'
  <2>1. PICK i : i = req[r].i
    OBVIOUS
  <2>2. PICK q : q = [pc |-> "mark", i |-> i, status |-> "accepted"]
    OBVIOUS
  <2>3. joined' = joined \cup {i} /\ req' = [req EXCEPT ![r] = q] /\ inv' = inv
    BY <1>9, <2>1, <2>2 DEF JoinOrg, InsertMember, Goto
  <2>4. \A s \in Visits : req'[s] = IF s = r THEN q ELSE req[s]
    BY <1>t, <2>3
  <2>5. q.i \in joined'
    BY <2>2, <2>3
  <2> QED BY <1>1, <2>3, <2>4, <2>5
<1>10. ASSUME NEW r \in Visits, MarkInvitation(r) PROVE Accounted'
  <2>1. Sent(req[r].i) /\ req[r].status \in Decisions
    BY <1>10, WhatIsCarried DEF MarkInvitation
  <2>2. PICK i \in Invites, status \in Decisions : i = req[r].i /\ status = req[r].status
    BY <2>1 DEF Sent
  <2>3. Sent(i) /\ Decide(i, status) /\ joined' = joined
    BY <1>10, <2>1, <2>2 DEF MarkInvitation
  <2>4. (\A j \in Invites : j # i => inv'[j] = inv[j]) /\ inv'[i].status = status
    BY <2>3, DecideLaws
  <2>5. status = "accepted" => i \in joined
    BY <1>10, <1>a, <2>2 DEF MarkInvitation
  <2> QED BY <1>2, <1>10, <1>i, <2>3, <2>4, <2>5 DEF MarkInvitation
<1>11. ASSUME NEW r \in Visits, AcceptInviteTx(r) PROVE Accounted'
  <2>1. Sent(req[r].i)
    BY <1>11, WhatIsCarried DEF AcceptInviteTx
  <2>2. PICK i \in Invites : i = req[r].i
    BY <2>1 DEF Sent
  <2>3. \/ UNCHANGED <<joined, inv>>
        \/ joined' = joined \cup {i} /\ Decide(i, "accepted")
    BY <1>11, <2>2 DEF AcceptInviteTx
  <2>4. "accepted" \in Decisions
    BY DEF Decisions
  <2>5. CASE joined' = joined \cup {i} /\ Decide(i, "accepted")
    <3>1. \A j \in Invites : j # i => inv'[j] = inv[j]
      BY <2>1, <2>2, <2>4, <2>5, DecideLaws
    <3>2. \A s \in Visits : req'[s] = IF s = r THEN NoRequest ELSE req[s]
      BY <1>11, <1>t DEF AcceptInviteTx, Goto
    <3> QED BY <1>1, <1>i, <2>5, <3>1, <3>2
  <2>6. CASE UNCHANGED <<joined, inv>>
    BY <1>2, <1>11, <1>i, <2>6 DEF AcceptInviteTx
  <2> QED BY <2>3, <2>5, <2>6
<1>12. ASSUME NEW r \in Visits, CutOff(r) PROVE Accounted'
  BY <1>2, <1>12, <1>i DEF CutOff
<1>13. ASSUME UNCHANGED <<req, inv, joined>> PROVE Accounted'
  BY <1>13 DEF Accounted, AcceptedJoined
<1>14. ASSUME NEW i \in Invites, Lapse(i) PROVE Accounted'
  <2>1. PICK n : n = [inv[i] EXCEPT !.ahead = FALSE]
    OBVIOUS
  <2>2. n.status = inv[i].status
    BY <1>t, <2>1 DEF Invitation
  <2>3. inv' = [inv EXCEPT ![i] = n] /\ UNCHANGED <<req, joined>>
    BY <1>14, <2>1 DEF Lapse
  <2>4. \A j \in Invites : inv'[j].status = inv[j].status
    BY <1>t, <2>2, <2>3
  <2> QED BY <1>1, <2>3, <2>4
<1>15. ASSUME ExpireOldInvitations PROVE Accounted'
  <2>1. /\ inv' = [i \in Invites |-> IF i \in Overdue THEN [inv[i] EXCEPT !.status = "expired"] ELSE inv[i]]
        /\ UNCHANGED <<req, joined>>
    BY <1>15 DEF ExpireOldInvitations
  <2>2. \A x \in Invitation : [x EXCEPT !.status = "expired"].status = "expired"
    BY DEF Invitation
  <2>3. \A j \in Invites : inv'[j].status = "accepted" => inv[j].status = "accepted"
    BY <1>t, <2>1, <2>2
  <2> QED BY <1>1, <2>1, <2>3
<1> QED
  BY <1>4, <1>5, <1>6, <1>7, <1>8, <1>9, <1>10, <1>11, <1>12, <1>13, <1>14, <1>15
     DEF InviteNext, inviteVars, RemoveMember, UpdateMemberRole

(* An invitation on record as accepted has made its addressee a member.    *)
THEOREM AcceptedHaveJoined == InviteSpec => []AcceptedJoined
<1>1. InviteInit => Accounted
  BY DEF InviteInit, Accounted, AcceptedJoined, NoRequest
<1>2. InvitedTyped /\ Accounted /\ [InviteNext]_inviteVars => Accounted'
  BY AccountedStep
<1>3. Accounted => AcceptedJoined
  BY DEF Accounted
<1> QED BY <1>1, <1>2, <1>3, InvitedTypeInv, PTL DEF InviteSpec
LEMMA DeferredStep == InvitedTyped /\ Deferred /\ [InviteNext]_inviteVars => Deferred'
<1> SUFFICES ASSUME InvitedTyped, Deferred, [InviteNext]_inviteVars PROVE Deferred'
  OBVIOUS
<1>t. inv \in [Invites -> Invitation] /\ DOMAIN req = Visits
  BY DEF InvitedTyped, InviteTypeOK, Invitation
<1>i. NoRequest.pc = "idle"
  BY DEF NoRequest
<1>s. \A r \in Visits : req[r].pc \in {"insert", "register"} => Sent(req[r].i)
  BY WhatIsCarried
(* A request moves on, or none does, and no invitation ceases to be pending *)
(* but those whose readers are told.                                        *)
<1>1. ASSUME \A r \in Visits : \/ req'[r] = req[r] /\ (r \in late => r \in late')
                               \/ req'[r].pc \in {"insert", "register"} => inv'[req'[r].i].status = "pending",
             \A i \in Invites : \/ inv[i].status = "pending" => inv'[i].status = "pending"
                                \/ \A r \in Visits : (req[r].pc \in {"insert", "register"} /\ req[r].i = i) => r \in late'
      PROVE  Deferred'
  BY <1>1, <1>s DEF Deferred, Sent
<1>2. ASSUME NEW r \in Visits, NEW q, Arrive(r, q), inv' = inv,
             q.pc \in {"insert", "register"} => inv[q.i].status = "pending"
      PROVE  Deferred'
  <2>1. req' = [req EXCEPT ![r] = q] /\ late' = late \ {r}
    BY <1>2, ArriveLaws
  <2>2. \A s \in Visits : req'[s] = IF s = r THEN q ELSE req[s]
    BY <1>t, <2>1
  <2> QED BY <1>1, <1>2, <2>1, <2>2
<1>3. ASSUME NEW r \in Visits, NEW q, Goto(r, q), q.pc \notin {"insert", "register"}, late \subseteq late',
             \A i \in Invites : \/ inv[i].status = "pending" => inv'[i].status = "pending"
                                \/ \A s \in Visits : (req[s].pc \in {"insert", "register"} /\ req[s].i = i) => s \in late'
      PROVE  Deferred'
  <2>1. \A s \in Visits : req'[s] = IF s = r THEN q ELSE req[s]
    BY <1>t, <1>3 DEF Goto
  <2> QED BY <1>1, <1>3, <2>1
<1>d. ASSUME NEW i \in Invites, NEW status \in Decisions, Sent(i), Decide(i, status)
      PROVE  /\ late \subseteq late'
             /\ \A j \in Invites : \/ inv[j].status = "pending" => inv'[j].status = "pending"
                                   \/ \A s \in Visits : (req[s].pc \in {"insert", "register"} /\ req[s].i = j) => s \in late'
  <2>1. \A j \in Invites : j # i => inv'[j] = inv[j]
    BY <1>d, DecideLaws
  <2>2. late' = late \cup {s \in Visits : req[s].pc \in {"insert", "register", "reset"} /\ req[s].i = i}
    BY <1>d DEF Decide
  <2> QED BY <2>1, <2>2
<1>4. ASSUME NEW r \in Visits, NEW u \in Addresses, NEW e \in Addresses, NEW offer \in OfferedRoles,
             InviteMember(r, u, e, offer)
      PROVE  Deferred'
  BY <1>2, <1>4 DEF InviteMember
<1>5. ASSUME NEW r \in Visits, NEW u \in Addresses, NEW i \in Invites,
             ResendInvitation(r, u, i) \/ RevokeInvitation(r, u, i)
      PROVE  Deferred'
  BY <1>2, <1>5 DEF ResendInvitation, RevokeInvitation
<1>6. ASSUME NEW r \in Visits, NEW i \in Invites,
             \/ AcceptInvitation(r, i) \/ DeclineInvitation(r, i) \/ InviteRegister(r, i)
      PROVE  Deferred'
  BY <1>2, <1>6 DEF AcceptInvitation, DeclineInvitation, InviteRegister,
     Acceptable, InForce, Pending
<1>7. ASSUME NEW r \in Visits, NEW i \in Invites, CreateInvitation(r, i) PROVE Deferred'
  <2>1. PICK n : n = [email |-> req[r].e, offer |-> req[r].offer, status |-> "pending", ahead |-> TRUE]
    OBVIOUS
  <2>2. inv' = inv \/ inv' = [inv EXCEPT ![i] = n]
    BY <1>7, <2>1 DEF CreateInvitation
  <2>3. \A j \in Invites : inv[j].status = "pending" => inv'[j].status = "pending"
    BY <1>t, <2>1, <2>2
  <2> QED BY <1>3, <1>7, <1>i, <2>3 DEF CreateInvitation
<1>8. ASSUME NEW r \in Visits, ResetToken(r) PROVE Deferred'
  <2>1. PICK i : i = req[r].i
    OBVIOUS
  <2>2. i \in Invites
    BY <1>8, <2>1, WhatIsCarried DEF ResetToken, Sent
  <2>3. PICK n : n = [inv[i] EXCEPT !.ahead = TRUE]
    OBVIOUS
  <2>4. n.status = inv[i].status
    BY <1>t, <2>2, <2>3 DEF Invitation
  <2>5. inv' = [inv EXCEPT ![i] = n]
    BY <1>8, <2>1, <2>3 DEF ResetToken
  <2>6. \A j \in Invites : inv[j].status = "pending" => inv'[j].status = "pending"
    BY <1>t, <2>4, <2>5
  <2> QED BY <1>3, <1>8, <1>i, <2>6 DEF ResetToken
<1>9. ASSUME NEW r \in Visits, JoinOrg(r) PROVE Deferred'
  <2>1. PICK q : q = [pc |-> "mark", i |-> req[r].i, status |-> "accepted"]
    OBVIOUS
  <2>2. Goto(r, q) /\ UNCHANGED <<inv, late>> /\ q.pc = "mark"
    BY <1>9, <2>1 DEF JoinOrg, InsertMember
  <2> QED BY <1>3, <2>2
<1>10. ASSUME NEW r \in Visits, MarkInvitation(r) PROVE Deferred'
  <2>1. Sent(req[r].i) /\ req[r].status \in Decisions
    BY <1>10, WhatIsCarried DEF MarkInvitation
  <2>2. PICK i \in Invites, status \in Decisions : i = req[r].i /\ status = req[r].status
    BY <2>1 DEF Sent
  <2>3. Decide(i, status) /\ Sent(i) /\ Goto(r, NoRequest)
    BY <1>10, <2>1, <2>2 DEF MarkInvitation
  <2> QED BY <1>3, <1>d, <1>i, <2>3
<1>11. ASSUME NEW r \in Visits, AcceptInviteTx(r) PROVE Deferred'
  <2>1. Sent(req[r].i)
    BY <1>11, WhatIsCarried DEF AcceptInviteTx
  <2>2. PICK i \in Invites : i = req[r].i
    BY <2>1 DEF Sent
  <2>3. Goto(r, NoRequest) /\ (UNCHANGED <<inv, late>> \/ Decide(i, "accepted"))
    BY <1>11, <2>2 DEF AcceptInviteTx
  <2>4. "accepted" \in Decisions
    BY DEF Decisions
  <2> QED BY <1>3, <1>d, <1>i, <2>1, <2>2, <2>3, <2>4
<1>12. ASSUME NEW r \in Visits, CutOff(r) PROVE Deferred'
  BY <1>3, <1>12, <1>i DEF CutOff
<1>13. ASSUME UNCHANGED <<req, inv, late>> PROVE Deferred'
  BY <1>13 DEF Deferred
<1>14. ASSUME NEW i \in Invites, Lapse(i) PROVE Deferred'
  <2>1. PICK n : n = [inv[i] EXCEPT !.ahead = FALSE]
    OBVIOUS
  <2>2. n.status = inv[i].status
    BY <1>t, <2>1 DEF Invitation
  <2>3. inv' = [inv EXCEPT ![i] = n] /\ UNCHANGED <<req, late>>
    BY <1>14, <2>1 DEF Lapse
  <2>4. \A j \in Invites : inv'[j].status = inv[j].status
    BY <1>t, <2>2, <2>3
  <2> QED BY <1>1, <2>3, <2>4
<1>15. ASSUME ExpireOldInvitations PROVE Deferred'
  <2>1. /\ inv' = [i \in Invites |-> IF i \in Overdue THEN [inv[i] EXCEPT !.status = "expired"] ELSE inv[i]]
        /\ late' = late \cup {s \in Visits : req[s].pc \in {"insert", "register", "reset"} /\ req[s].i \in Overdue}
        /\ req' = req
    BY <1>15 DEF ExpireOldInvitations
  <2>2. \A j \in Invites : j \notin Overdue => inv'[j] = inv[j]
    BY <2>1
  <2>3. \A s \in Visits : (req[s].pc \in {"insert", "register"} /\ req[s].i \in Overdue) => s \in late'
    BY <2>1
  <2> QED BY <1>1, <2>1, <2>2, <2>3
<1> QED
  BY <1>4, <1>5, <1>6, <1>7, <1>8, <1>9, <1>10, <1>11, <1>12, <1>13, <1>14, <1>15
     DEF InviteNext, inviteVars, RemoveMember, UpdateMemberRole

(* Only two kinds of steps make a member of somebody who was none.         *)
LEMMA AdmittingStep ==
    ASSUME InvitedTyped, Deferred, [InviteNext]_inviteVars,
           NEW u \in Addresses, ~IsMember(u), member'[u] # "none"
    PROVE  \E r \in Visits :
               /\ req[r].pc \in {"insert", "register"} /\ req'[r] # req[r]
               /\ inv[req[r].i].email = u
               /\ Pending(req[r].i) \/ r \in late
<1>t. member \in [Addresses -> MemberRoles \cup {"none"}] /\ DOMAIN req = Visits
  BY DEF InvitedTyped, InviteTypeOK
<1>0. member[u] = "none"
  BY DEF IsMember
<1>1. ASSUME NEW target \in Addresses, NEW by \in Addresses,
             \/ RemoveMember(by, target)
             \/ \E new \in MemberRoles : UpdateMemberRole(by, target, new)
      PROVE  FALSE
  BY <1>0, <1>1, <1>t DEF RemoveMember, UpdateMemberRole, IsMember
<1>2. ASSUME NEW r \in Visits, req[r].pc \in {"insert", "register"}, inv[req[r].i].email = u,
             NEW q, q.pc \notin {"insert", "register"}, Goto(r, q)
      PROVE  /\ req[r].pc \in {"insert", "register"} /\ req'[r] # req[r]
             /\ inv[req[r].i].email = u /\ (Pending(req[r].i) \/ r \in late)
  <2>1. req'[r] = q
    BY <1>2, <1>t DEF Goto
  <2> QED BY <1>2, <2>1 DEF Deferred, Pending
<1>3. ASSUME NEW r \in Visits, JoinOrg(r)
      PROVE  /\ req[r].pc \in {"insert", "register"} /\ req'[r] # req[r]
             /\ inv[req[r].i].email = u /\ (Pending(req[r].i) \/ r \in late)
  <2>1. PICK i : i = req[r].i
    OBVIOUS
  <2>2. PICK q : q = [pc |-> "mark", i |-> i, status |-> "accepted"]
    OBVIOUS
  <2>3. /\ req[r].pc = "insert" /\ member' = WithMember(inv[i].email, inv[i].offer)
        /\ Goto(r, q) /\ q.pc = "mark"
    BY <1>3, <2>1, <2>2 DEF JoinOrg, InsertMember
  <2>4. inv[i].email = u
    BY <1>0, <1>t, <2>3 DEF WithMember
  <2> QED BY <1>2, <2>1, <2>3, <2>4
<1>4. ASSUME NEW r \in Visits, AcceptInviteTx(r)
      PROVE  /\ req[r].pc \in {"insert", "register"} /\ req'[r] # req[r]
             /\ inv[req[r].i].email = u /\ (Pending(req[r].i) \/ r \in late)
  <2>1. PICK i : i = req[r].i
    OBVIOUS
  <2>2. /\ req[r].pc = "register" /\ Goto(r, NoRequest)
        /\ member' = member \/ member' = [member EXCEPT ![inv[i].email] = inv[i].offer]
    BY <1>4, <2>1 DEF AcceptInviteTx
  <2>3. inv[i].email = u
    BY <1>0, <1>t, <2>2
  <2>4. NoRequest.pc = "idle"
    BY DEF NoRequest
  <2> QED BY <1>2, <2>1, <2>2, <2>3, <2>4
<1>5. CASE member' = member
  BY <1>0, <1>5
<1> QED
  BY <1>1, <1>3, <1>4, <1>5 DEF InviteNext, inviteVars, InviteMember, ResendInvitation,
     RevokeInvitation, CreateInvitation, AcceptInvitation, DeclineInvitation,
     InviteRegister, ResetToken, MarkInvitation, CutOff, Lapse,
     ExpireOldInvitations

(* Whoever becomes a member was let in by an invitation that was pending   *)
(* until that step, or by a request that had read it while it was.         *)
THEOREM AdmittedByInvitation ==
    InviteSpec => AdmittedWhilePending
<1>1. InviteInit => Deferred
  BY DEF InviteInit, Deferred, NoRequest
<1>2. InvitedTyped /\ Deferred /\ [InviteNext]_inviteVars => Deferred'
  BY DeferredStep
<1>3. InvitedTyped /\ Deferred /\ [InviteNext]_inviteVars =>
          [\A u \in Addresses :
              (~IsMember(u) /\ member'[u] # "none") =>
                  \E r \in Visits :
                      /\ req[r].pc \in {"insert", "register"} /\ req'[r] # req[r]
                      /\ inv[req[r].i].email = u
                      /\ Pending(req[r].i) \/ r \in late]_inviteVars
  BY AdmittingStep
<1> QED BY <1>1, <1>2, <1>3, InvitedTypeInv, PTL DEF InviteSpec, AdmittedWhilePending
=============================================================================
