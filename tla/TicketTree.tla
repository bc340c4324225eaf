----------------------------- MODULE TicketTree -----------------------------
(***************************************************************************)
(* The tree of tickets of a project: creation under a parent, edits of a   *)
(* ticket's dates, the walk that widens the parents' dates to match        *)
(* (ExpandParentDates), archiving and restoring of subtrees, deletion.     *)
(* src/internal/handlers/tickets.go over src/internal/models/queries.go.   *)
(*                                                                         *)
(* Nothing here runs in a transaction: an edit reads the row and writes it *)
(* back whole, and the walk reads and writes one ancestor after another.   *)
(* Requests interleave at every statement, and a client that goes away     *)
(* cancels its request between two of them.                                *)
(***************************************************************************)
EXTENDS Naturals

CONSTANTS
    Tickets,   \* tickets that exist or may be created
    Requests,  \* HTTP requests under way at the same time
    Days,      \* dates, as natural numbers
    Given,     \* parents of the tickets that exist at the start, undated
    Tasks,     \* the tickets whose type is task or subtask
    None,      \* SQL NULL
    Levels,    \* ancestors a walk visits at most: five
    MaxOps     \* bound: requests made in all

ASSUME TreeAssumption ==
    /\ Days \subseteq Nat /\ None \notin Days \cup Tickets
    /\ DOMAIN Given \subseteq Tickets /\ Tasks \subseteq Tickets
    /\ \A t \in DOMAIN Given : Given[t] \in DOMAIN Given \cup {None}
    /\ Levels \in Nat \ {0} /\ MaxOps \in Nat

VARIABLES
    row,    \* the ticket rows
    req,    \* the requests: pc, ticket, its dates, ancestor to visit, copy read, levels left
    ops,    \* requests made
    short,  \* ghost: rows that lost part of their range, or that a walk failed to reach
    loose   \* ghost: rows put in view under an archived parent

treeVars == <<row, req, ops, short, loose>>

Maybe(S) == S \cup {None}
Idle == [pc |-> "idle"]

Live(t) == row[t].state = "live"

Init ==
    /\ row = [t \in Tickets |->
                 [state |-> IF t \in DOMAIN Given THEN "live" ELSE "unborn",
                  parent |-> IF t \in DOMAIN Given THEN Given[t] ELSE None,
                  archived |-> FALSE, from |-> None, to |-> None]]
    /\ req = [r \in Requests |-> Idle]
    /\ ops = 0
    /\ short = [t \in Tickets |-> FALSE]
    /\ loose = [t \in Tickets |-> FALSE]

Start(r) == req[r] = Idle /\ ops < MaxOps /\ ops' = ops + 1
Finish(r) == req' = [req EXCEPT ![r] = Idle]

-----------------------------------------------------------------------------
(* Range arithmetic.                                                       *)

Before(a, b) == a # None /\ (b = None \/ a < b)
After(a, b) == a # None /\ (b = None \/ a > b)

(* Range p encloses range c.                                               *)
Covers(p, c) == ~Before(c.from, p.from) /\ ~After(c.to, p.to)

(* Mutant: only the start of the child's range is carried upwards.         *)
WidenedFrom(p, c) == [p EXCEPT !.from = IF Before(c.from, @) THEN c.from ELSE @]
(* The parent's row as the walk writes it back.                            *)
Widened(p, c) ==
    [p EXCEPT !.from = IF Before(c.from, @) THEN c.from ELSE @,
              !.to = IF After(c.to, @) THEN c.to ELSE @]

(* UPDATE tickets SET date_start, date_end of one row, from a copy: what   *)
(* the row held meanwhile is overwritten.                                  *)
SetDates(t, new) ==
    row' = IF Live(t) THEN [row EXCEPT ![t].from = new.from, ![t].to = new.to] ELSE row
Narrows(t, new) == Live(t) /\ ~Covers(new, row[t])

(* What is left to do once a ticket is written: visit its parent, if the   *)
(* ticket has one and has dates.                                           *)
Walk(r, t, parent, dates) ==
    req' = [req EXCEPT ![r] =
        IF parent = None \/ (dates.from = None /\ dates.to = None) THEN Idle
        ELSE [pc |-> "visit", t |-> t, from |-> dates.from, to |-> dates.to, at |-> parent, left |-> Levels]]

-----------------------------------------------------------------------------
(* Requests.                                                               *)

(* The parent is looked up first; the foreign key rules out one deleted    *)
(* between the lookup and the INSERT.                                      *)
CreateTicket(r, t, parent, from, to) ==
    /\ Start(r)
    /\ row[t].state = "unborn"
    /\ parent # None => Live(parent)
    /\ row' = [row EXCEPT ![t] = [state |-> "live", parent |-> parent, archived |-> FALSE, from |-> from, to |-> to]]
    /\ Walk(r, t, parent, [from |-> from, to |-> to])
    /\ loose' = [loose EXCEPT ![t] = parent # None /\ row[parent].archived]
    /\ UNCHANGED short

(* The assistant's tool wants a parent for a task or subtask.              *)
CreateTicketTool(r, t, parent, from, to) ==
    /\ t \in Tasks => parent # None
    /\ CreateTicket(r, t, parent, from, to)

(* authorizeTicketAccess reads the row; a date the form leaves out stays   *)
(* as it was read.                                                         *)
UpdateTicket(r, t, from, to) ==
    /\ Start(r)
    /\ Live(t)
    /\ req' = [req EXCEPT ![r] = [pc |-> "write", t |-> t,
                                  from |-> IF from = None THEN row[t].from ELSE from,
                                  to |-> IF to = None THEN row[t].to ELSE to]]
    /\ UNCHANGED <<row, short, loose>>

WriteTicket(r) ==
    /\ req[r].pc = "write"
    /\ SetDates(req[r].t, req[r])
    /\ short' = [short EXCEPT ![req[r].t] = @ \/ Narrows(req[r].t, req[r])]
    /\ IF Live(req[r].t) THEN Walk(r, req[r].t, row[req[r].t].parent, req[r]) ELSE Finish(r)
    /\ UNCHANGED <<ops, loose>>

(* GetTicket of the next ancestor: the walk ends at one that is gone or    *)
(* encloses the ticket already.                                            *)
VisitParent(r) ==
    LET p == req[r].at
    IN  /\ req[r].pc = "visit"
        /\ IF Live(p) /\ ~Covers(row[p], req[r])
           THEN req' = [req EXCEPT ![r] =
                    [pc |-> "expand", t |-> @.t, from |-> @.from, to |-> @.to, at |-> p, left |-> @.left,
                     read |-> row[p]]]
           ELSE Finish(r)
        /\ UNCHANGED <<row, ops, short, loose>>

NextVisit(q) ==
    IF q.read.parent = None \/ q.left = 1 THEN Idle
    ELSE [pc |-> "visit", t |-> q.t, from |-> q.from, to |-> q.to, at |-> q.read.parent, left |-> q.left - 1]

ExpandParent(r) ==
    LET q == req[r]
    IN  /\ q.pc = "expand"
        /\ SetDates(q.at, Widened(q.read, q))
        /\ short' = [u \in Tickets |->
                        \/ short[u]
                        \/ u = q.at /\ Narrows(u, Widened(q.read, q))
                        \/ u = q.read.parent /\ q.left = 1]
        /\ req' = [req EXCEPT ![r] = NextVisit(q)]
        /\ UNCHANGED <<ops, loose>>

(* Nothing hangs below the set S but what is in it.                        *)
ClosedBelow(S) == \A u \in Tickets : Live(u) /\ row[u].parent \in S => u \in S

(* The tickets the recursive query collects from t, itself included: UNION *)
(* stops at the least set that no further child can be added to, whatever  *)
(* the shape of the tree.                                                  *)
Subtree(t) == {u \in Tickets : \A S \in SUBSET Tickets : t \in S /\ ClosedBelow(S) => u \in S}

(* Mutant: the query before the recursive one, which stopped at children.  *)
ArchivedOneLevel(t) == {t} \cup {u \in Tickets : Live(u) /\ row[u].parent = t}
ArchivedWith(t) == Subtree(t)

Archive(t) ==
    LET with == ArchivedWith(t)
    IN  /\ row' = [u \in Tickets |-> IF u \in with THEN [row[u] EXCEPT !.archived = TRUE] ELSE row[u]]
        /\ loose' = [u \in Tickets |-> loose[u] /\ u \notin Subtree(t)]

ArchiveTicket(r, t) ==
    /\ Start(r)
    /\ Live(t)
    /\ Archive(t)
    /\ UNCHANGED <<req, short>>

RestoreTicket(r, t) ==
    /\ Start(r)
    /\ Live(t)
    /\ row' = [u \in Tickets |-> IF u \in Subtree(t) THEN [row[u] EXCEPT !.archived = FALSE] ELSE row[u]]
    /\ loose' = [u \in Tickets |->
                   IF u = t THEN row[t].parent # None /\ row[row[t].parent].archived
                   ELSE loose[u] /\ u \notin Subtree(t)]
    /\ UNCHANGED <<req, short>>

(* DELETE cascades through the foreign key on the parent.                  *)
DeleteTicket(t) ==
    LET below == Subtree(t)
    IN  row' = [u \in Tickets |-> IF u \in below THEN [row[u] EXCEPT !.state = "gone"] ELSE row[u]]

(* The assistant's tools to archive and to delete first look the ticket    *)
(* up; by the time they act it may be gone, and nothing is changed.        *)
CallTool(r, t) ==
    /\ Start(r)
    /\ Live(t)
    /\ req' = [req EXCEPT ![r] = [pc |-> "tool", t |-> t]]
    /\ UNCHANGED <<row, short, loose>>

ArchiveTicketTool(r) ==
    /\ req[r].pc = "tool"
    /\ IF Live(req[r].t) THEN Archive(req[r].t) ELSE UNCHANGED <<row, loose>>
    /\ Finish(r)
    /\ UNCHANGED <<ops, short>>

(* The request is cancelled, or its next statement fails: an error of the  *)
(* walk is logged and the request still succeeds.                          *)
Abort(r) ==
    /\ req[r].pc \in {"write", "visit", "expand", "tool"}
    /\ Finish(r)
    /\ short' = IF req[r].pc \in {"visit", "expand"} THEN [short EXCEPT ![req[r].at] = TRUE] ELSE short
    /\ UNCHANGED <<row, ops, loose>>

TreeStep(r) ==
    \/ \E t \in Tickets, p \in Maybe(Tickets), from \in Maybe(Days), to \in Maybe(Days) :
          p # t /\ (CreateTicket(r, t, p, from, to) \/ CreateTicketTool(r, t, p, from, to))
    \/ \E t \in Tickets, from \in Maybe(Days), to \in Maybe(Days) : UpdateTicket(r, t, from, to)
    \/ WriteTicket(r) \/ VisitParent(r) \/ ExpandParent(r) \/ Abort(r)
    \/ \E t \in Tickets : ArchiveTicket(r, t) \/ RestoreTicket(r, t)
    \/ \E t \in Tickets : CallTool(r, t)
    \/ ArchiveTicketTool(r)

-----------------------------------------------------------------------------
(* A parent's dates enclose those of its children: an edit of a ticket     *)
(* widens every ancestor that falls short.  They fail to only where a row  *)
(* was narrowed -- by an edit of its own or by a write from a copy that    *)
(* was out of date -- or where a walk was cut off, and while a walk is on  *)
(* its way.                                                                *)
ParentsEnclose ==
    \A t \in Tickets :
        (Live(t) /\ row[t].parent # None) =>
            LET p == row[t].parent
            IN  \/ Covers(row[p], row[t])
                \/ short[p]
                \/ \E r \in Requests : req[r].pc \in {"visit", "expand"} /\ req[r].at = p

(* An archived ticket takes its whole subtree out of view: what is in view *)
(* under an archived parent was created or restored there afterwards.      *)
ArchivedSubtrees ==
    \A t \in Tickets :
        (Live(t) /\ row[t].parent # None) => (row[row[t].parent].archived => row[t].archived \/ loose[t])
=============================================================================
