------------------------- MODULE TicketItemsProofs -------------------------
(***************************************************************************)
(* Proofs about TicketItems and the TicketTree under it, for any tickets,  *)
(* any number of concurrent requests, any dates and any bound on them:     *)
(* rows refer to rows that exist (TypeCorrect), parents enclose their      *)
(* children (Enclosed), archiving takes subtrees out of view (OutOfView),  *)
(* the database and the object store agree (Stored), and a doubly clicked  *)
(* reaction is counted right (Toggled).                                    *)
(***************************************************************************)
EXTENDS TicketItems, TLAPS

Dates == Maybe(Days)
Rows == [state : {"unborn", "live", "gone"}, parent : Maybe(Tickets), archived : BOOLEAN, from : Dates, to : Dates]

(* What a request holds, stage by stage.                                   *)
Reqs ==
    {Idle}
    \cup [pc : {"write"}, t : Tickets, from : Dates, to : Dates]
    \cup [pc : {"visit"}, t : Tickets, from : Dates, to : Dates, at : Tickets, left : 1..Levels]
    \cup [pc : {"expand"}, t : Tickets, from : Dates, to : Dates, at : Tickets, left : 1..Levels, read : Rows]
    \cup [pc : {"tool", "react"}, t : Tickets]
    \cup [pc : {"record"}, t : Tickets, f : Files]
    \cup [pc : {"object", "row"}, f : Files]

RowTyping ==
    /\ row \in [Tickets -> Rows]
    /\ \A t \in Tickets : Live(t) => row[t].parent = None \/ Live(row[t].parent)
    /\ short \in [Tickets -> BOOLEAN] /\ loose \in [Tickets -> BOOLEAN]

ReqTyping == req \in [Requests -> Reqs] /\ ops \in 0..MaxOps

FileTyping ==
    /\ objects \subseteq used /\ used \subseteq Files /\ stray \subseteq Files
    /\ att \in [Files -> Maybe(Tickets)]
    /\ \A f \in Files : att[f] # None => Live(att[f])

Typing == RowTyping /\ ReqTyping /\ FileTyping

-----------------------------------------------------------------------------
(* The operators of the model.                                             *)

(* The recursive query returns a ticket with all that hangs below it, and  *)
(* nothing else: every ticket of the result but the first is the child of  *)
(* another.                                                                *)
LEMMA SubtreeLaws ==
    ASSUME NEW t \in Tickets
    PROVE  /\ t \in Subtree(t) /\ Subtree(t) \subseteq Tickets
           /\ \A u \in Tickets : Live(u) /\ row[u].parent \in Subtree(t) => u \in Subtree(t)
           /\ \A u \in Subtree(t) : u = t \/ (Live(u) /\ row[u].parent \in Subtree(t))
<1>1. t \in Subtree(t) /\ Subtree(t) \subseteq Tickets
  BY DEF Subtree
<1>2. ASSUME NEW u \in Tickets, Live(u), row[u].parent \in Subtree(t)
      PROVE  u \in Subtree(t)
  <2>1. ASSUME NEW S \in SUBSET Tickets, t \in S, ClosedBelow(S) PROVE u \in S
    <3>1. row[u].parent \in S
      BY <1>2, <2>1 DEF Subtree
    <3> QED BY <3>1, <2>1, <1>2 DEF ClosedBelow
  <2> QED BY <2>1 DEF Subtree
<1>3. ASSUME NEW u \in Subtree(t) PROVE u = t \/ (Live(u) /\ row[u].parent \in Subtree(t))
  <2> DEFINE S == {v \in Subtree(t) : v = t \/ (Live(v) /\ row[v].parent \in Subtree(t))}
  <2>1. S \in SUBSET Tickets /\ t \in S
    BY <1>1
  <2>2. ClosedBelow(S)
    <3> SUFFICES ASSUME NEW v \in Tickets, Live(v), row[v].parent \in S PROVE v \in S
      BY DEF ClosedBelow
    <3>1. row[v].parent \in Subtree(t)
      OBVIOUS
    <3> QED BY <3>1, <1>2
  <2>3. u \in S
    <3> HIDE DEF S
    <3> QED BY <2>1, <2>2, <1>3 DEF Subtree
  <2> QED BY <2>3
<1> QED BY <1>1, <1>2, <1>3

(* The fields of a request, by its stage.                                  *)
LEMMA Fields ==
    ASSUME NEW q \in Reqs
    PROVE  /\ q.pc \in {"idle", "write", "visit", "expand", "record", "object", "row", "react", "tool"}
           /\ q.pc = "write" => q.t \in Tickets /\ q.from \in Dates /\ q.to \in Dates
           /\ q.pc \in {"visit", "expand"} =>
                q.t \in Tickets /\ q.from \in Dates /\ q.to \in Dates /\ q.at \in Tickets /\ q.left \in 1..Levels
           /\ q.pc = "expand" => q.read \in Rows
           /\ q.pc \in {"tool", "react", "record"} => q.t \in Tickets
           /\ q.pc \in {"record", "object", "row"} => q.f \in Files
BY DEF Reqs, Idle

(* A request that takes a next step keeps to its shape.                    *)
LEMMA Shapes ==
    ASSUME NEW t \in Tickets, NEW from \in Dates, NEW to \in Dates
    PROVE  /\ Idle \in Reqs
           /\ [pc |-> "write", t |-> t, from |-> from, to |-> to] \in Reqs
           /\ \A at \in Tickets, left \in 1..Levels :
                [pc |-> "visit", t |-> t, from |-> from, to |-> to, at |-> at, left |-> left] \in Reqs
           /\ \A at \in Tickets, left \in 1..Levels, read \in Rows :
                [pc |-> "expand", t |-> t, from |-> from, to |-> to, at |-> at, left |-> left, read |-> read] \in Reqs
           /\ [pc |-> "tool", t |-> t] \in Reqs /\ [pc |-> "react", t |-> t] \in Reqs
           /\ \A f \in Files :
                [pc |-> "record", t |-> t, f |-> f] \in Reqs
BY DEF Reqs, Idle

LEMMA FileShapes ==
    ASSUME NEW f \in Files
    PROVE  [pc |-> "object", f |-> f] \in Reqs /\ [pc |-> "row", f |-> f] \in Reqs
BY DEF Reqs

LEMMA IdleShape == Idle \in Reqs
BY DEF Reqs

(* The dates are written into one row, if it is still there; nothing else  *)
(* changes.                                                                *)
LEMMA SetDatesLaws ==
    ASSUME row \in [Tickets -> Rows], NEW t \in Tickets, NEW new, new.from \in Dates, new.to \in Dates,
           SetDates(t, new)
    PROVE  /\ row' \in [Tickets -> Rows]
           /\ \A u \in Tickets :
                /\ row'[u].state = row[u].state /\ row'[u].parent = row[u].parent /\ row'[u].archived = row[u].archived
                /\ u # t \/ ~Live(t) => row'[u] = row[u]
           /\ Live(t) => row'[t].from = new.from /\ row'[t].to = new.to
<1>1. CASE ~Live(t)
  BY <1>1 DEF SetDates
<1>2. CASE Live(t)
  <2> DEFINE a == [row EXCEPT ![t].from = new.from]
  <2>1. row' = [a EXCEPT ![t].to = new.to]
    BY <1>2 DEF SetDates
  <2>2. a \in [Tickets -> Rows]
    BY DEF Rows
  <2>3. /\ \A u \in Tickets : u # t => a[u] = row[u]
        /\ a[t].state = row[t].state /\ a[t].parent = row[t].parent /\ a[t].archived = row[t].archived
        /\ a[t].from = new.from
    BY DEF Rows
  <2> HIDE DEF a
  <2>4. row' \in [Tickets -> Rows]
    BY <2>1, <2>2 DEF Rows
  <2>5. /\ \A u \in Tickets : u # t => row'[u] = a[u]
        /\ row'[t].state = a[t].state /\ row'[t].parent = a[t].parent /\ row'[t].archived = a[t].archived
        /\ row'[t].from = a[t].from /\ row'[t].to = new.to
    BY <2>1, <2>2 DEF Rows
  <2> QED BY <2>3, <2>4, <2>5, <1>2
<1> QED BY <1>1, <1>2

(* Neither end of a range moves past itself, and "not before" and "not     *)
(* after" are transitive, an absent date included.                         *)
LEMMA DateOrder ==
    ASSUME NEW a \in Dates, NEW b \in Dates, NEW c \in Dates
    PROVE  /\ ~Before(a, a) /\ ~After(a, a)
           /\ ~Before(None, a) /\ ~After(None, a)
           /\ Before(a, b) => ~Before(b, a)
           /\ After(a, b) => ~After(b, a)
           /\ ~Before(a, b) /\ ~Before(b, c) => ~Before(a, c)
           /\ ~After(a, b) /\ ~After(b, c) => ~After(a, c)
<1>1. \A d \in Dates : d = None \/ (d \in Nat /\ d # None)
  BY TreeAssumption DEF Dates, Maybe
<1> QED BY <1>1 DEF Before, After

(* A widened row encloses the row it was made from and the range that      *)
(* widened it.                                                             *)
LEMMA WidenedLaws ==
    ASSUME NEW p \in Rows, NEW c, c.from \in Dates, c.to \in Dates
    PROVE  /\ Widened(p, c).from \in Dates /\ Widened(p, c).to \in Dates
           /\ Widened(p, c).from \in {p.from, c.from} /\ Widened(p, c).to \in {p.to, c.to}
           /\ Covers(Widened(p, c), c) /\ Covers(Widened(p, c), p)
<1> DEFINE w == Widened(p, c)
<1>1. w.from = IF Before(c.from, p.from) THEN c.from ELSE p.from
  BY DEF Widened, Rows
<1>2. w.to = IF After(c.to, p.to) THEN c.to ELSE p.to
  BY DEF Widened, Rows
<1>3. p.from \in Dates /\ p.to \in Dates
  BY DEF Rows
<1> HIDE DEF w
<1>4. Covers(w, c) /\ Covers(w, p)
  BY <1>1, <1>2, <1>3, DateOrder DEF Covers
<1> QED BY <1>1, <1>2, <1>3, <1>4 DEF w

-----------------------------------------------------------------------------
(* Types.                                                                  *)

(* An archived mark changes, on any set of tickets.                        *)
LEMMA MarkLaws ==
    ASSUME row \in [Tickets -> Rows], NEW S, NEW mark \in BOOLEAN,
           row' = [u \in Tickets |-> IF u \in S THEN [row[u] EXCEPT !.archived = mark] ELSE row[u]]
    PROVE  /\ row' \in [Tickets -> Rows]
           /\ \A u \in Tickets :
                /\ row'[u].state = row[u].state /\ row'[u].parent = row[u].parent
                /\ row'[u].from = row[u].from /\ row'[u].to = row[u].to
                /\ row'[u].archived = IF u \in S THEN mark ELSE row[u].archived
<1>1. \A x \in Rows : /\ [x EXCEPT !.archived = mark] \in Rows
                       /\ [x EXCEPT !.archived = mark].archived = mark
                       /\ [x EXCEPT !.archived = mark].state = x.state
                       /\ [x EXCEPT !.archived = mark].parent = x.parent
                       /\ [x EXCEPT !.archived = mark].from = x.from
                       /\ [x EXCEPT !.archived = mark].to = x.to
  BY DEF Rows
<1> QED BY <1>1

LEMMA ArchiveLaws ==
    ASSUME RowTyping, NEW t \in Tickets, Archive(t)
    PROVE  /\ row' \in [Tickets -> Rows]
           /\ \A u \in Tickets :
                /\ row'[u].state = row[u].state /\ row'[u].parent = row[u].parent
                /\ row'[u].from = row[u].from /\ row'[u].to = row[u].to
                /\ row'[u].archived = (u \in Subtree(t) \/ row[u].archived)
           /\ loose' = [u \in Tickets |-> loose[u] /\ u \notin Subtree(t)]
<1>1. /\ row' = [u \in Tickets |-> IF u \in Subtree(t) THEN [row[u] EXCEPT !.archived = TRUE] ELSE row[u]]
      /\ loose' = [u \in Tickets |-> loose[u] /\ u \notin Subtree(t)]
  BY DEF Archive, ArchivedWith
<1>2. /\ row' \in [Tickets -> Rows]
      /\ \A u \in Tickets :
           /\ row'[u].state = row[u].state /\ row'[u].parent = row[u].parent
           /\ row'[u].from = row[u].from /\ row'[u].to = row[u].to
           /\ row'[u].archived = IF u \in Subtree(t) THEN TRUE ELSE row[u].archived
  BY <1>1, MarkLaws DEF RowTyping
<1>3. \A u \in Tickets : row[u].archived \in BOOLEAN
  BY DEF RowTyping, Rows
<1> QED BY <1>1, <1>2, <1>3

(* Deletion takes the subtree and nothing else.                            *)
LEMMA DeleteLaws ==
    ASSUME RowTyping, NEW t \in Tickets, DeleteTicket(t)
    PROVE  /\ row' \in [Tickets -> Rows]
           /\ \A u \in Tickets :
                /\ row'[u].parent = row[u].parent /\ row'[u].archived = row[u].archived
                /\ row'[u].from = row[u].from /\ row'[u].to = row[u].to
                /\ row'[u].state = IF u \in Subtree(t) THEN "gone" ELSE row[u].state
<1>1. row' = [u \in Tickets |-> IF u \in Subtree(t) THEN [row[u] EXCEPT !.state = "gone"] ELSE row[u]]
  BY DEF DeleteTicket
<1>2. \A x \in Rows : /\ [x EXCEPT !.state = "gone"] \in Rows
                       /\ [x EXCEPT !.state = "gone"].state = "gone"
                       /\ [x EXCEPT !.state = "gone"].archived = x.archived
                       /\ [x EXCEPT !.state = "gone"].parent = x.parent
                       /\ [x EXCEPT !.state = "gone"].from = x.from
                       /\ [x EXCEPT !.state = "gone"].to = x.to
  BY DEF Rows
<1> QED BY <1>1, <1>2 DEF RowTyping

(* The row of a new ticket.                                                *)
LEMMA CreateLaws ==
    ASSUME RowTyping, NEW r \in Requests, NEW t \in Tickets, NEW p \in Maybe(Tickets),
           NEW from \in Dates, NEW to \in Dates, CreateTicket(r, t, p, from, to)
    PROVE  /\ row' \in [Tickets -> Rows]
           /\ \A u \in Tickets : u # t => row'[u] = row[u]
           /\ row'[t].state = "live" /\ row'[t].parent = p /\ row'[t].from = from /\ row'[t].to = to
           /\ ~row'[t].archived
<1> DEFINE new == [state |-> "live", parent |-> p, archived |-> FALSE, from |-> from, to |-> to]
<1>1. row' = [row EXCEPT ![t] = new]
  BY DEF CreateTicket
<1>2. new \in Rows
  BY DEF Rows
<1> HIDE DEF new
<1>3. row' \in [Tickets -> Rows] /\ row'[t] = new /\ \A u \in Tickets : u # t => row'[u] = row[u]
  BY <1>1, <1>2 DEF RowTyping
<1> QED BY <1>3 DEF new

(* What a step does to the rows.                                           *)
RowMove(r) ==
    \/ \E t \in Tickets, p \in Maybe(Tickets), from \in Dates, to \in Dates :
          p # t /\ CreateTicket(r, t, p, from, to)
    \/ WriteTicket(r) \/ ExpandParent(r)
    \/ \E t \in Tickets : Archive(t) /\ UNCHANGED short
    \/ \E t \in Tickets : RestoreTicket(r, t)
    \/ \E t \in Tickets : DeleteTicket(t) /\ UNCHANGED <<short, loose>>
    \/ UNCHANGED <<row, loose>> /\ (UNCHANGED short \/ Abort(r))

LEMMA RowMoves ==
    ASSUME Typing, Next
    PROVE  \E r \in Requests : RowMove(r)
<1> USE DEF Dates
<1>1. PICK r \in Requests :
        \/ TreeStep(r) /\ UNCHANGED itemVars
        \/ \E t \in Tickets : DeleteTicketTx(r, t) \/ ToggleReaction(r, t)
        \/ \E t \in Tickets, f \in Files : UploadFile(r, t, f)
        \/ \E f \in Files : DeleteAttachment(r, f)
        \/ RecordAttachment(r) \/ Erase(r) \/ AddReaction(r) \/ AbortItem(r)
        \/ DeleteTicketTool(r)
  BY DEF Next
<1>2. req[r] \in Reqs
  BY DEF Typing, ReqTyping
<1>3. CASE TreeStep(r) /\ UNCHANGED itemVars
  <2>1. CASE ArchiveTicketTool(r)
    BY <2>1, <1>2, Fields DEF ArchiveTicketTool, RowMove
  <2>2. CASE \E u \in Tickets : ArchiveTicket(r, u) \/ RestoreTicket(r, u)
    BY <2>2 DEF ArchiveTicket, RowMove
  <2> QED
    BY <1>3, <2>1, <2>2 DEF TreeStep, CreateTicketTool, UpdateTicket, VisitParent, Abort, CallTool, RowMove
<1>4. CASE \E t \in Tickets : DeleteTicketTx(r, t) \/ ToggleReaction(r, t)
  BY <1>4 DEF DeleteTicketTx, Cascade, ToggleReaction, Tree, RowMove
<1>5. CASE DeleteTicketTool(r)
  BY <1>5, <1>2, Fields DEF DeleteTicketTool, Cascade, RowMove
<1>6. CASE \E t \in Tickets, f \in Files : UploadFile(r, t, f)
  BY <1>6 DEF UploadFile, Tree, RowMove
<1>7. CASE \E f \in Files : DeleteAttachment(r, f)
  BY <1>7 DEF DeleteAttachment, Tree, RowMove
<1>8. CASE RecordAttachment(r) \/ RemoveObject(r) \/ RemoveRow(r) \/ AddReaction(r) \/ AbortItem(r)
  BY <1>8 DEF RecordAttachment, RemoveObject, RemoveRow, AddReaction, AbortItem, Tree, RowMove
<1> QED BY <1>1, <1>3, <1>4, <1>5, <1>6, <1>7, <1>8 DEF Erase

LEMMA RowTypingStep ==
    ASSUME Typing, Next
    PROVE  RowTyping'
<1> USE DEF Dates
<1>0. RowTyping /\ req \in [Requests -> Reqs]
  BY DEF Typing, ReqTyping
<1>1. PICK r \in Requests : RowMove(r)
  BY RowMoves
<1>2. req[r] \in Reqs
  BY <1>0
<1>3. (\A u \in Tickets : row'[u].state = row[u].state /\ row'[u].parent = row[u].parent)
        => \A u \in Tickets : Live(u)' => row'[u].parent = None \/ Live(row[u].parent)'
  <2> SUFFICES ASSUME \A u \in Tickets : row'[u].state = row[u].state /\ row'[u].parent = row[u].parent,
                      NEW u \in Tickets, Live(u)'
               PROVE  row'[u].parent = None \/ Live(row[u].parent)'
    OBVIOUS
  <2>1. Live(u) /\ row[u].parent \in Maybe(Tickets)
    BY <1>0 DEF Live, RowTyping, Rows
  <2> QED BY <2>1, <1>0 DEF Live, RowTyping, Maybe
<1>4. CASE \E t \in Tickets, p \in Maybe(Tickets), from \in Dates, to \in Dates : p # t /\ CreateTicket(r, t, p, from, to)
  <2> PICK t \in Tickets, p \in Maybe(Tickets), from \in Dates, to \in Dates : p # t /\ CreateTicket(r, t, p, from, to)
    BY <1>4
  <2>1. /\ row' \in [Tickets -> Rows]
        /\ \A u \in Tickets : u # t => row'[u] = row[u]
        /\ row'[t].state = "live" /\ row'[t].parent = p
    BY <1>0, CreateLaws
  <2>2. \A u \in Tickets : Live(u) => row[u].parent \in Maybe(Tickets)
    BY <1>0 DEF RowTyping, Rows
  <2>3. \A u \in Tickets : Live(u)' => row'[u].parent = None \/ Live(row[u].parent)'
    BY <2>1, <2>2, <1>0 DEF CreateTicket, Live, RowTyping, Maybe
  <2> QED BY <2>1, <2>3, <1>0 DEF CreateTicket, RowTyping
<1>5. CASE WriteTicket(r) \/ ExpandParent(r)
  <2>0. \E t \in Tickets : \E new : new.from \in Dates /\ new.to \in Dates /\ SetDates(t, new)
    <3>1. CASE WriteTicket(r)
      BY <3>1, <1>2, Fields DEF WriteTicket
    <3>2. CASE ExpandParent(r)
      <4>1. req[r].from \in Dates /\ req[r].to \in Dates /\ req[r].at \in Tickets /\ req[r].read \in Rows
        BY <3>2, <1>2, Fields DEF ExpandParent
      <4>2. SetDates(req[r].at, Widened(req[r].read, req[r]))
        BY <3>2 DEF ExpandParent
      <4> QED BY <4>1, <4>2, WidenedLaws
    <3> QED BY <1>5, <3>1, <3>2
  <2>t. PICK t \in Tickets : \E new : new.from \in Dates /\ new.to \in Dates /\ SetDates(t, new)
    BY <2>0
  <2>1. PICK new : new.from \in Dates /\ new.to \in Dates /\ SetDates(t, new)
    BY <2>t
  <2>2. /\ row' \in [Tickets -> Rows]
        /\ \A u \in Tickets : row'[u].state = row[u].state /\ row'[u].parent = row[u].parent
    BY <2>1, <1>0, SetDatesLaws DEF RowTyping
  <2>3. short' \in [Tickets -> BOOLEAN] /\ loose' = loose
    BY <1>5, <1>0 DEF WriteTicket, ExpandParent, RowTyping, Narrows, Live, Covers
  <2> QED BY <2>2, <2>3, <1>3, <1>0 DEF RowTyping
<1>6. CASE \E t \in Tickets : Archive(t) /\ UNCHANGED short
  <2>1. PICK t \in Tickets : Archive(t) /\ UNCHANGED short
    BY <1>6
  <2>2. /\ row' \in [Tickets -> Rows]
        /\ \A u \in Tickets : row'[u].state = row[u].state /\ row'[u].parent = row[u].parent
        /\ loose' = [u \in Tickets |-> loose[u] /\ u \notin Subtree(t)]
    BY <2>1, <1>0, ArchiveLaws
  <2>3. loose' \in [Tickets -> BOOLEAN]
    BY <2>2
  <2> QED BY <2>1, <2>2, <2>3, <1>3, <1>0 DEF RowTyping
<1>7. CASE \E t \in Tickets : RestoreTicket(r, t)
  <2> PICK t \in Tickets : RestoreTicket(r, t)
    BY <1>7
  <2>1. row' = [u \in Tickets |-> IF u \in Subtree(t) THEN [row[u] EXCEPT !.archived = FALSE] ELSE row[u]]
    BY DEF RestoreTicket
  <2>2. /\ row' \in [Tickets -> Rows]
        /\ \A u \in Tickets : row'[u].state = row[u].state /\ row'[u].parent = row[u].parent
    BY <2>1, <1>0, MarkLaws DEF RowTyping
  <2>3. \A u \in Tickets : loose[u] \in BOOLEAN /\ row[u].archived \in BOOLEAN /\ row[u].parent \in Maybe(Tickets)
    BY <1>0 DEF RowTyping, Rows
  <2>4. (row[t].parent # None /\ row[row[t].parent].archived) \in BOOLEAN
    OBVIOUS
  <2>5. loose' \in [Tickets -> BOOLEAN] /\ UNCHANGED short
    BY <2>4 DEF RestoreTicket
  <2> QED BY <2>2, <2>5, <1>3, <1>0 DEF RowTyping
<1>8. CASE \E t \in Tickets : DeleteTicket(t) /\ UNCHANGED <<short, loose>>
  <2> PICK t \in Tickets : DeleteTicket(t) /\ UNCHANGED <<short, loose>>
    BY <1>8
  <2>1. /\ row' \in [Tickets -> Rows]
        /\ \A u \in Tickets : /\ row'[u].parent = row[u].parent
                              /\ row'[u].state = IF u \in Subtree(t) THEN "gone" ELSE row[u].state
    BY <1>0, DeleteLaws
  <2>2. \A u \in Tickets : Live(u) /\ row[u].parent \in Subtree(t) => u \in Subtree(t)
    BY SubtreeLaws
  <2>3. \A u \in Tickets : row[u].parent \in Maybe(Tickets)
    BY <1>0 DEF RowTyping, Rows
  <2>4. \A u \in Tickets : Live(u)' => row'[u].parent = None \/ Live(row[u].parent)'
    BY <2>1, <2>2, <2>3, <1>0 DEF RowTyping, Live, Maybe
  <2> QED BY <2>1, <2>4, <1>0 DEF RowTyping
<1>9. CASE UNCHANGED <<row, loose>> /\ (UNCHANGED short \/ Abort(r))
  <2>1. short' \in [Tickets -> BOOLEAN]
    BY <1>9, <1>0 DEF Abort, RowTyping
  <2> QED BY <2>1, <1>9, <1>0 DEF RowTyping, Live
<1> QED BY <1>1, <1>4, <1>5, <1>6, <1>7, <1>8, <1>9 DEF RowMove

LEMMA WalkLaws ==
    ASSUME req \in [Requests -> Reqs], NEW r \in Requests, NEW t \in Tickets, NEW parent \in Maybe(Tickets),
           NEW dates, dates.from \in Dates, dates.to \in Dates, Walk(r, t, parent, dates)
    PROVE  \E q \in Reqs : req' = [req EXCEPT ![r] = q]
<1> DEFINE v == [pc |-> "visit", t |-> t, from |-> dates.from, to |-> dates.to, at |-> parent, left |-> Levels]
<1>1. Idle \in Reqs /\ (parent # None => v \in Reqs)
  <2>1. Levels \in 1..Levels /\ (parent # None => parent \in Tickets)
    BY TreeAssumption DEF Maybe
  <2> QED BY <2>1, IdleShape DEF Reqs
<1> HIDE DEF v
<1>2. req' = [req EXCEPT ![r] = IF parent = None \/ (dates.from = None /\ dates.to = None) THEN Idle ELSE v]
  BY DEF Walk, v
<1> QED BY <1>1, <1>2

(* A step changes one request, within its shapes, or none.                 *)
LEMMA ReqMoves ==
    ASSUME Typing, Next
    PROVE  req' = req \/ \E r \in Requests, q \in Reqs : req' = [req EXCEPT ![r] = q]
<1> USE DEF Dates
<1>0. RowTyping /\ req \in [Requests -> Reqs]
  BY DEF Typing, ReqTyping
<1>1. PICK r \in Requests :
        \/ TreeStep(r) /\ UNCHANGED itemVars
        \/ \E t \in Tickets : DeleteTicketTx(r, t) \/ ToggleReaction(r, t)
        \/ \E t \in Tickets, f \in Files : UploadFile(r, t, f)
        \/ \E f \in Files : DeleteAttachment(r, f)
        \/ RecordAttachment(r) \/ Erase(r) \/ AddReaction(r) \/ AbortItem(r)
        \/ DeleteTicketTool(r)
  BY DEF Next
<1>2. req[r] \in Reqs
  BY <1>0
<1>3. \A u \in Tickets : row[u] \in Rows /\ row[u].parent \in Maybe(Tickets) /\ row[u].from \in Dates /\ row[u].to \in Dates
  BY <1>0 DEF RowTyping, Rows
<1>4. CASE Finish(r)
  BY <1>4, IdleShape DEF Finish
<1>5. CASE \E t \in Tickets, p \in Maybe(Tickets), from \in Dates, to \in Dates : CreateTicket(r, t, p, from, to)
  <2> PICK t \in Tickets, p \in Maybe(Tickets), from \in Dates, to \in Dates : CreateTicket(r, t, p, from, to)
    BY <1>5
  <2> DEFINE dates == [from |-> from, to |-> to]
  <2>1. Walk(r, t, p, dates) /\ dates.from \in Dates /\ dates.to \in Dates
    BY DEF CreateTicket
  <2> HIDE DEF dates
  <2> QED BY <2>1, <1>0, WalkLaws
<1>6. CASE \E t \in Tickets, from \in Dates, to \in Dates : UpdateTicket(r, t, from, to)
  <2> PICK t \in Tickets, from \in Dates, to \in Dates : UpdateTicket(r, t, from, to)
    BY <1>6
  <2> DEFINE f == IF from = None THEN row[t].from ELSE from
             e == IF to = None THEN row[t].to ELSE to
  <2>1. f \in Dates /\ e \in Dates
    BY <1>3
  <2>2. req' = [req EXCEPT ![r] = [pc |-> "write", t |-> t, from |-> f, to |-> e]]
    BY DEF UpdateTicket
  <2> HIDE DEF f, e
  <2> QED BY <2>1, <2>2, Shapes
<1>7. CASE WriteTicket(r)
  <2> DEFINE q == req[r]
  <2>1. q.t \in Tickets /\ q.from \in Dates /\ q.to \in Dates
    BY <1>7, <1>2, Fields DEF WriteTicket
  <2>2. Walk(r, q.t, row[q.t].parent, q) \/ Finish(r)
    BY <1>7 DEF WriteTicket
  <2> HIDE DEF q
  <2> QED BY <2>1, <2>2, <1>0, <1>3, <1>4, WalkLaws
<1>8. CASE VisitParent(r)
  <2> DEFINE q == req[r]
             n == [pc |-> "expand", t |-> q.t, from |-> q.from, to |-> q.to, at |-> q.at, left |-> q.left, read |-> row[q.at]]
  <2>1. q.t \in Tickets /\ q.from \in Dates /\ q.to \in Dates /\ q.at \in Tickets /\ q.left \in 1..Levels
    BY <1>8, <1>2, Fields DEF VisitParent
  <2>2. Finish(r) \/ req' = [req EXCEPT ![r] = n]
    BY <1>8, <1>0 DEF VisitParent
  <2>3. n \in Reqs
    <3> HIDE DEF q
    <3> QED BY <2>1, <1>3, Shapes
  <2> HIDE DEF n
  <2> QED BY <2>2, <2>3, <1>4
<1>9. CASE ExpandParent(r)
  <2> DEFINE q == req[r]
             n == [pc |-> "visit", t |-> q.t, from |-> q.from, to |-> q.to, at |-> q.read.parent, left |-> q.left - 1]
  <2>1. /\ q.t \in Tickets /\ q.from \in Dates /\ q.to \in Dates /\ q.left \in 1..Levels
        /\ q.read.parent \in Maybe(Tickets)
    <3>1. q.pc = "expand"
      BY <1>9 DEF ExpandParent
    <3> QED BY <3>1, <1>2, Fields DEF Rows
  <2>2. req' = [req EXCEPT ![r] = IF q.read.parent = None \/ q.left = 1 THEN Idle ELSE n]
    BY <1>9 DEF ExpandParent, NextVisit
  <2>3. q.read.parent # None /\ q.left # 1 => n \in Reqs
    <3>1. q.left # 1 => q.left - 1 \in 1..Levels
      BY <2>1, TreeAssumption
    <3> HIDE DEF q
    <3> QED BY <2>1, <3>1, Shapes DEF Maybe
  <2> HIDE DEF n, q
  <2> QED BY <2>2, <2>3, IdleShape
<1>10. CASE \E t \in Tickets, f \in Files : UploadFile(r, t, f)
  <2> PICK t \in Tickets, f \in Files : UploadFile(r, t, f)
    BY <1>10
  <2>1. [pc |-> "record", t |-> t, f |-> f] \in Reqs
    BY DEF Reqs
  <2> QED BY <2>1 DEF UploadFile, Upload, Goto
<1>11. CASE \E f \in Files : DeleteAttachment(r, f)
  BY <1>11, FileShapes DEF DeleteAttachment, Goto
<1>12. CASE RemoveObject(r)
  <2>1. req[r].f \in Files
    BY <1>12, <1>2, Fields DEF RemoveObject
  <2> QED BY <2>1, <1>12, FileShapes DEF RemoveObject, DeleteObject, Goto
<1>13. CASE \E t \in Tickets : ToggleReaction(r, t) \/ CallTool(r, t)
  <2>1. \A t \in Tickets : [pc |-> "tool", t |-> t] \in Reqs /\ [pc |-> "react", t |-> t] \in Reqs
    BY DEF Reqs
  <2> QED BY <2>1, <1>13 DEF ToggleReaction, CallTool, Goto
<1>14. CASE \E t \in Tickets : ArchiveTicket(r, t) \/ RestoreTicket(r, t) \/ DeleteTicketTx(r, t)
  BY <1>14 DEF ArchiveTicket, RestoreTicket, DeleteTicketTx
<1>15. CASE \/ Abort(r) \/ ArchiveTicketTool(r)
            \/ RecordAttachment(r) \/ RemoveRow(r) \/ AddReaction(r) \/ AbortItem(r) \/ DeleteTicketTool(r)
  BY <1>15, <1>4 DEF Abort, ArchiveTicketTool, RecordAttachment, RemoveRow, AddReaction, AbortItem, DeleteTicketTool
<1> QED BY <1>1, <1>5, <1>6, <1>7, <1>8, <1>9, <1>10, <1>11, <1>12, <1>13, <1>14, <1>15 DEF Erase, TreeStep, CreateTicketTool

LEMMA ReqTypingStep ==
    ASSUME Typing, Next
    PROVE  ReqTyping'
<1>1. req' \in [Requests -> Reqs]
  BY ReqMoves DEF Typing, ReqTyping
<1>2. ops' = ops \/ (ops < MaxOps /\ ops' = ops + 1)
  <2>1. ASSUME NEW r \in Requests, TreeStep(r) PROVE ops' = ops \/ (ops < MaxOps /\ ops' = ops + 1)
    <3>1. ASSUME NEW t \in Tickets, NEW p, NEW from, NEW to,
                 CreateTicket(r, t, p, from, to) \/ UpdateTicket(r, t, from, to)
          PROVE  ops < MaxOps /\ ops' = ops + 1
      BY <3>1 DEF CreateTicket, UpdateTicket, Start
    <3>2. CASE \/ WriteTicket(r) \/ VisitParent(r) \/ ExpandParent(r) \/ Abort(r) \/ ArchiveTicketTool(r)
      BY <3>2 DEF WriteTicket, VisitParent, ExpandParent, Abort, ArchiveTicketTool
    <3>3. CASE \E t \in Tickets : ArchiveTicket(r, t) \/ RestoreTicket(r, t) \/ CallTool(r, t)
      BY <3>3 DEF ArchiveTicket, RestoreTicket, CallTool, Start
    <3> QED BY <2>1, <3>1, <3>2, <3>3 DEF TreeStep, CreateTicketTool
  <2>2. ASSUME NEW r \in Requests, ~TreeStep(r),
               \/ \E t \in Tickets : DeleteTicketTx(r, t) \/ ToggleReaction(r, t)
               \/ \E t \in Tickets, f \in Files : UploadFile(r, t, f)
               \/ \E f \in Files : DeleteAttachment(r, f)
               \/ RecordAttachment(r) \/ Erase(r) \/ AddReaction(r) \/ AbortItem(r)
               \/ DeleteTicketTool(r)
        PROVE  ops' = ops \/ (ops < MaxOps /\ ops' = ops + 1)
    BY <2>2 DEF Erase, DeleteTicketTx, ToggleReaction, UploadFile, DeleteAttachment, RecordAttachment, RemoveObject,
                RemoveRow, AddReaction, AbortItem, DeleteTicketTool, Start
  <2> QED BY <2>1, <2>2 DEF Next
<1>3. ops' \in 0..MaxOps
  BY <1>2, TreeAssumption DEF Typing, ReqTyping
<1> QED BY <1>1, <1>3 DEF ReqTyping

(* Only the deletions of TicketItems take a live ticket away.              *)
LEMMA LiveStays ==
    ASSUME Typing, NEW r \in Requests, TreeStep(r)
    PROVE  \A u \in Tickets : Live(u) => Live(u)'
<1> USE DEF Dates
<1>0. RowTyping /\ req[r] \in Reqs
  BY DEF Typing, ReqTyping
<1>1. CASE \E t \in Tickets, p \in Maybe(Tickets), from \in Dates, to \in Dates : CreateTicket(r, t, p, from, to)
  <2> PICK t \in Tickets, p \in Maybe(Tickets), from \in Dates, to \in Dates : CreateTicket(r, t, p, from, to)
    BY <1>1
  <2>1. row'[t].state = "live" /\ \A u \in Tickets : u # t => row'[u] = row[u]
    BY <1>0, CreateLaws
  <2> QED BY <2>1 DEF Live
<1>2. CASE WriteTicket(r)
  <2>1. req[r].t \in Tickets /\ req[r].from \in Dates /\ req[r].to \in Dates /\ SetDates(req[r].t, req[r])
    BY <1>2, <1>0, Fields DEF WriteTicket
  <2> QED BY <2>1, <1>0, SetDatesLaws DEF RowTyping, Live
<1>3. CASE ExpandParent(r)
  <2>1. /\ req[r].at \in Tickets /\ req[r].read \in Rows /\ req[r].from \in Dates /\ req[r].to \in Dates
        /\ SetDates(req[r].at, Widened(req[r].read, req[r]))
    BY <1>3, <1>0, Fields DEF ExpandParent
  <2>2. Widened(req[r].read, req[r]).from \in Dates /\ Widened(req[r].read, req[r]).to \in Dates
    BY <2>1, WidenedLaws
  <2> QED BY <2>1, <2>2, <1>0, SetDatesLaws DEF RowTyping, Live
<1>4. CASE \E t \in Tickets : Archive(t)
  BY <1>4, <1>0, ArchiveLaws DEF Live
<1>5. CASE \E t \in Tickets : RestoreTicket(r, t)
  BY <1>5, <1>0, MarkLaws DEF RestoreTicket, Live, RowTyping
<1>6. CASE UNCHANGED row
  BY <1>6 DEF Live
<1> QED
  <2>1. ArchiveTicketTool(r) => UNCHANGED row \/ \E t \in Tickets : Archive(t)
    BY <1>0, Fields DEF ArchiveTicketTool
  <2> QED
    BY <2>1, <1>1, <1>2, <1>3, <1>4, <1>5, <1>6
    DEF TreeStep, CreateTicketTool, UpdateTicket, VisitParent, Abort, CallTool, ArchiveTicket

(* Deletion and its cascade leave the rows of attachments on live tickets. *)
LEMMA CascadeLaws ==
    ASSUME RowTyping, FileTyping, NEW t \in Tickets, Cascade(t)
    PROVE  /\ att' \in [Files -> Maybe(Tickets)] /\ stray' \subseteq Files
           /\ \A f \in Files : att'[f] # None => att'[f] = att[f] /\ Live(att[f])'
           /\ \A f \in Files : att'[f] = att[f] \/ (att'[f] = None /\ f \in stray')
           /\ stray \subseteq stray'
<1>1. /\ DeleteTicket(t)
      /\ att' = [f \in Files |-> IF f \in CascadedFiles(t) THEN None ELSE att[f]]
      /\ stray' = stray \cup CascadedFiles(t)
      /\ \A f \in Files : f \in CascadedFiles(t) <=> att[f] \in Subtree(t)
      /\ CascadedFiles(t) \subseteq Files
  BY DEF Cascade, CascadedFiles
<1>2. \A u \in Tickets : row'[u].state = IF u \in Subtree(t) THEN "gone" ELSE row[u].state
  BY <1>1, DeleteLaws
<1>3. ASSUME NEW f \in Files, att'[f] # None PROVE att'[f] = att[f] /\ Live(att[f])'
  <2>1. att'[f] = att[f] /\ att[f] \notin Subtree(t) /\ att[f] \in Tickets /\ Live(att[f])
    BY <1>1, <1>3 DEF FileTyping, Maybe
  <2> QED BY <2>1, <1>2 DEF Live
<1> QED BY <1>1, <1>3 DEF FileTyping, Maybe

LEMMA FileTypingStep ==
    ASSUME Typing, Next
    PROVE  FileTyping'
<1>0. RowTyping /\ FileTyping
  BY DEF Typing
<1>1. PICK r \in Requests :
        \/ TreeStep(r) /\ UNCHANGED itemVars
        \/ \E t \in Tickets : DeleteTicketTx(r, t) \/ ToggleReaction(r, t)
        \/ \E t \in Tickets, f \in Files : UploadFile(r, t, f)
        \/ \E f \in Files : DeleteAttachment(r, f)
        \/ RecordAttachment(r) \/ Erase(r) \/ AddReaction(r) \/ AbortItem(r)
        \/ DeleteTicketTool(r)
  BY DEF Next
<1>2. req[r] \in Reqs
  BY DEF Typing, ReqTyping
<1>3. CASE TreeStep(r) /\ UNCHANGED itemVars
  <2>1. \A u \in Tickets : Live(u) => Live(u)'
    BY <1>3, LiveStays
  <2>2. \A f \in Files : att'[f] # None => Live(att[f])'
    BY <2>1, <1>3, <1>0 DEF FileTyping, itemVars, Maybe, Live
  <2> QED BY <2>2, <1>3, <1>0 DEF FileTyping, itemVars
<1>4. CASE \E t \in Tickets : Cascade(t) /\ UNCHANGED <<objects, used>>
  <2> PICK t \in Tickets : Cascade(t) /\ UNCHANGED <<objects, used>>
    BY <1>4
  <2>1. \A f \in Files : att'[f] # None => Live(att[f])'
    BY <1>0, CascadeLaws
  <2>2. att' \in [Files -> Maybe(Tickets)] /\ stray' \subseteq Files
    BY <1>0, CascadeLaws
  <2> QED BY <2>1, <2>2, <1>0 DEF FileTyping
<1>5. CASE \E t \in Tickets, f \in Files : UploadFile(r, t, f)
  BY <1>5, <1>0 DEF UploadFile, Upload, FileTyping, Tree, Live
<1>6. CASE RecordAttachment(r)
  <2>1. req[r].f \in Files /\ req[r].t \in Tickets
    BY <1>6, <1>2, Fields DEF RecordAttachment
  <2> QED BY <2>1, <1>6, <1>0 DEF RecordAttachment, FileTyping, Tree, Live, Maybe
<1>7. CASE RemoveObject(r) \/ RemoveRow(r)
  <2>1. req[r].f \in Files
    BY <1>7, <1>2, Fields DEF RemoveObject, RemoveRow
  <2> QED BY <2>1, <1>7, <1>0 DEF RemoveObject, DeleteObject, RemoveRow, FileTyping, Tree, Live, Maybe
<1>8. CASE AbortItem(r)
  <2>1. req[r].pc \in {"record", "row"} => req[r].f \in Files
    BY <1>8, <1>2, Fields DEF AbortItem
  <2>2. stray' \subseteq Files
    BY <2>1, <1>8, <1>0 DEF AbortItem, FileTyping
  <2> QED BY <2>2, <1>8, <1>0 DEF AbortItem, FileTyping, Tree, Live
<1>9. CASE UNCHANGED <<row, objects, used, att, stray, hollow>>
  BY <1>9, <1>0 DEF FileTyping, Live
<1>10. DeleteTicketTool(r) => \/ \E t \in Tickets : Cascade(t) /\ UNCHANGED <<objects, used>>
                              \/ UNCHANGED <<row, objects, used, att, stray, hollow>>
  BY <1>2, Fields DEF DeleteTicketTool
<1>11. \A t \in Tickets : DeleteTicketTx(r, t) => Cascade(t) /\ UNCHANGED <<objects, used>>
  BY DEF DeleteTicketTx
<1>12. \/ \E t \in Tickets : ToggleReaction(r, t)
       \/ \E f \in Files : DeleteAttachment(r, f)
       \/ AddReaction(r)
       => UNCHANGED <<row, objects, used, att, stray, hollow>>
  BY DEF ToggleReaction, DeleteAttachment, AddReaction, Tree, itemVars
<1> QED BY <1>1, <1>3, <1>4, <1>5, <1>6, <1>7, <1>8, <1>9, <1>10, <1>11, <1>12 DEF Erase

LEMMA TypingInit == ASSUME InitItems PROVE Typing
<1> USE DEF Dates
<1>1. \A t \in Tickets : row[t] \in Rows
  BY TreeAssumption DEF InitItems, Init, Rows, Maybe
<1>2. \A t \in Tickets : Live(t) => row[t].parent = None \/ Live(row[t].parent)
  BY TreeAssumption DEF InitItems, Init, Live
<1>3. RowTyping
  BY <1>1, <1>2 DEF RowTyping, InitItems, Init
<1>4. ReqTyping
  BY IdleShape, TreeAssumption DEF ReqTyping, InitItems, Init
<1>5. FileTyping
  BY DEF FileTyping, InitItems, Maybe
<1> QED BY <1>3, <1>4, <1>5 DEF Typing

LEMMA TypingStep == ASSUME Typing, [Next]_vars PROVE Typing'
<1>1. CASE Next
  BY <1>1, RowTypingStep, ReqTypingStep, FileTypingStep DEF Typing
<1>2. CASE UNCHANGED vars
  BY <1>2 DEF vars, treeVars, itemVars, Typing, RowTyping, ReqTyping, FileTyping, Live
<1> QED BY <1>1, <1>2

(* The type invariant, and the references of the database: the parent of a *)
(* live ticket is live, and an attachment is recorded for a live ticket,   *)
(* whatever was deleted in between.                                        *)
THEOREM TypeCorrect == Spec => []TypeOK
<1>1. Typing => TypeOK
  <2> SUFFICES ASSUME Typing PROVE TypeOK
    OBVIOUS
  <2>1. \A r \in Requests : req[r].pc \in {"idle", "write", "visit", "expand", "record", "object", "row", "react", "tool"}
    BY Fields DEF Typing, ReqTyping
  <2> QED BY <2>1 DEF Typing, RowTyping, ReqTyping, FileTyping, TypeOK, Rows, Dates
<1> QED BY <1>1, TypingInit, TypingStep, PTL DEF Spec

LEMMA TypingAlways == Spec => []Typing
BY TypingInit, TypingStep, PTL DEF Spec

-----------------------------------------------------------------------------
(* Reactions.                                                              *)

(* The toggles counted for a ticket are zero or one, and one exactly when  *)
(* the reaction stands.                                                    *)
Counted == toggles \in [Tickets -> 0..1] /\ ReactionParity

(* Two clicks on one emoji at the same time: the reaction stands exactly   *)
(* when an odd number of toggles were reported as done (ToggleReaction,    *)
(* two statements with no transaction).                                    *)
THEOREM Toggled == Spec => []ReactionParity
<1>1. InitItems => Counted
  BY DEF InitItems, Counted, ReactionParity
<1>2. Typing /\ Counted /\ [Next]_vars => Counted'
  <2> SUFFICES ASSUME Typing, Counted, [Next]_vars PROVE Counted'
    OBVIOUS
  <2>1. CASE UNCHANGED <<reacted, toggles>>
    BY <2>1 DEF Counted, ReactionParity
  <2>2. ASSUME NEW r \in Requests, NEW t \in Tickets, ToggleReaction(r, t) PROVE Counted'
    BY <2>2 DEF ToggleReaction, Counted, ReactionParity
  <2>3. ASSUME NEW r \in Requests, AddReaction(r) PROVE Counted'
    <3>1. req[r].t \in Tickets
      BY <2>3, Fields DEF AddReaction, Typing, ReqTyping
    <3> QED BY <2>3, <3>1 DEF AddReaction, Added, Counted, ReactionParity
  <2>4. ASSUME NEW r \in Requests,
               \/ TreeStep(r) /\ UNCHANGED itemVars
               \/ \E t \in Tickets : DeleteTicketTx(r, t)
               \/ \E t \in Tickets, f \in Files : UploadFile(r, t, f)
               \/ \E f \in Files : DeleteAttachment(r, f)
               \/ RecordAttachment(r) \/ Erase(r) \/ AbortItem(r)
               \/ DeleteTicketTool(r)
        PROVE  UNCHANGED <<reacted, toggles>>
    BY <2>4 DEF Erase, itemVars, DeleteTicketTx, UploadFile, DeleteAttachment, RecordAttachment, RemoveObject,
                RemoveRow, AbortItem, DeleteTicketTool
  <2> QED BY <2>1, <2>2, <2>3, <2>4 DEF Next, vars, itemVars
<1>3. Counted => ReactionParity
  BY DEF Counted
<1> QED BY <1>1, <1>2, <1>3, TypingAlways, PTL DEF Spec

-----------------------------------------------------------------------------
(* Attachments.                                                            *)

Handles(r, f) == req[r].pc \in {"record", "object", "row"} /\ req[r].f = f

(* A key is handed out once.  Until its row is made the object is there    *)
(* and its upload alone knows the key; the object is gone by the time a    *)
(* deletion comes to the row.                                              *)
Filing ==
    /\ \A f \in Files \ used : att[f] = None /\ f \notin objects /\ \A r \in Requests : ~Handles(r, f)
    /\ \A r \in Requests, f \in Files :
          req[r].pc = "record" /\ req[r].f = f =>
            f \in objects /\ att[f] = None /\ \A q \in Requests : Handles(q, f) => q = r
    /\ \A r \in Requests, f \in Files : req[r].pc = "row" /\ req[r].f = f => f \notin objects

(* A request that has to do with no attachment, before and after a step.   *)
Elsewhere(r) ==
    /\ req[r].pc \notin {"record", "object", "row"} /\ (req[r].pc)' \notin {"record", "object", "row"}
    /\ \A q \in Requests : q # r => req'[q] = req[q]

LEMMA TreeStepsElsewhere ==
    ASSUME Typing, NEW r \in Requests, TreeStep(r)
    PROVE  Elsewhere(r)
<1>0. req \in [Requests -> Reqs]
  BY DEF Typing, ReqTyping
<1>1. ASSUME req[r] = Idle PROVE req[r].pc = "idle"
  BY <1>1 DEF Idle
<1>2. ASSUME NEW t, NEW p, NEW from, NEW to, CreateTicket(r, t, p, from, to) PROVE Elsewhere(r)
  BY <1>2, <1>1, <1>0 DEF CreateTicket, Start, Walk, Elsewhere, Idle
<1>3. ASSUME NEW t, NEW from, NEW to, UpdateTicket(r, t, from, to) PROVE Elsewhere(r)
  BY <1>3, <1>1, <1>0 DEF UpdateTicket, Start, Elsewhere
<1>4. ASSUME WriteTicket(r) PROVE Elsewhere(r)
  BY <1>4, <1>0 DEF WriteTicket, Walk, Finish, Elsewhere, Idle
<1>5. ASSUME VisitParent(r) PROVE Elsewhere(r)
  BY <1>5, <1>0 DEF VisitParent, Finish, Elsewhere, Idle
<1>6. ASSUME ExpandParent(r) PROVE Elsewhere(r)
  BY <1>6, <1>0 DEF ExpandParent, NextVisit, Elsewhere, Idle
<1>7. ASSUME NEW t, ArchiveTicket(r, t) \/ RestoreTicket(r, t) \/ CallTool(r, t) PROVE Elsewhere(r)
  BY <1>7, <1>1, <1>0 DEF ArchiveTicket, RestoreTicket, CallTool, Start, Elsewhere
<1>8. ASSUME Abort(r) \/ ArchiveTicketTool(r) PROVE Elsewhere(r)
  BY <1>8, <1>0 DEF Abort, ArchiveTicketTool, Finish, Elsewhere, Idle
<1> QED BY <1>2, <1>3, <1>4, <1>5, <1>6, <1>7, <1>8 DEF TreeStep, CreateTicketTool

LEMMA FilingElsewhere ==
    ASSUME Filing, StoresAgree, NEW r \in Requests, Elsewhere(r),
           UNCHANGED <<objects, att, used, stray, hollow>>
    PROVE  Filing' /\ StoresAgree'
<1>1. \A q \in Requests, f \in Files :
        /\ Handles(q, f)' <=> Handles(q, f)
        /\ (req'[q].pc \in {"record", "row"} /\ req'[q].f = f) <=> (req[q].pc \in {"record", "row"} /\ req[q].f = f)
        /\ (req'[q].pc = "record" /\ req'[q].f = f) <=> (req[q].pc = "record" /\ req[q].f = f)
        /\ (req'[q].pc = "row" /\ req'[q].f = f) <=> (req[q].pc = "row" /\ req[q].f = f)
  BY DEF Elsewhere, Handles
<1>2. Filing'
  BY <1>1 DEF Filing
<1>3. StoresAgree'
  BY <1>1 DEF StoresAgree
<1> QED BY <1>2, <1>3

(* A deletion takes rows away, and answers for the objects it leaves.      *)
LEMMA FilingCascade ==
    ASSUME Typing, Filing, StoresAgree, NEW t \in Tickets, Cascade(t), UNCHANGED <<objects, used, hollow>>,
           req' = req \/ \E r \in Requests : Elsewhere(r)
    PROVE  Filing' /\ StoresAgree'
<1>1. /\ \A f \in Files : att'[f] = att[f] \/ (att'[f] = None /\ f \in stray')
      /\ stray \subseteq stray'
  BY CascadeLaws DEF Typing
<1>2. \A q \in Requests, f \in Files :
        /\ Handles(q, f)' <=> Handles(q, f)
        /\ (req'[q].pc \in {"record", "row"} /\ req'[q].f = f) <=> (req[q].pc \in {"record", "row"} /\ req[q].f = f)
        /\ (req'[q].pc = "record" /\ req'[q].f = f) <=> (req[q].pc = "record" /\ req[q].f = f)
        /\ (req'[q].pc = "row" /\ req'[q].f = f) <=> (req[q].pc = "row" /\ req[q].f = f)
  BY DEF Elsewhere, Handles
<1>3. Filing'
  BY <1>1, <1>2 DEF Filing
<1>4. StoresAgree'
  BY <1>1, <1>2 DEF StoresAgree
<1> QED BY <1>3, <1>4

(* The database and the object store agree on what is attached.  An object *)
(* is left without a row by an upload that is not recorded and by a ticket *)
(* that goes with its attachments, never by a deletion of the attachment;  *)
(* a row without its object by such a deletion that is cut off (UploadFile *)
(* and DeleteAttachment of files.go, and the cascade of the foreign key).  *)
THEOREM Stored == Spec => []StoresAgree
<1>1. InitItems => Filing /\ StoresAgree
  BY DEF InitItems, Init, Idle, Filing, StoresAgree, Handles
<1>2. Typing /\ Filing /\ StoresAgree /\ [Next]_vars => Filing' /\ StoresAgree'
  <2> SUFFICES ASSUME Typing, Filing, StoresAgree, [Next]_vars PROVE Filing' /\ StoresAgree'
    OBVIOUS
  <2>0. req \in [Requests -> Reqs] /\ objects \subseteq used /\ used \subseteq Files /\ att \in [Files -> Maybe(Tickets)]
    BY DEF Typing, ReqTyping, FileTyping
  <2>1. CASE UNCHANGED vars
    <3>1. Filing'
      BY <2>1 DEF vars, treeVars, itemVars, Filing, Handles
    <3>2. StoresAgree'
      BY <2>1 DEF vars, treeVars, itemVars, StoresAgree
    <3> QED BY <3>1, <3>2
  <2>2. ASSUME NEW r \in Requests, TreeStep(r), UNCHANGED itemVars PROVE Filing' /\ StoresAgree'
    BY <2>2, TreeStepsElsewhere, FilingElsewhere DEF itemVars
  <2>3. ASSUME NEW r \in Requests, NEW t \in Tickets, ToggleReaction(r, t)
        PROVE  Filing' /\ StoresAgree'
    <3>1. Elsewhere(r) /\ UNCHANGED <<objects, att, used, stray, hollow>>
      BY <2>3, <2>0 DEF ToggleReaction, Start, Goto, Elsewhere, Idle
    <3> QED BY <3>1, FilingElsewhere
  <2>4. ASSUME NEW r \in Requests, NEW t \in Tickets, DeleteTicketTx(r, t) PROVE Filing' /\ StoresAgree'
    BY <2>4, FilingCascade DEF DeleteTicketTx
  <2>5. ASSUME NEW r \in Requests, DeleteTicketTool(r) PROVE Filing' /\ StoresAgree'
    <3>1. Elsewhere(r) /\ req[r].t \in Tickets /\ UNCHANGED <<objects, used, hollow>>
      BY <2>5, <2>0, Fields DEF DeleteTicketTool, Finish, Elsewhere, Idle
    <3>2. CASE Live(req[r].t)
      BY <3>1, <3>2, <2>5, FilingCascade DEF DeleteTicketTool
    <3>3. CASE ~Live(req[r].t)
      BY <3>1, <3>3, <2>5, FilingElsewhere DEF DeleteTicketTool
    <3> QED BY <3>2, <3>3
  <2>6. ASSUME NEW r \in Requests, NEW t \in Tickets, NEW f \in Files, UploadFile(r, t, f)
        PROVE  Filing' /\ StoresAgree'
    <3>0. /\ req[r].pc = "idle" /\ f \notin used /\ used' = used \cup {f} /\ att' = att /\ UNCHANGED <<stray, hollow>>
          /\ att[f] = None /\ f \notin objects /\ \A q \in Requests : ~Handles(q, f)
      BY <2>6 DEF UploadFile, Upload, Start, Idle, Filing
    <3>1. CASE UNCHANGED <<objects, req>>
      <4>1. Filing'
        BY <3>0, <3>1 DEF Filing, Handles
      <4>2. StoresAgree'
        BY <3>0, <3>1 DEF StoresAgree
      <4> QED BY <4>1, <4>2
    <3>2. CASE Upload(r, t, f)
      <4>1. /\ objects' = objects \cup {f}
            /\ req'[r].pc = "record" /\ req'[r].f = f /\ \A q \in Requests : q # r => req'[q] = req[q]
        BY <3>2, <2>0 DEF Upload, Goto
      <4>2. Filing'
        BY <3>0, <4>1 DEF Filing, Handles
      <4>3. StoresAgree'
        BY <3>0, <4>1 DEF StoresAgree
      <4> QED BY <4>2, <4>3
    <3> QED BY <3>1, <3>2, <2>6 DEF UploadFile
  <2>7. ASSUME NEW r \in Requests, NEW f \in Files, DeleteAttachment(r, f) PROVE Filing' /\ StoresAgree'
    <3>1. /\ req[r].pc = "idle" /\ att[f] # None /\ UNCHANGED <<objects, att, used, stray, hollow>>
          /\ req'[r].pc = "object" /\ req'[r].f = f /\ \A q \in Requests : q # r => req'[q] = req[q]
      BY <2>7, <2>0 DEF DeleteAttachment, Start, Idle, Goto, itemVars
    <3>2. Filing'
      BY <3>1 DEF Filing, Handles
    <3>3. StoresAgree'
      BY <3>1 DEF StoresAgree
    <3> QED BY <3>2, <3>3
  <2>8. ASSUME NEW r \in Requests, RecordAttachment(r) PROVE Filing' /\ StoresAgree'
    <3> DEFINE f == req[r].f
    <3>1. /\ req[r].pc = "record" /\ f \in Files /\ req[r].t \in Tickets /\ UNCHANGED <<objects, used, hollow>>
          /\ f \in objects /\ att[f] = None /\ \A q \in Requests : Handles(q, f) => q = r
          /\ req'[r].pc = "idle" /\ \A q \in Requests : q # r => req'[q] = req[q]
      BY <2>8, <2>0, Fields DEF RecordAttachment, Finish, Idle, Filing
    <3>2. \/ att' = [att EXCEPT ![f] = req[r].t] /\ stray' = stray
          \/ att' = att /\ stray' = stray \cup {f}
      BY <2>8 DEF RecordAttachment
    <3> HIDE DEF f
    <3>3. Filing'
      BY <3>1, <3>2, <2>0 DEF Filing, Handles
    <3>4. StoresAgree'
      BY <3>1, <3>2, <2>0, TreeAssumption DEF StoresAgree, f
    <3> QED BY <3>3, <3>4
  <2>9. ASSUME NEW r \in Requests, RemoveObject(r) PROVE Filing' /\ StoresAgree'
    <3> DEFINE f == req[r].f
    <3>1. /\ req[r].pc = "object" /\ f \in Files /\ UNCHANGED <<used, stray, hollow, att>> /\ objects' = objects \ {f}
          /\ req'[r].pc = "row" /\ req'[r].f = f /\ \A q \in Requests : q # r => req'[q] = req[q]
      BY <2>9, <2>0, Fields DEF RemoveObject, DeleteObject, Goto
    <3>2. \A q \in Requests : ~(req[q].pc = "record" /\ req[q].f = f)
      BY <3>1 DEF Filing, Handles
    <3>3. f \in used
      BY <3>1 DEF Filing, Handles
    <3> HIDE DEF f
    <3>4. Filing'
      BY <3>1, <3>2, <3>3 DEF Filing, Handles
    <3>5. StoresAgree'
      BY <3>1 DEF StoresAgree
    <3> QED BY <3>4, <3>5
  <2>10. ASSUME NEW r \in Requests, RemoveRow(r) PROVE Filing' /\ StoresAgree'
    <3> DEFINE f == req[r].f
    <3>1. /\ req[r].pc = "row" /\ f \in Files /\ UNCHANGED <<used, stray, hollow, objects>> /\ att' = [att EXCEPT ![f] = None]
          /\ f \notin objects
          /\ req'[r].pc = "idle" /\ \A q \in Requests : q # r => req'[q] = req[q]
      BY <2>10, <2>0, Fields DEF RemoveRow, Finish, Idle, Filing
    <3>2. \A q \in Requests : ~(req[q].pc = "record" /\ req[q].f = f)
      BY <3>1 DEF Filing, Handles
    <3>4. Filing'
      <4> HIDE DEF f
      <4> QED BY <3>1, <3>2, <2>0 DEF Filing, Handles
    <3>5. StoresAgree'
      BY <3>1, <2>0 DEF StoresAgree
    <3> QED BY <3>4, <3>5
  <2>11. ASSUME NEW r \in Requests, AbortItem(r) PROVE Filing' /\ StoresAgree'
    <3>1. /\ UNCHANGED <<used, objects, att>> /\ stray \subseteq stray' /\ hollow \subseteq hollow'
          /\ req[r].pc = "record" => req[r].f \in stray'
          /\ req[r].pc = "row" => req[r].f \in hollow'
          /\ req'[r].pc = "idle" /\ \A q \in Requests : q # r => req'[q] = req[q]
      BY <2>11, <2>0 DEF AbortItem, Finish, Idle
    <3>4. Filing'
      BY <3>1 DEF Filing, Handles
    <3>5. StoresAgree'
      BY <3>1 DEF StoresAgree
    <3> QED BY <3>4, <3>5
  <2>12. ASSUME NEW r \in Requests, AddReaction(r) PROVE Filing' /\ StoresAgree'
    <3>1. Elsewhere(r) /\ UNCHANGED <<objects, att, used, stray, hollow>>
      BY <2>12, <2>0 DEF AddReaction, Finish, Elsewhere, Idle
    <3> QED BY <3>1, FilingElsewhere
  <2> QED BY <2>1, <2>2, <2>3, <2>4, <2>5, <2>6, <2>7, <2>8, <2>9, <2>10, <2>11, <2>12 DEF Next, Erase
<1> QED BY <1>1, <1>2, TypingAlways, PTL DEF Spec

-----------------------------------------------------------------------------
(* Archiving.                                                              *)

(* The rows a walk or an edit writes keep all but their dates.             *)
LEMMA DatesOnly ==
    ASSUME Typing, NEW r \in Requests, WriteTicket(r) \/ ExpandParent(r)
    PROVE  /\ \A u \in Tickets : row'[u].state = row[u].state /\ row'[u].parent = row[u].parent
                                  /\ row'[u].archived = row[u].archived
           /\ UNCHANGED loose
<1>0. req[r] \in Reqs /\ row \in [Tickets -> Rows]
  BY DEF Typing, ReqTyping, RowTyping
<1>1. CASE WriteTicket(r)
  <2>1. req[r].t \in Tickets /\ req[r].from \in Dates /\ req[r].to \in Dates /\ SetDates(req[r].t, req[r])
    BY <1>1, <1>0, Fields DEF WriteTicket
  <2> QED BY <2>1, <1>0, <1>1, SetDatesLaws DEF WriteTicket
<1>2. CASE ExpandParent(r)
  <2>1. /\ req[r].at \in Tickets /\ req[r].read \in Rows /\ req[r].from \in Dates /\ req[r].to \in Dates
        /\ SetDates(req[r].at, Widened(req[r].read, req[r]))
    BY <1>2, <1>0, Fields DEF ExpandParent
  <2>2. Widened(req[r].read, req[r]).from \in Dates /\ Widened(req[r].read, req[r]).to \in Dates
    BY <2>1, WidenedLaws
  <2> QED BY <2>1, <2>2, <1>0, <1>2, SetDatesLaws DEF ExpandParent
<1> QED BY <1>1, <1>2

(* Archiving a ticket takes its whole subtree out of view: what is in view *)
(* under an archived parent was created or restored there afterwards       *)
(* (ArchiveTicket and RestoreTicket of queries.go).                        *)
THEOREM OutOfView == Spec => []ArchivedSubtrees
<1>1. InitItems => ArchivedSubtrees
  <2>1. ASSUME InitItems, NEW t \in Tickets, Live(t), row[t].parent # None PROVE ~row[row[t].parent].archived
    BY <2>1, TreeAssumption DEF InitItems, Init, Live
  <2> QED BY <2>1 DEF ArchivedSubtrees
<1>2. Typing /\ ArchivedSubtrees /\ [Next]_vars => ArchivedSubtrees'
  <2> SUFFICES ASSUME Typing, ArchivedSubtrees, [Next]_vars PROVE ArchivedSubtrees'
    OBVIOUS
  <2> USE DEF Dates
  <2>0. /\ RowTyping
        /\ \A u \in Tickets : row[u].parent \in Maybe(Tickets) /\ row[u].archived \in BOOLEAN /\ loose[u] \in BOOLEAN
        /\ \A u \in Tickets : Live(u) /\ row[u].parent # None => row[u].parent \in Tickets /\ Live(row[u].parent)
    BY DEF Typing, RowTyping, Rows, Maybe
  <2>1. CASE UNCHANGED vars
    BY <2>1 DEF vars, treeVars, ArchivedSubtrees, Live
  <2>2. ASSUME NEW r \in Requests, RowMove(r) PROVE ArchivedSubtrees'
    <3>1. CASE \E t \in Tickets, p \in Maybe(Tickets), from \in Dates, to \in Dates :
                 p # t /\ CreateTicket(r, t, p, from, to)
      <4> PICK t \in Tickets, p \in Maybe(Tickets), from \in Dates, to \in Dates :
                 p # t /\ CreateTicket(r, t, p, from, to)
        BY <3>1
      <4>1. /\ \A u \in Tickets : u # t => row'[u] = row[u]
            /\ row'[t].state = "live" /\ row'[t].parent = p
        BY <2>0, CreateLaws
      <4>2. /\ ~Live(t) /\ loose'[t] = (p # None /\ row[p].archived)
            /\ \A u \in Tickets : u # t => loose'[u] = loose[u]
        BY DEF CreateTicket, Live, Typing, RowTyping
      <4>3. ASSUME NEW u \in Tickets, Live(u)', row'[u].parent # None, row'[row'[u].parent].archived
            PROVE  (row[u].archived \/ loose[u])'
        <5>1. CASE u = t
          BY <5>1, <4>1, <4>2, <4>3 DEF Maybe
        <5>2. CASE u # t
          <6>1. row'[u] = row[u] /\ loose'[u] = loose[u] /\ Live(u) /\ row[u].parent \in Tickets /\ row[u].parent # t
            BY <5>2, <4>1, <4>2, <4>3, <2>0 DEF Live
          <6> QED BY <6>1, <4>1, <4>3 DEF ArchivedSubtrees
        <5> QED BY <5>1, <5>2
      <4> QED BY <4>3 DEF ArchivedSubtrees
    <3>2. CASE WriteTicket(r) \/ ExpandParent(r)
      <4>1. /\ \A u \in Tickets : row'[u].state = row[u].state /\ row'[u].parent = row[u].parent
                                   /\ row'[u].archived = row[u].archived
            /\ UNCHANGED loose
        BY <3>2, DatesOnly
      <4> QED BY <4>1, <2>0 DEF ArchivedSubtrees, Live
    <3>3. CASE \E t \in Tickets : Archive(t)
      <4> PICK t \in Tickets : Archive(t)
        BY <3>3
      <4>1. /\ \A u \in Tickets :
                  /\ row'[u].state = row[u].state /\ row'[u].parent = row[u].parent
                  /\ row'[u].archived = (u \in Subtree(t) \/ row[u].archived)
            /\ \A u \in Tickets : loose'[u] = (loose[u] /\ u \notin Subtree(t))
        BY <2>0, ArchiveLaws
      <4>2. \A u \in Tickets : Live(u) /\ row[u].parent \in Subtree(t) => u \in Subtree(t)
        BY SubtreeLaws
      <4>3. ASSUME NEW u \in Tickets, Live(u)', row'[u].parent # None, row'[row'[u].parent].archived
            PROVE  (row[u].archived \/ loose[u])'
        <5>1. Live(u) /\ row[u].parent # None /\ row[u].parent \in Tickets
          BY <4>1, <4>3, <2>0 DEF Live
        <5>2. row[u].parent \in Subtree(t) \/ row[row[u].parent].archived
          BY <4>1, <4>3, <5>1
        <5>3. u \in Subtree(t) \/ row[u].archived \/ loose[u]
          BY <5>1, <5>2, <4>2 DEF ArchivedSubtrees
        <5> QED BY <5>3, <4>1
      <4> QED BY <4>3 DEF ArchivedSubtrees
    <3>4. CASE \E t \in Tickets : RestoreTicket(r, t)
      <4> PICK t \in Tickets : RestoreTicket(r, t)
        BY <3>4
      <4>1. /\ \A u \in Tickets :
                  /\ row'[u].state = row[u].state /\ row'[u].parent = row[u].parent
                  /\ row'[u].archived = IF u \in Subtree(t) THEN FALSE ELSE row[u].archived
        BY <2>0, MarkLaws DEF RestoreTicket, RowTyping
      <4>2. \A u \in Tickets :
              loose'[u] = IF u = t THEN row[t].parent # None /\ row[row[t].parent].archived
                          ELSE loose[u] /\ u \notin Subtree(t)
        BY DEF RestoreTicket
      <4>3. \A u \in Subtree(t) : u = t \/ (Live(u) /\ row[u].parent \in Subtree(t))
        BY SubtreeLaws
      <4>4. ASSUME NEW u \in Tickets, Live(u)', row'[u].parent # None, row'[row'[u].parent].archived
            PROVE  (row[u].archived \/ loose[u])'
        <5>1. /\ Live(u) /\ row[u].parent # None /\ row[u].parent \notin Subtree(t)
              /\ row[row[u].parent].archived
          BY <4>1, <4>4, <2>0 DEF Live
        <5>2. CASE u = t
          BY <5>1, <5>2, <4>2
        <5>3. CASE u # t
          <6>1. u \notin Subtree(t) /\ (row[u].archived \/ loose[u])
            BY <5>1, <5>3, <4>3 DEF ArchivedSubtrees
          <6> QED BY <6>1, <5>3, <4>1, <4>2
        <5> QED BY <5>2, <5>3
      <4> QED BY <4>4 DEF ArchivedSubtrees
    <3>5. CASE \E t \in Tickets : DeleteTicket(t) /\ UNCHANGED <<short, loose>>
      <4> PICK t \in Tickets : DeleteTicket(t) /\ UNCHANGED <<short, loose>>
        BY <3>5
      <4>1. \A u \in Tickets :
              /\ row'[u].parent = row[u].parent /\ row'[u].archived = row[u].archived
              /\ row'[u].state = IF u \in Subtree(t) THEN "gone" ELSE row[u].state
        BY <2>0, DeleteLaws
      <4>2. \A u \in Tickets : Live(u)' => Live(u)
        BY <4>1 DEF Live
      <4> QED BY <4>1, <4>2, <2>0 DEF ArchivedSubtrees
    <3>6. CASE UNCHANGED <<row, loose>>
      BY <3>6 DEF ArchivedSubtrees, Live
    <3> QED BY <2>2, <3>1, <3>2, <3>3, <3>4, <3>5, <3>6 DEF RowMove
  <2> QED BY <2>1, <2>2, RowMoves
<1> QED BY <1>1, <1>2, TypingAlways, PTL DEF Spec

-----------------------------------------------------------------------------
(* Dates.  The two ends of a child's range may be carried to the parent by *)
(* two different walks, and what a walk is about to write back may be      *)
(* older than the parent's parent: the invariant follows each end on its   *)
(* own, for the rows and for the copies walks have read.                   *)

Climbs(r, p) == req[r].pc \in {"visit", "expand"} /\ req[r].at = p

(* Row p starts by day d, or need not, or a walk that starts by d is there.*)
FromReached(p, d) ==
    ~Before(d, row[p].from) \/ short[p] \/ \E r \in Requests : Climbs(r, p) /\ ~Before(d, req[r].from)
ToReached(p, d) ==
    ~After(d, row[p].to) \/ short[p] \/ \E r \in Requests : Climbs(r, p) /\ ~After(d, req[r].to)

Climbing ==
    /\ \A t \in Tickets : Live(t) /\ row[t].parent # None =>
          FromReached(row[t].parent, row[t].from) /\ ToReached(row[t].parent, row[t].to)
    /\ \A r \in Requests : req[r].pc = "expand" =>
          /\ row[req[r].at].state # "unborn"
          /\ Live(req[r].at) => req[r].read.parent = row[req[r].at].parent
          /\ Live(req[r].at) /\ req[r].read.parent # None =>
                FromReached(req[r].read.parent, req[r].read.from) /\ ToReached(req[r].read.parent, req[r].read.to)

(* The step leaves row p as wide as it was or marked, and a walk that      *)
(* leaves p has seen to it that p encloses what it carried.                *)
Keeps(p) ==
    /\ short[p] => short'[p]
    /\ short'[p] \/ Covers(row'[p], row[p])
    /\ \A r \in Requests : Climbs(r, p) =>
          \/ short'[p] \/ Covers(row'[p], req[r])
          \/ Climbs(r, p)' /\ req'[r].from = req[r].from /\ req'[r].to = req[r].to

LEMMA ReachedStays ==
    ASSUME Typing, Typing', NEW p \in Tickets, Keeps(p), NEW d \in Dates
    PROVE  /\ FromReached(p, d) => FromReached(p, d)'
           /\ ToReached(p, d) => ToReached(p, d)'
<1>1. /\ row[p].from \in Dates /\ row[p].to \in Dates /\ row'[p].from \in Dates /\ row'[p].to \in Dates
      /\ \A r \in Requests : Climbs(r, p) => req[r].from \in Dates /\ req[r].to \in Dates
  BY Fields DEF Typing, RowTyping, Rows, ReqTyping, Climbs
<1>2. ASSUME FromReached(p, d) PROVE FromReached(p, d)'
  <2>1. CASE short'[p]
    BY <2>1 DEF FromReached
  <2>2. CASE ~Before(d, row[p].from) /\ ~short'[p]
    <3>1. ~Before(row[p].from, row'[p].from)
      BY <2>2 DEF Keeps, Covers
    <3> QED BY <3>1, <2>2, <1>1, DateOrder DEF FromReached, Before
  <2>3. ASSUME NEW r \in Requests, Climbs(r, p), ~Before(d, req[r].from), ~short'[p] PROVE FromReached(p, d)'
    <3>1. CASE Covers(row'[p], req[r])
      <4>1. ~Before(d, row'[p].from)
        BY <3>1, <2>3, <1>1, DateOrder DEF Covers
      <4> QED BY <4>1 DEF FromReached, Before
    <3>2. CASE Climbs(r, p)' /\ req'[r].from = req[r].from
      BY <3>2, <2>3 DEF FromReached, Before
    <3> QED BY <3>1, <3>2, <2>3 DEF Keeps
  <2> QED BY <1>2, <2>1, <2>2, <2>3 DEF FromReached, Keeps
<1>3. ASSUME ToReached(p, d) PROVE ToReached(p, d)'
  <2>1. CASE short'[p]
    BY <2>1 DEF ToReached
  <2>2. CASE ~After(d, row[p].to) /\ ~short'[p]
    <3>1. ~After(row[p].to, row'[p].to)
      BY <2>2 DEF Keeps, Covers
    <3> QED BY <3>1, <2>2, <1>1, DateOrder DEF ToReached, After
  <2>3. ASSUME NEW r \in Requests, Climbs(r, p), ~After(d, req[r].to), ~short'[p] PROVE ToReached(p, d)'
    <3>1. CASE Covers(row'[p], req[r])
      <4>1. ~After(d, row'[p].to)
        BY <3>1, <2>3, <1>1, DateOrder DEF Covers
      <4> QED BY <4>1 DEF ToReached, After
    <3>2. CASE Climbs(r, p)' /\ req'[r].to = req[r].to
      BY <3>2, <2>3 DEF ToReached, After
    <3> QED BY <3>1, <3>2, <2>3 DEF Keeps
  <2> QED BY <1>3, <2>1, <2>2, <2>3 DEF ToReached, Keeps
<1> QED BY <1>2, <1>3

(* A row that keeps its parent and its dates stays reached by the parent,  *)
(* and so does a copy of it that a walk has read.                          *)
SameRow(t) == row'[t].parent = row[t].parent /\ row'[t].from = row[t].from /\ row'[t].to = row[t].to
ClimbingAt(t) ==
    Live(t) /\ row[t].parent # None =>
        FromReached(row[t].parent, row[t].from) /\ ToReached(row[t].parent, row[t].to)
CopyAt(r) ==
    req[r].pc = "expand" =>
        /\ row[req[r].at].state # "unborn"
        /\ Live(req[r].at) => req[r].read.parent = row[req[r].at].parent
        /\ Live(req[r].at) /\ req[r].read.parent # None =>
              FromReached(req[r].read.parent, req[r].read.from) /\ ToReached(req[r].read.parent, req[r].read.to)

LEMMA ClimbingStays ==
    ASSUME Typing, Typing', Climbing,
           \A u \in Tickets : /\ row[u].state # "unborn" => row'[u].state # "unborn" /\ row'[u].parent = row[u].parent
                              /\ Live(u) /\ Live(u)' => Keeps(u)
                              /\ row[u].state # "unborn" /\ Live(u)' => Live(u)
    PROVE  /\ \A t \in Tickets : Live(t) /\ SameRow(t) => ClimbingAt(t)'
           /\ \A r \in Requests : req'[r] = req[r] => CopyAt(r)'
<1>1. /\ \A u \in Tickets : row[u] \in Rows /\ row[u].parent \in Maybe(Tickets) /\ row[u].from \in Dates /\ row[u].to \in Dates
      /\ \A u \in Tickets : Live(u)' /\ row'[u].parent # None => Live(row[u].parent)'
      /\ \A u \in Tickets : Live(u) /\ row[u].parent # None => row[u].parent \in Tickets /\ Live(row[u].parent)
  BY DEF Typing, RowTyping, Rows, Maybe
<1>2. ASSUME NEW t \in Tickets, Live(t), SameRow(t) PROVE ClimbingAt(t)'
  <2> SUFFICES ASSUME Live(t)', row'[t].parent # None
               PROVE  FromReached(row[t].parent, row[t].from)' /\ ToReached(row[t].parent, row[t].to)'
    BY DEF ClimbingAt
  <2> DEFINE p == row[t].parent
  <2>1. /\ p \in Tickets /\ Live(p) /\ Live(p)' /\ row'[t].parent = p
        /\ row'[t].from = row[t].from /\ row'[t].to = row[t].to
    BY <1>1, <1>2 DEF SameRow, Live
  <2>2. FromReached(p, row[t].from) /\ ToReached(p, row[t].to) /\ Keeps(p)
    BY <2>1, <1>2 DEF Climbing
  <2>3. (\A d \in Dates : FromReached(p, d) => FromReached(p, d)') /\ (\A d \in Dates : ToReached(p, d) => ToReached(p, d)')
    BY <2>1, <2>2, ReachedStays
  <2> QED BY <2>1, <2>2, <2>3, <1>1 DEF FromReached, ToReached
<1>3. ASSUME NEW r \in Requests, req'[r] = req[r] PROVE CopyAt(r)'
  <2> SUFFICES ASSUME req[r].pc = "expand" PROVE CopyAt(r)'
    BY <1>3 DEF CopyAt
  <2>c. PICK u \in Tickets, copy \in Rows : u = req[r].at /\ copy = req[r].read
    BY Fields DEF Typing, ReqTyping
  <2>p. PICK p : p = copy.parent
    OBVIOUS
  <2>1. u = req[r].at /\ copy = req[r].read /\ p = copy.parent
    BY <2>c, <2>p
  <2>2. row[u].state # "unborn" /\ row'[u].state # "unborn" /\ row'[u].parent = row[u].parent
    BY <2>1 DEF Climbing
  <2>3. ASSUME Live(u)' PROVE Live(u) /\ p = row[u].parent /\ p = row'[u].parent
    <3>1. Live(u)
      BY <2>2, <2>3
    <3> QED BY <3>1, <2>1, <2>2 DEF Climbing
  <2>4. ASSUME Live(u)', p # None PROVE FromReached(p, copy.from)' /\ ToReached(p, copy.to)'
    <3>1. /\ p \in Tickets /\ Live(p) /\ Live(p)' /\ copy.from \in Dates /\ copy.to \in Dates
      <4>1. Live(u) /\ p = row[u].parent /\ p = row'[u].parent
        BY <2>3, <2>4
      <4>2. p \in Tickets /\ Live(p)
        BY <4>1, <2>4, <1>1
      <4>3. Live(p)'
        BY <4>1, <2>4, <1>1 DEF Live
      <4>4. copy.from \in Dates /\ copy.to \in Dates
        BY DEF Rows
      <4> QED BY <4>2, <4>3, <4>4
    <3>2. FromReached(p, copy.from) /\ ToReached(p, copy.to) /\ Keeps(p)
      BY <2>1, <2>3, <2>4, <3>1 DEF Climbing
    <3> QED BY <3>1, <3>2, ReachedStays
  <2>5. req'[r].at = u /\ req'[r].read = copy /\ copy.parent = p
    BY <1>3, <2>1
  <2>6. Live(u)' => p = row'[u].parent
    BY <2>3
  <2> QED BY <2>2, <2>4, <2>5, <2>6 DEF CopyAt, Live, FromReached, ToReached, Before, After, Climbs
<1> QED BY <1>2, <1>3

(* What is left to show of a step: the tickets it made or redated, and the *)
(* request that took it.                                                   *)
LEMMA ClimbingNext ==
    ASSUME Typing, Typing', Climbing,
           \A u \in Tickets : /\ row[u].state # "unborn" => row'[u].state # "unborn" /\ row'[u].parent = row[u].parent
                              /\ Live(u) /\ Live(u)' => Keeps(u)
                              /\ row[u].state # "unborn" /\ Live(u)' => Live(u),
           \A t \in Tickets : Live(t)' => (Live(t) /\ SameRow(t)) \/ ClimbingAt(t)',
           \A q \in Requests : req'[q] = req[q] \/ CopyAt(q)'
    PROVE  Climbing'
<1>1. \A t \in Tickets : ClimbingAt(t)'
  BY ClimbingStays DEF ClimbingAt, Live
<1>2. \A q \in Requests : CopyAt(q)'
  BY ClimbingStays
<1> QED BY <1>1, <1>2 DEF Climbing, ClimbingAt, CopyAt

(* A request at neither stage of a walk, before and after a step.          *)
OffPath(r) ==
    /\ req[r].pc \notin {"visit", "expand"} /\ req'[r].pc \notin {"visit", "expand"}
    /\ \A q \in Requests : q # r => req'[q] = req[q]

QuietRows ==
    /\ UNCHANGED short
    /\ \A u \in Tickets :
          /\ SameRow(u) /\ (Live(u)' => Live(u))
          /\ row[u].state # "unborn" => row'[u].state # "unborn"

LEMMA ClimbingQuiet ==
    ASSUME Typing, Typing', Climbing, QuietRows, NEW r \in Requests, OffPath(r)
    PROVE  Climbing'
<1>1. ASSUME NEW u \in Tickets PROVE Keeps(u)
  <2>1. row[u].from \in Dates /\ row[u].to \in Dates
    BY DEF Typing, RowTyping, Rows
  <2>2. Covers(row'[u], row[u])
    BY <2>1, DateOrder DEF QuietRows, SameRow, Covers
  <2> QED BY <2>2 DEF QuietRows, Keeps, OffPath, Climbs
<1>2. \A q \in Requests : req'[q] = req[q] \/ CopyAt(q)'
  BY DEF OffPath, CopyAt
<1>3. \A u \in Tickets : /\ row[u].state # "unborn" => row'[u].state # "unborn" /\ row'[u].parent = row[u].parent
                         /\ row[u].state # "unborn" /\ Live(u)' => Live(u)
  BY DEF QuietRows, SameRow
<1>4. \A t \in Tickets : Live(t)' => Live(t) /\ SameRow(t)
  BY DEF QuietRows
<1> QED BY <1>1, <1>2, <1>3, <1>4, ClimbingNext

LEMMA ClimbingCreate ==
    ASSUME Typing, Typing', Climbing, NEW r \in Requests, NEW t \in Tickets, NEW p \in Maybe(Tickets),
           NEW from \in Dates, NEW to \in Dates, p # t, CreateTicket(r, t, p, from, to)
    PROVE  Climbing'
<1>0. req \in [Requests -> Reqs] /\ RowTyping /\ row \in [Tickets -> Rows]
  BY DEF Typing, ReqTyping, RowTyping
<1>1. /\ row[t].state = "unborn" /\ UNCHANGED short /\ (p # None => Live(p)) /\ req[r].pc = "idle"
      /\ \A u \in Tickets : u # t => row'[u] = row[u]
      /\ row'[t].state = "live" /\ row'[t].parent = p /\ row'[t].from = from /\ row'[t].to = to
  BY <1>0, CreateLaws DEF CreateTicket, Start, Idle
<1>2. /\ \A q \in Requests : q # r => req'[q] = req[q]
      /\ IF p = None \/ (from = None /\ to = None) THEN req'[r].pc = "idle"
         ELSE req'[r].pc = "visit" /\ req'[r].at = p /\ req'[r].from = from /\ req'[r].to = to
  BY <1>0 DEF CreateTicket, Walk, Idle
<1>3. ASSUME NEW u \in Tickets, Live(u) PROVE Keeps(u)
  <2>1. row'[u] = row[u] /\ row[u].from \in Dates /\ row[u].to \in Dates
    BY <1>0, <1>1, <1>3 DEF Live, Rows
  <2>2. Covers(row'[u], row[u])
    BY <2>1, DateOrder DEF Covers
  <2> QED BY <2>2, <1>1, <1>2 DEF Keeps, Climbs
<1>4. ClimbingAt(t)'
  <2>1. CASE p = None \/ (from = None /\ to = None)
    BY <2>1, <1>1 DEF ClimbingAt, FromReached, ToReached, Before, After
  <2>2. CASE ~(p = None \/ (from = None /\ to = None))
    <3>1. Climbs(r, p)' /\ req'[r].from = from /\ req'[r].to = to
      BY <2>2, <1>2 DEF Climbs
    <3> QED BY <3>1, <1>1, DateOrder DEF ClimbingAt, FromReached, ToReached, Before, After
  <2> QED BY <2>1, <2>2
<1>5. \A q \in Requests : req'[q] = req[q] \/ CopyAt(q)'
  BY <1>2 DEF CopyAt
<1>6. \A u \in Tickets : /\ row[u].state # "unborn" => row'[u].state # "unborn" /\ row'[u].parent = row[u].parent
                         /\ row[u].state # "unborn" /\ Live(u)' => Live(u)
                         /\ u # t /\ Live(u)' => Live(u) /\ SameRow(u)
  BY <1>1 DEF SameRow, Live
<1> QED BY <1>3, <1>4, <1>5, <1>6, ClimbingNext

LEMMA ClimbingWrite ==
    ASSUME Typing, Typing', Climbing, NEW r \in Requests, WriteTicket(r)
    PROVE  Climbing'
<1>0. /\ req \in [Requests -> Reqs] /\ row \in [Tickets -> Rows] /\ short \in [Tickets -> BOOLEAN]
      /\ \A u \in Tickets : row[u].from \in Dates /\ row[u].to \in Dates
  BY DEF Typing, ReqTyping, RowTyping, Rows
<1>1. PICK t \in Tickets, from \in Dates, to \in Dates : t = req[r].t /\ from = req[r].from /\ to = req[r].to
  BY <1>0, Fields DEF WriteTicket
<1>2. /\ \A u \in Tickets : row'[u].state = row[u].state /\ row'[u].parent = row[u].parent
      /\ \A u \in Tickets : u # t \/ ~Live(t) => row'[u] = row[u]
      /\ Live(t) => row'[t].from = from /\ row'[t].to = to
  BY <1>0, <1>1, SetDatesLaws DEF WriteTicket
<1>3. /\ \A u \in Tickets : short[u] => short'[u]
      /\ Live(t) => short'[t] \/ Covers(row'[t], row[t])
  BY <1>0, <1>1, <1>2 DEF WriteTicket, Narrows, Covers
<1>4. /\ req[r].pc = "write" /\ \A q \in Requests : q # r => req'[q] = req[q]
      /\ req'[r].pc # "expand"
      /\ Live(t) => IF row[t].parent = None \/ (from = None /\ to = None) THEN req'[r].pc = "idle"
                    ELSE /\ req'[r].pc = "visit" /\ req'[r].at = row[t].parent
                         /\ req'[r].from = from /\ req'[r].to = to
  BY <1>0, <1>1 DEF WriteTicket, Walk, Finish, Idle
<1>5. ASSUME NEW u \in Tickets, Live(u) PROVE Keeps(u)
  <2>1. short'[u] \/ Covers(row'[u], row[u])
    <3>1. Covers(row[u], row[u])
      BY <1>0, DateOrder DEF Covers
    <3> QED BY <3>1, <1>2, <1>3, <1>5
  <2> QED BY <2>1, <1>3, <1>4 DEF Keeps, Climbs
<1>6. Live(t) => ClimbingAt(t)'
  <2>1. CASE Live(t) /\ (row[t].parent = None \/ (from = None /\ to = None))
    BY <2>1, <1>2 DEF ClimbingAt, FromReached, ToReached, Before, After
  <2>2. CASE Live(t) /\ ~(row[t].parent = None \/ (from = None /\ to = None))
    <3>1. Climbs(r, row[t].parent)' /\ req'[r].from = from /\ req'[r].to = to
      BY <2>2, <1>2, <1>4 DEF Climbs
    <3> QED BY <3>1, <2>2, <1>2, DateOrder DEF ClimbingAt, FromReached, ToReached, Before, After
  <2> QED BY <2>1, <2>2
<1>7. \A q \in Requests : req'[q] = req[q] \/ CopyAt(q)'
  BY <1>4 DEF CopyAt
<1>8. \A u \in Tickets : /\ row[u].state # "unborn" => row'[u].state # "unborn" /\ row'[u].parent = row[u].parent
                         /\ row[u].state # "unborn" /\ Live(u)' => Live(u)
                         /\ Live(u)' => Live(u) /\ (u # t => SameRow(u))
  BY <1>2 DEF SameRow, Live
<1> QED BY <1>5, <1>6, <1>7, <1>8, ClimbingNext

LEMMA ClimbingVisit ==
    ASSUME Typing, Typing', Climbing, NEW r \in Requests, VisitParent(r)
    PROVE  Climbing'
<1>0. /\ req \in [Requests -> Reqs] /\ row \in [Tickets -> Rows]
      /\ \A u \in Tickets : row[u].from \in Dates /\ row[u].to \in Dates
  BY DEF Typing, ReqTyping, RowTyping, Rows
<1>1. PICK p \in Tickets, from \in Dates, to \in Dates : p = req[r].at /\ from = req[r].from /\ to = req[r].to
  BY <1>0, Fields DEF VisitParent
<1>2. /\ UNCHANGED <<row, short>> /\ req[r].pc = "visit"
      /\ \A q \in Requests : q # r => req'[q] = req[q]
      /\ IF Live(p) /\ ~Covers(row[p], req[r])
         THEN req'[r].pc = "expand" /\ req'[r].at = p /\ req'[r].from = from /\ req'[r].to = to /\ req'[r].read = row[p]
         ELSE req'[r].pc = "idle"
  BY <1>0, <1>1 DEF VisitParent, Finish, Idle
<1>3. ASSUME NEW u \in Tickets, Live(u) PROVE Keeps(u)
  <2>1. Covers(row'[u], row[u]) /\ short'[u] = short[u] /\ row'[u] = row[u]
    BY <1>0, <1>2, DateOrder DEF Covers
  <2>2. Climbs(r, u) => \/ Covers(row'[u], req[r])
                        \/ Climbs(r, u)' /\ req'[r].from = req[r].from /\ req'[r].to = req[r].to
    BY <1>1, <1>2, <1>3, <2>1 DEF Climbs
  <2>3. \A q \in Requests : q # r /\ Climbs(q, u) =>
           Climbs(q, u)' /\ req'[q].from = req[q].from /\ req'[q].to = req[q].to
    BY <1>2 DEF Climbs
  <2> QED BY <2>1, <2>2, <2>3 DEF Keeps
<1>4. CopyAt(r)'
  <2> SUFFICES ASSUME req'[r].pc = "expand" PROVE CopyAt(r)'
    BY DEF CopyAt
  <2>1. Live(p) /\ req'[r].at = p /\ req'[r].read = row[p]
    BY <1>2
  <2>2. /\ row[p].state # "unborn" /\ row'[p].state # "unborn"
        /\ row[p].parent # None => row[p].parent \in Tickets /\ Live(row[p].parent)
    BY <2>1, <1>2 DEF Live, Typing, RowTyping, Rows, Maybe
  <2>3. ASSUME row[p].parent # None
        PROVE  FromReached(row[p].parent, row[p].from) /\ ToReached(row[p].parent, row[p].to)
    BY <2>1, <2>3 DEF Climbing
  <2>4. ASSUME row[p].parent # None
        PROVE  FromReached(row[p].parent, row[p].from)' /\ ToReached(row[p].parent, row[p].to)'
    <3>1. PICK a \in Tickets, f \in Dates, e \in Dates : a = row[p].parent /\ f = row[p].from /\ e = row[p].to
      BY <2>2, <2>4, <1>0
    <3>2. Keeps(a) /\ FromReached(a, f) /\ ToReached(a, e)
      BY <3>1, <2>2, <2>3, <2>4, <1>3
    <3>3. FromReached(a, f)' /\ ToReached(a, e)'
      BY <3>2, ReachedStays
    <3>4. row'[p] = row[p]
      BY <1>2
    <3> QED BY <3>1, <3>3, <3>4 DEF FromReached, ToReached, Before, After, Climbs
  <2>5. row'[p] = row[p] /\ req'[r].read.parent = row[p].parent
    BY <2>1, <1>2
  <2> QED BY <2>1, <2>2, <2>4, <2>5 DEF CopyAt, FromReached, ToReached, Before, After, Climbs
<1>5. \A q \in Requests : req'[q] = req[q] \/ CopyAt(q)'
  BY <1>2, <1>4
<1>6. \A u \in Tickets : /\ row[u].state # "unborn" => row'[u].state # "unborn" /\ row'[u].parent = row[u].parent
                         /\ row[u].state # "unborn" /\ Live(u)' => Live(u)
  BY <1>2 DEF Live
<1>7. \A u \in Tickets : Live(u)' => Live(u) /\ SameRow(u)
  BY <1>2 DEF SameRow, Live
<1> QED BY <1>3, <1>5, <1>6, <1>7, ClimbingNext

LEMMA ClimbingAbort ==
    ASSUME Typing, Typing', Climbing, NEW r \in Requests, Abort(r)
    PROVE  Climbing'
<1>0. /\ req \in [Requests -> Reqs] /\ row \in [Tickets -> Rows] /\ short \in [Tickets -> BOOLEAN]
      /\ \A u \in Tickets : row[u].from \in Dates /\ row[u].to \in Dates
  BY DEF Typing, ReqTyping, RowTyping, Rows
<1>2. /\ UNCHANGED row /\ req'[r].pc = "idle"
      /\ \A q \in Requests : q # r => req'[q] = req[q]
      /\ \A u \in Tickets : short[u] => short'[u]
      /\ \A u \in Tickets : Climbs(r, u) => short'[u]
  BY <1>0 DEF Abort, Finish, Idle, Climbs
<1>3. ASSUME NEW u \in Tickets PROVE Keeps(u)
  <2>1. Covers(row'[u], row[u])
    BY <1>0, <1>2, DateOrder DEF Covers
  <2>2. \A q \in Requests : q # r /\ Climbs(q, u) =>
           Climbs(q, u)' /\ req'[q].from = req[q].from /\ req'[q].to = req[q].to
    BY <1>2 DEF Climbs
  <2> QED BY <1>2, <2>1, <2>2 DEF Keeps
<1>4. \A q \in Requests : req'[q] = req[q] \/ CopyAt(q)'
  BY <1>2 DEF CopyAt
<1>5. \A u \in Tickets : /\ row[u].state # "unborn" => row'[u].state # "unborn" /\ row'[u].parent = row[u].parent
                         /\ row[u].state # "unborn" /\ Live(u)' => Live(u)
  BY <1>2 DEF Live
<1>6. \A u \in Tickets : Live(u)' => Live(u) /\ SameRow(u)
  BY <1>2 DEF SameRow, Live
<1> QED BY <1>3, <1>4, <1>5, <1>6, ClimbingNext

LEMMA ClimbingExpand ==
    ASSUME Typing, Typing', Climbing, NEW r \in Requests, ExpandParent(r)
    PROVE  Climbing'
<1>0. /\ req \in [Requests -> Reqs] /\ row \in [Tickets -> Rows] /\ short \in [Tickets -> BOOLEAN]
      /\ \A u \in Tickets : row[u].from \in Dates /\ row[u].to \in Dates
  BY DEF Typing, ReqTyping, RowTyping, Rows
<1>q. PICK q : q = req[r]
  OBVIOUS
<1>c. PICK u \in Tickets, from \in Dates, to \in Dates, copy \in Rows :
        u = q.at /\ from = q.from /\ to = q.to /\ copy = q.read
  BY <1>q, <1>0, Fields DEF ExpandParent
<1>w. PICK w : w = Widened(copy, q)
  OBVIOUS
<1>1. /\ q = req[r] /\ u = q.at /\ from = q.from /\ to = q.to /\ copy = q.read
      /\ w = Widened(copy, q)
  BY <1>q, <1>c, <1>w
<1>2. /\ w.from \in Dates /\ w.to \in Dates
      /\ w.from \in {copy.from, from} /\ w.to \in {copy.to, to}
      /\ Covers(w, q)
  BY <1>1, WidenedLaws
<1>3. /\ SetDates(u, w) /\ q.pc = "expand"
      /\ short' = [v \in Tickets |-> short[v] \/ (v = u /\ Narrows(v, w)) \/ (v = copy.parent /\ q.left = 1)]
      /\ req' = [req EXCEPT ![r] = NextVisit(q)]
  BY <1>1 DEF ExpandParent
<1>4. /\ \A v \in Tickets : row'[v].state = row[v].state /\ row'[v].parent = row[v].parent
      /\ \A v \in Tickets : v # u \/ ~Live(u) => row'[v] = row[v]
      /\ Live(u) => row'[u].from = w.from /\ row'[u].to = w.to
  BY <1>0, <1>2, <1>3, SetDatesLaws
<1>5. /\ \A v \in Tickets : short[v] => short'[v]
      /\ Live(u) => short'[u] \/ Covers(w, row[u])
      /\ q.left = 1 => \A v \in Tickets : v = copy.parent => short'[v]
  BY <1>0, <1>3 DEF Narrows
<1>6. /\ \A x \in Requests : x # r => req'[x] = req[x]
      /\ IF copy.parent = None \/ q.left = 1 THEN req'[r].pc = "idle"
         ELSE req'[r].pc = "visit" /\ req'[r].at = copy.parent /\ req'[r].from = from /\ req'[r].to = to
  BY <1>0, <1>1, <1>3 DEF NextVisit, Idle
<1>7. ASSUME NEW v \in Tickets, Live(v) PROVE Keeps(v)
  <2>1. \A x \in Requests : x # r /\ Climbs(x, v) =>
           Climbs(x, v)' /\ req'[x].from = req[x].from /\ req'[x].to = req[x].to
    BY <1>6 DEF Climbs
  <2>2. CASE v = u
    <3>1. Covers(row'[v], q)
      BY <2>2, <1>2, <1>4, <1>7 DEF Covers
    <3>2. short'[v] \/ Covers(row'[v], row[v])
      BY <2>2, <1>4, <1>5, <1>7 DEF Covers
    <3> QED BY <3>1, <3>2, <2>1, <1>1, <1>5 DEF Keeps
  <2>3. CASE v # u
    <3>1. ~Climbs(r, v)
      BY <2>3, <1>1 DEF Climbs
    <3>2. Covers(row'[v], row[v])
      BY <2>3, <1>0, <1>4, DateOrder DEF Covers
    <3> QED BY <3>1, <3>2, <2>1, <1>5 DEF Keeps
  <2> QED BY <2>2, <2>3
<1>8. Live(u) => ClimbingAt(u)'
  <2> SUFFICES ASSUME Live(u), row[u].parent # None
               PROVE  FromReached(row[u].parent, row[u].from)' /\ ToReached(row[u].parent, row[u].to)'
    BY <1>4 DEF ClimbingAt
  <2>1. copy.parent = row[u].parent
    BY <1>1, <1>3 DEF Climbing
  <2>2. PICK p \in Tickets, f \in Dates, e \in Dates : p = row[u].parent /\ p # None /\ f = copy.from /\ e = copy.to
    <3>1. copy.from \in Dates /\ copy.to \in Dates
      BY DEF Rows
    <3>2. row[u].parent \in Tickets
      BY DEF Typing, RowTyping, Rows, Maybe
    <3> QED BY <3>1, <3>2
  <2>3. Live(p)
    BY <2>2 DEF Typing, RowTyping
  <2>4. FromReached(p, f) /\ ToReached(p, e) /\ Keeps(p)
    BY <1>1, <1>3, <1>7, <2>1, <2>2, <2>3 DEF Climbing
  <2>5. FromReached(p, f)' /\ ToReached(p, e)'
    BY <2>4, ReachedStays
  <2>6. FromReached(p, from)' /\ ToReached(p, to)'
    <3>1. CASE q.left = 1
      BY <3>1, <1>5, <2>1, <2>2 DEF FromReached, ToReached
    <3>2. CASE q.left # 1
      <4>1. Climbs(r, p)' /\ req'[r].from = from /\ req'[r].to = to
        BY <3>2, <1>6, <2>1, <2>2 DEF Climbs
      <4> QED BY <4>1, DateOrder DEF FromReached, ToReached, Before, After
    <3> QED BY <3>1, <3>2
  <2>7. row'[u].from \in {f, from} /\ row'[u].to \in {e, to} /\ row'[u].parent = p
    BY <1>2, <1>4, <2>2
  <2> QED BY <2>5, <2>6, <2>7 DEF FromReached, ToReached, Before, After, Climbs
<1>9. \A x \in Requests : req'[x] = req[x] \/ CopyAt(x)'
  BY <1>6 DEF CopyAt
<1>10. \A v \in Tickets : /\ row[v].state # "unborn" => row'[v].state # "unborn" /\ row'[v].parent = row[v].parent
                          /\ row[v].state # "unborn" /\ Live(v)' => Live(v)
  BY <1>4 DEF Live
<1>11. \A v \in Tickets : Live(v)' => Live(v)
  BY <1>4 DEF Live
<1>12. \A v \in Tickets : v # u => SameRow(v)
  BY <1>4 DEF SameRow
<1> QED BY <1>7, <1>8, <1>9, <1>10, <1>11, <1>12, ClimbingNext

(* The steps that write no dates.                                          *)
LEMMA QuietSteps ==
    ASSUME Typing, NEW r \in Requests,
           \/ \E t \in Tickets, from \in Dates, to \in Dates : UpdateTicket(r, t, from, to)
           \/ \E t \in Tickets : ArchiveTicket(r, t) \/ RestoreTicket(r, t) \/ CallTool(r, t)
           \/ ArchiveTicketTool(r)
           \/ \E t \in Tickets : DeleteTicketTx(r, t) \/ ToggleReaction(r, t)
           \/ \E t \in Tickets, f \in Files : UploadFile(r, t, f)
           \/ \E f \in Files : DeleteAttachment(r, f)
           \/ RecordAttachment(r) \/ Erase(r) \/ AddReaction(r) \/ AbortItem(r)
           \/ DeleteTicketTool(r)
    PROVE  QuietRows /\ OffPath(r)
<1>0. req \in [Requests -> Reqs] /\ req[r] \in Reqs /\ RowTyping
  BY DEF Typing, ReqTyping
<1>1. OffPath(r)
  <2>1. CASE \/ \E t \in Tickets, from \in Dates, to \in Dates : UpdateTicket(r, t, from, to)
             \/ \E t \in Tickets : ArchiveTicket(r, t) \/ RestoreTicket(r, t) \/ CallTool(r, t)
             \/ \E t \in Tickets : DeleteTicketTx(r, t) \/ ToggleReaction(r, t)
    BY <2>1, <1>0 DEF UpdateTicket, ArchiveTicket, RestoreTicket, CallTool, DeleteTicketTx, ToggleReaction, Goto,
                      Start, Idle, OffPath
  <2>2. CASE \/ \E t \in Tickets, f \in Files : UploadFile(r, t, f)
             \/ \E f \in Files : DeleteAttachment(r, f)
    BY <2>2, <1>0 DEF UploadFile, Upload, DeleteAttachment, Goto, Start, Idle, OffPath
  <2>3. CASE ArchiveTicketTool(r) \/ RecordAttachment(r) \/ RemoveRow(r) \/ AddReaction(r) \/ AbortItem(r) \/ DeleteTicketTool(r)
    BY <2>3, <1>0 DEF ArchiveTicketTool, RecordAttachment, RemoveRow, AddReaction, AbortItem, DeleteTicketTool,
                      Finish, Idle, OffPath
  <2>4. CASE RemoveObject(r)
    BY <2>4, <1>0 DEF RemoveObject, DeleteObject, Goto, OffPath
  <2> QED BY <2>1, <2>2, <2>3, <2>4 DEF Erase
<1>2. QuietRows
  <2>1. CASE UNCHANGED <<row, short>>
    BY <2>1 DEF QuietRows, SameRow, Live
  <2>2. CASE \E t \in Tickets : Archive(t) /\ UNCHANGED short
    BY <2>2, <1>0, ArchiveLaws DEF QuietRows, SameRow, Live
  <2>3. CASE \E t \in Tickets : RestoreTicket(r, t)
    BY <2>3, <1>0, MarkLaws DEF RestoreTicket, RowTyping, QuietRows, SameRow, Live
  <2>4. CASE \E t \in Tickets : DeleteTicket(t) /\ UNCHANGED short
    <3>1. PICK t \in Tickets : DeleteTicket(t) /\ UNCHANGED short
      BY <2>4
    <3>2. \A u \in Tickets :
             /\ SameRow(u)
             /\ row'[u].state = IF u \in Subtree(t) THEN "gone" ELSE row[u].state
      BY <3>1, <1>0, DeleteLaws DEF SameRow
    <3> QED BY <3>1, <3>2 DEF QuietRows, Live
  <2>5. CASE ArchiveTicketTool(r)
    BY <2>1, <2>2, <2>5, <1>0, Fields DEF ArchiveTicketTool
  <2>6. CASE DeleteTicketTool(r)
    BY <2>1, <2>4, <2>6, <1>0, Fields DEF DeleteTicketTool, Cascade
  <2>7. CASE \E t \in Tickets : DeleteTicketTx(r, t)
    BY <2>4, <2>7 DEF DeleteTicketTx, Cascade
  <2>8. CASE \E t \in Tickets : ArchiveTicket(r, t)
    BY <2>2, <2>8 DEF ArchiveTicket
  <2>9. CASE \/ \E t \in Tickets, from \in Dates, to \in Dates : UpdateTicket(r, t, from, to)
             \/ \E t \in Tickets : CallTool(r, t) \/ ToggleReaction(r, t)
             \/ \E t \in Tickets, f \in Files : UploadFile(r, t, f)
             \/ \E f \in Files : DeleteAttachment(r, f)
             \/ RecordAttachment(r) \/ Erase(r) \/ AddReaction(r) \/ AbortItem(r)
    BY <2>1, <2>9 DEF Erase, UpdateTicket, CallTool, ToggleReaction, UploadFile, DeleteAttachment, RecordAttachment,
                      RemoveObject, RemoveRow, AddReaction, AbortItem, Tree
  <2> QED BY <2>3, <2>5, <2>6, <2>7, <2>8, <2>9
<1> QED BY <1>1, <1>2

(* A parent's dates enclose those of its children, whatever edits and      *)
(* walks overlap (UpdateTicket of tickets.go, ExpandParentDates of         *)
(* queries.go): a range that sticks out belongs to a parent that was       *)
(* narrowed or that a walk failed to reach, or to one that a walk is at.   *)
THEOREM Enclosed == Spec => []ParentsEnclose
<1>1. InitItems => Climbing
  <2> SUFFICES ASSUME InitItems PROVE Climbing
    OBVIOUS
  <2>1. \A t \in Tickets : row[t].from = None /\ row[t].to = None
    BY DEF InitItems, Init
  <2>2. \A r \in Requests : req[r].pc = "idle"
    BY DEF InitItems, Init, Idle
  <2> QED BY <2>1, <2>2 DEF Climbing, FromReached, ToReached, Before, After
<1>2. Typing /\ Typing' /\ Climbing /\ [Next]_vars => Climbing'
  <2> SUFFICES ASSUME Typing, Typing', Climbing, [Next]_vars PROVE Climbing'
    OBVIOUS
  <2> USE DEF Dates
  <2>1. CASE UNCHANGED vars
    BY <2>1 DEF vars, treeVars, Climbing, Climbs, FromReached, ToReached, Live, Before, After
  <2>2. ASSUME NEW r \in Requests, TreeStep(r) PROVE Climbing'
    <3>1. CASE \E t \in Tickets, p \in Maybe(Tickets), from \in Dates, to \in Dates :
                 p # t /\ CreateTicket(r, t, p, from, to)
      BY <3>1, ClimbingCreate
    <3>2. CASE WriteTicket(r) \/ VisitParent(r) \/ ExpandParent(r) \/ Abort(r)
      BY <3>2, ClimbingWrite, ClimbingVisit, ClimbingExpand, ClimbingAbort
    <3>3. CASE \/ \E t \in Tickets, from \in Dates, to \in Dates : UpdateTicket(r, t, from, to)
               \/ \E t \in Tickets : ArchiveTicket(r, t) \/ RestoreTicket(r, t) \/ CallTool(r, t)
               \/ ArchiveTicketTool(r)
      BY <3>3, QuietSteps, ClimbingQuiet
    <3> QED BY <2>2, <3>1, <3>2, <3>3 DEF TreeStep, CreateTicketTool
  <2>3. ASSUME NEW r \in Requests,
               \/ \E t \in Tickets : DeleteTicketTx(r, t) \/ ToggleReaction(r, t)
               \/ \E t \in Tickets, f \in Files : UploadFile(r, t, f)
               \/ \E f \in Files : DeleteAttachment(r, f)
               \/ RecordAttachment(r) \/ Erase(r) \/ AddReaction(r) \/ AbortItem(r)
               \/ DeleteTicketTool(r)
        PROVE  Climbing'
    BY <2>3, QuietSteps, ClimbingQuiet
  <2> QED BY <2>1, <2>2, <2>3 DEF Next
<1>3. Typing /\ Climbing => ParentsEnclose
  <2> SUFFICES ASSUME Typing, Climbing, NEW t \in Tickets, Live(t), row[t].parent # None
               PROVE  \/ Covers(row[row[t].parent], row[t])
                      \/ short[row[t].parent]
                      \/ \E r \in Requests : req[r].pc \in {"visit", "expand"} /\ req[r].at = row[t].parent
    BY DEF ParentsEnclose
  <2> QED BY DEF Climbing, FromReached, ToReached, Climbs, Covers
<1> QED BY <1>1, <1>2, <1>3, TypingAlways, PTL DEF Spec
=============================================================================
