---------------------------- MODULE DebateRounds ----------------------------
(***************************************************************************)
(* Feature debate mode on one ticket: the feature_debates rows the ticket  *)
(* ever gets, their rounds, and the ticket's description, as changed by    *)
(* the HTTP handlers of internal/handlers/debate.go and tickets.go through *)
(* internal/models/queries.go.                                             *)
(*                                                                         *)
(* PostgreSQL runs every statement READ COMMITTED: a statement sees the    *)
(* rows committed when it starts, and FOR UPDATE and UPDATE read again     *)
(* only the rows they lock, after waiting.  A transaction that locks the   *)
(* debate row first and reads everything else in later statements is one   *)
(* step here.  A statement whose subquery reads ANOTHER table (in          *)
(* UpdateTicket and UpdateDebateSeed) is two: its snapshot, then its write. *)
(*                                                                         *)
(* Money, effort scores and the client caps are in other modules.          *)
(***************************************************************************)
EXTENDS Integers, Sequences

CONSTANTS
  Requests,   \* handler goroutines, on any server replica
  Debates,    \* ids of the feature_debates rows the ticket may ever get
  Texts,      \* markdown texts, no two equal up to surrounding white space
  None,       \* SQL NULL
  MaxRounds,  \* bound: CreateRound is not called on a debate with this many
  Stalls      \* may a request hold its reservation past the 90 s after its
              \* AI call has ended (a stalled pool or database)?

ASSUME NoneAssumption == None \notin Requests \cup Debates \cup Texts
ASSUME BoundAssumption == MaxRounds \in Nat /\ Stalls \in BOOLEAN

VARIABLES
  description,  \* tickets.description_markdown
  row,          \* feature_debates
  rounds,       \* feature_debate_rounds of a debate, in round_number order
  req,          \* what each request is doing and has read so far
  seedRaced     \* history: debates whose seed was written over a round

vars == <<description, row, rounds, req, seedRaced>>

-----------------------------------------------------------------------------
(* Rows *)

Status == {"none", "active", "approved", "abandoned"}

Row == [status   : Status,
        seed     : Texts \cup {None},
        current  : Texts \cup {None},
        original : Texts \cup {None},
        approved : Texts \cup {None},
        inFlight : Requests \cup {None},  \* in_flight_request_id, by its owner
        aged     : BOOLEAN]               \* in_flight_started_at is 90 s old

\* "text" is the AI's output until the round is accepted, then what shipped.
Round == [input : Texts, text : Texts,
          status : {"in_review", "accepted", "rejected"}]

\* A debate id that no row has yet.
NoRow == [status |-> "none", seed |-> None, current |-> None, original |-> None,
          approved |-> None, inFlight |-> None, aged |-> FALSE]

NewRow(text) == [NoRow EXCEPT !.status = "active", !.seed = text,
                              !.current = text, !.original = text]

IsActive(d) == row[d].status = "active"

NoneActive == \A d \in Debates : ~IsActive(d)

InReview(d) == {i \in DOMAIN rounds[d] : rounds[d][i].status = "in_review"}

Accepted(s, i) == s[i].status = "accepted"

\* The last accepted round below number n; undo's ORDER BY ... DESC LIMIT 1.
LastAcceptedBefore(s, n) ==
  CHOOSE i \in 1..(n - 1) :
    Accepted(s, i) /\ \A j \in (i + 1)..(n - 1) : ~Accepted(s, j)

\* Mutant: without the fallback to the seed.
TextBeforeNoSeed(s, start, n) ==
  IF \E i \in 1..(n - 1) : Accepted(s, i)
    THEN s[LastAcceptedBefore(s, n)].text ELSE None

\* The text a debate stands at before round n: COALESCE(last accepted, seed).
TextBefore(s, start, n) ==
  IF \E i \in 1..(n - 1) : Accepted(s, i)
    THEN s[LastAcceptedBefore(s, n)].text ELSE start

-----------------------------------------------------------------------------
(* Requests *)

RoundSteps == {"refining", "inserting", "clearing"}

Steps == {"idle", "insert1", "find1", "insert2", "find2", "exhausted",
          "editing", "updating", "seeding"} \cup RoundSteps

Request == [pc      : Steps,
            debate  : Debates \cup {None},
            snap    : Texts \cup {None},   \* the text it read
            draft   : Texts \cup {None},   \* the description it will write
            verdict : BOOLEAN]             \* what its subquery found

Idle == [pc |-> "idle", debate |-> None, snap |-> None, draft |-> None,
         verdict |-> FALSE]

At(r, step) == req[r].pc = step

Goto(r, step) == req' = [req EXCEPT ![r] = [@ EXCEPT !.pc = step]]

Finish(r) == req' = [req EXCEPT ![r] = Idle]

Init ==
  /\ description \in Texts
  /\ row = [d \in Debates |-> NoRow]
  /\ rounds = [d \in Debates |-> << >>]
  /\ req = [r \in Requests |-> Idle]
  /\ seedRaced = [d \in Debates |-> FALSE]

-----------------------------------------------------------------------------
(* StartDebate: read the description, then INSERT ... ON CONFLICT DO       *)
(* NOTHING, then on a conflict look for the active row; twice at most.     *)

StartDebate(r) ==
  /\ At(r, "idle")
  /\ req' = [req EXCEPT ![r] = [Idle EXCEPT !.pc = "insert1", !.snap = description]]
  /\ UNCHANGED <<description, row, rounds, seedRaced>>

\* Mutant: without the unique index on active debates.
InsertDebateAlways(r, d) ==
  /\ At(r, "insert1") \/ At(r, "insert2")
  /\ row[d].status = "none"
  /\ row' = [row EXCEPT ![d] = NewRow(req[r].snap)]
  /\ Finish(r)
  /\ UNCHANGED <<description, rounds, seedRaced>>

InsertDebate(r, d) ==
  /\ At(r, "insert1") \/ At(r, "insert2")
  /\ NoneActive
  /\ row[d].status = "none"
  /\ row' = [row EXCEPT ![d] = NewRow(req[r].snap)]
  /\ Finish(r)
  /\ UNCHANGED <<description, rounds, seedRaced>>

InsertConflicts(r) ==
  /\ ~NoneActive
  /\ \/ At(r, "insert1") /\ Goto(r, "find1")
     \/ At(r, "insert2") /\ Goto(r, "find2")
  /\ UNCHANGED <<description, row, rounds, seedRaced>>

FindActive(r) ==
  /\ At(r, "find1") \/ At(r, "find2")
  /\ \/ ~NoneActive /\ Finish(r)
     \/ NoneActive /\ At(r, "find1") /\ Goto(r, "insert2")
     \/ NoneActive /\ At(r, "find2") /\ Goto(r, "exhausted")
  /\ UNCHANGED <<description, row, rounds, seedRaced>>

ReplyExhausted(r) ==
  /\ At(r, "exhausted")
  /\ Finish(r)
  /\ UNCHANGED <<description, row, rounds, seedRaced>>

-----------------------------------------------------------------------------
(* CreateRound: reserve, call the AI with no lock held, insert or clear.   *)

\* Mutant: a reservation left by a crash is never taken over.
MayReserveFree(d) == row[d].inFlight = None

MayReserve(d) == row[d].inFlight = None \/ row[d].aged

\* Mutant: in_flight_started_at keeps the time of the reservation taken over.
ReserveKeepsAge(r, d) ==
  /\ At(r, "idle")
  /\ Len(rounds[d]) < MaxRounds
  /\ IsActive(d)
  /\ MayReserve(d)
  /\ row' = [row EXCEPT ![d] = [@ EXCEPT !.inFlight = r]]
  /\ req' = [req EXCEPT ![r] = [Idle EXCEPT !.pc = "refining", !.debate = d,
                                            !.snap = row[d].current]]
  /\ UNCHANGED <<description, rounds, seedRaced>>

Reserve(r, d) ==
  /\ At(r, "idle")
  /\ Len(rounds[d]) < MaxRounds
  /\ IsActive(d)
  /\ MayReserve(d)
  /\ row' = [row EXCEPT ![d] = [@ EXCEPT !.inFlight = r, !.aged = FALSE]]
  /\ req' = [req EXCEPT ![r] = [Idle EXCEPT !.pc = "refining", !.debate = d,
                                            !.snap = row[d].current]]
  /\ UNCHANGED <<description, rounds, seedRaced>>

RefineReturns(r) ==
  /\ At(r, "refining")
  /\ Goto(r, "inserting")
  /\ UNCHANGED <<description, row, rounds, seedRaced>>

\* The provider fails, times out, or its output is empty, short or truncated.
RefineFails(r) ==
  /\ At(r, "refining")
  /\ Goto(r, "clearing")
  /\ UNCHANGED <<description, row, rounds, seedRaced>>

\* Mutants: without the unique index, the staleness check, the status check.
MayInsertSecond(r) ==
  LET d == req[r].debate IN IsActive(d) /\ row[d].current = req[r].snap

MayInsertStale(r) ==
  LET d == req[r].debate IN IsActive(d) /\ InReview(d) = {}

MayInsertLate(r) ==
  LET d == req[r].debate IN row[d].current = req[r].snap /\ InReview(d) = {}

\* The unique index on in_review rounds is the last conjunct.
MayInsert(r) ==
  LET d == req[r].debate
  IN  IsActive(d) /\ row[d].current = req[r].snap /\ InReview(d) = {}

ClearReservation(d) ==
  row' = [row EXCEPT ![d] = [@ EXCEPT !.inFlight = None, !.aged = FALSE]]

InsertRound(r, output) ==
  LET d == req[r].debate
  IN  /\ At(r, "inserting")
      /\ MayInsert(r)
      /\ rounds' = [rounds EXCEPT ![d] = Append(@,
                      [input |-> req[r].snap, text |-> output, status |-> "in_review"])]
      /\ ClearReservation(d)
      /\ Finish(r)
      /\ UNCHANGED <<description, seedRaced>>

\* Refused by a sentinel error, or the transaction failed.
InsertFails(r) ==
  /\ At(r, "inserting")
  /\ Goto(r, "clearing")
  /\ UNCHANGED <<description, row, rounds, seedRaced>>

\* By debate id alone: whoever holds the reservation loses it.
ClearInFlight(r) ==
  /\ At(r, "clearing")
  /\ ClearReservation(req[r].debate)
  /\ Finish(r)
  /\ UNCHANGED <<description, rounds, seedRaced>>

\* The replica dies, or a statement fails and the handler gives up.
Crash(r) ==
  /\ ~At(r, "idle")
  /\ Finish(r)
  /\ UNCHANGED <<description, row, rounds, seedRaced>>

HolderIn(d, steps) ==
  LET h == row[d].inFlight
  IN  h # None /\ req[h].debate = d /\ req[h].pc \in steps

\* 90 s pass.  The AI call itself is cut off at 60 s.
ReservationAges(d) ==
  /\ IsActive(d)
  /\ row[d].inFlight # None /\ ~row[d].aged
  /\ ~HolderIn(d, IF Stalls THEN {"refining"} ELSE RoundSteps)
  /\ row' = [row EXCEPT ![d] = [@ EXCEPT !.aged = TRUE]]
  /\ UNCHANGED <<description, rounds, req, seedRaced>>

-----------------------------------------------------------------------------
(* Decisions, each one transaction that locks the debate row first.        *)

Decided(d, i, verdict, text) ==
  LET decided == [rounds[d][i] EXCEPT !.status = verdict, !.text = text]
  IN  rounds' = [rounds EXCEPT ![d] = [@ EXCEPT ![i] = decided]]

\* "shipped" is the AI's text, or what the user made of it.
AcceptRound(d, i, shipped) ==
  /\ IsActive(d)
  /\ i \in InReview(d)
  /\ Decided(d, i, "accepted", shipped)
  /\ row' = [row EXCEPT ![d] = [@ EXCEPT !.current = shipped]]
  /\ UNCHANGED <<description, req, seedRaced>>

RejectRound(d, i) ==
  /\ IsActive(d)
  /\ i \in InReview(d)
  /\ Decided(d, i, "rejected", rounds[d][i].text)
  /\ UNCHANGED <<description, row, req, seedRaced>>

UndoRounds(d, from) ==
  /\ IsActive(d)
  /\ from \in DOMAIN rounds[d]
  /\ rounds' = [rounds EXCEPT ![d] = SubSeq(@, 1, from - 1)]
  /\ row' = [row EXCEPT ![d] = [@ EXCEPT !.current = TextBefore(rounds[d], row[d].seed, from)]]
  /\ UNCHANGED <<description, req, seedRaced>>

\* Mutant: approves the newest suggestion, accepted or not.
ApproveNewest(d) ==
  LET text == IF rounds[d] = << >> THEN row[d].seed ELSE rounds[d][Len(rounds[d])].text
  IN  /\ IsActive(d)
      /\ description = row[d].original
      /\ description' = text
      /\ row' = [row EXCEPT ![d] = [@ EXCEPT !.status = "approved", !.approved = text]]
      /\ UNCHANGED <<rounds, req, seedRaced>>

ApproveDebate(d) ==
  /\ IsActive(d)
  /\ description = row[d].original
  /\ description' = row[d].current
  /\ row' = [row EXCEPT ![d] = [@ EXCEPT !.status = "approved", !.approved = row[d].current]]
  /\ UNCHANGED <<rounds, req, seedRaced>>

AbandonDebate(d) ==
  /\ IsActive(d)
  /\ row' = [row EXCEPT ![d] = [@ EXCEPT !.status = "abandoned", !.inFlight = None,
                                         !.aged = FALSE]]
  /\ UNCHANGED <<description, rounds, req, seedRaced>>

-----------------------------------------------------------------------------
(* EditSeed: SELECT ... a count over rounds ... FOR UPDATE counts       *)
(* in the statement's snapshot and reads the debate row once it is locked.  *)

EditSeed(r, d) ==
  /\ At(r, "idle")
  /\ IsActive(d)
  /\ req' = [req EXCEPT ![r] = [Idle EXCEPT !.pc = "seeding", !.debate = d,
                                            !.verdict = (rounds[d] = << >>)]]
  /\ UNCHANGED <<description, row, rounds, seedRaced>>

MayEditSeed(r) ==
  LET d == req[r].debate
  IN  IsActive(d) /\ row[d].inFlight = None /\ req[r].verdict

UpdateDebateSeed(r, text) ==
  LET d == req[r].debate
  IN  /\ At(r, "seeding")
      /\ MayEditSeed(r)
      /\ row' = [row EXCEPT ![d] = [@ EXCEPT !.seed = text, !.current = text]]
      /\ seedRaced' = [seedRaced EXCEPT ![d] = @ \/ rounds[d] # << >>]
      /\ Finish(r)
      /\ UNCHANGED <<description, rounds>>

SeedRefused(r) ==
  /\ At(r, "seeding")
  /\ ~MayEditSeed(r)
  /\ Finish(r)
  /\ UNCHANGED <<description, row, rounds, seedRaced>>

-----------------------------------------------------------------------------
(* UpdateTicket, from the ticket page or the assistant's tool: read the    *)
(* ticket, overlay the submitted fields (text = description when the form  *)
(* has none), then one guarded UPDATE of every column.                     *)

EditTicket(r, text) ==
  /\ At(r, "idle")
  /\ req' = [req EXCEPT ![r] = [Idle EXCEPT !.pc = "editing", !.snap = description,
                                            !.draft = text]]
  /\ UNCHANGED <<description, row, rounds, seedRaced>>

\* The UPDATE starts: its snapshot settles NOT EXISTS (an active debate).
StartUpdate(r) ==
  /\ At(r, "editing")
  /\ IF description = req[r].draft \/ NoneActive
       THEN req' = [req EXCEPT ![r] = [@ EXCEPT !.pc = "updating", !.verdict = NoneActive]]
       ELSE Finish(r)
  /\ UNCHANGED <<description, row, rounds, seedRaced>>

\* Mutant: the statement does not compare the row it has locked.
UpdateTicketUnchecked(r) ==
  /\ At(r, "updating")
  /\ description' = req[r].draft
  /\ Finish(r)
  /\ UNCHANGED <<row, rounds, seedRaced>>

\* It has the ticket row: the row is read again, the subquery is not.
UpdateTicket(r) ==
  /\ At(r, "updating")
  /\ description' = IF description = req[r].draft \/ req[r].verdict
                      THEN req[r].draft ELSE description
  /\ Finish(r)
  /\ UNCHANGED <<row, rounds, seedRaced>>

-----------------------------------------------------------------------------

StartStep(r) ==
  \/ StartDebate(r)
  \/ \E d \in Debates : InsertDebate(r, d)
  \/ InsertConflicts(r)
  \/ FindActive(r)
  \/ ReplyExhausted(r)

RoundStep(r) ==
  \/ RefineReturns(r)
  \/ RefineFails(r)
  \/ \E t \in Texts : InsertRound(r, t)
  \/ InsertFails(r)
  \/ ClearInFlight(r)

EditStep(r) ==
  \/ \E d \in Debates : EditSeed(r, d)
  \/ \E t \in Texts : UpdateDebateSeed(r, t)
  \/ SeedRefused(r)
  \/ \E t \in Texts : EditTicket(r, t)
  \/ StartUpdate(r)
  \/ UpdateTicket(r)

Decide(d) ==
  \/ \E i \in DOMAIN rounds[d], t \in Texts : AcceptRound(d, i, t)
  \/ \E i \in DOMAIN rounds[d] : RejectRound(d, i)
  \/ \E i \in DOMAIN rounds[d] : UndoRounds(d, i)
  \/ ApproveDebate(d)
  \/ AbandonDebate(d)

Next ==
  \/ \E r \in Requests : StartStep(r) \/ RoundStep(r) \/ EditStep(r) \/ Crash(r)
  \/ \E r \in Requests, d \in Debates : Reserve(r, d)
  \/ \E d \in Debates : Decide(d) \/ ReservationAges(d)

Spec == Init /\ [][Next]_vars

\* The server runs a request it has accepted; nothing obliges a user to act.
FairSpec ==
  /\ Spec
  /\ \A r \in Requests : WF_vars(RoundStep(r))
  /\ \A d \in Debates : WF_vars(ReservationAges(d))

-----------------------------------------------------------------------------
(* Properties *)

\* The type invariant.
TypeOK ==
  /\ description \in Texts
  /\ row \in [Debates -> Row]
  /\ rounds \in [Debates -> Seq(Round)]
  /\ req \in [Requests -> Request]
  /\ seedRaced \in [Debates -> BOOLEAN]

\* What the stage of a debate and of a request says about their fields; with
\* TypeOK it is inductive.
DebateTyped(x, s) ==
  IF x.status = "none"
    THEN s = << >>
    ELSE x.seed \in Texts /\ x.current \in Texts /\ x.original \in Texts

RequestTyped(q) ==
  /\ q.pc \in RoundSteps \cup {"seeding"} => q.debate \in Debates
  /\ q.pc \in RoundSteps \cup {"insert1", "find1", "insert2", "find2"} => q.snap \in Texts
  /\ q.pc \in {"editing", "updating"} => q.draft \in Texts

Typed ==
  /\ TypeOK
  /\ \A d \in Debates : DebateTyped(row[d], rounds[d])
  /\ \A r \in Requests : RequestTyped(req[r])

\* A round waiting for its decision is the newest one: nothing is ever stacked
\* on a suggestion nobody has accepted, whatever undo and late AI answers do.
InReviewIsLast == \A d \in Debates : \A i \in InReview(d) : i = Len(rounds[d])

Chained(s, start, current) ==
  /\ \A n \in DOMAIN s : s[n].input = TextBefore(s, start, n)
  /\ current = TextBefore(s, start, Len(s) + 1)

\* The accepted-text chain: every round was written from the text that the
\* accepted rounds below it leave (the seed if none), and current_text is the
\* text they leave now.  An AI answer written from a text that accept or undo
\* has since replaced never enters it.  (Unless the seed lost the race below.)
TextChain ==
  \A d \in Debates : ~seedRaced[d] => Chained(rounds[d], row[d].seed, row[d].current)

\* What an approved debate put on the ticket is the last text somebody
\* accepted, never a suggestion still in review, rejected or undone.
ApprovedWasAccepted ==
  \A d \in Debates : row[d].status = "approved" /\ ~seedRaced[d] =>
    row[d].approved = TextBefore(rounds[d], row[d].seed, Len(rounds[d]) + 1)

\* Approve and Abandon are final: AI answers, decisions, seed edits that were
\* under way leave the row and its rounds as the audit trail has them.
TerminalFrozen ==
  [][\A d \in Debates : row[d].status \in {"approved", "abandoned"} =>
       /\ rounds'[d] = rounds[d]
       /\ \A f \in {"status", "seed", "current", "original", "approved"} :
            row'[d][f] = row[d][f]]_vars

\* Whoever is between its reservation and its insert or clear on an active
\* debate still owns the reservation, so no second AI call runs beside it and
\* nobody clears a reservation that is not its own.
CallerHoldsReservation ==
  \A r \in Requests :
    req[r].pc \in RoundSteps /\ IsActive(req[r].debate)
      => row[req[r].debate].inFlight = r

\* How far the description lock reaches: while a debate is active the
\* description changes only when the debate is approved, or by an UPDATE whose
\* snapshot was taken when none was.
DescriptionGuarded ==
  [][description' # description =>
       \/ NoneActive
       \/ \E d \in Debates : IsActive(d) /\ row'[d].status = "approved"
       \/ \E r \in Requests : At(r, "updating") /\ req[r].verdict /\ req'[r].pc = "idle"]_vars

\* What readers of the ticket see of a debate: the text it stood at before each
\* of its rounds, and stands at now (unless the seed lost the race above).
TrailOf(s, start) == [n \in 1..(Len(s) + 1) |-> TextBefore(s, start, n)]

Trail ==
  [d \in Debates |-> IF row[d].status = "none" \/ seedRaced[d]
                       THEN << >> ELSE TrailOf(rounds[d], row[d].seed)]

Stage == [d \in Debates |-> row[d].status]

Published == [d \in Debates |-> IF row[d].status = "approved" THEN row[d].approved ELSE None]

Doc == INSTANCE DebateDoc WITH stage <- Stage, trail <- Trail, published <- Published

\* The whole of reservations, AI calls, late answers, races and crashes comes to
\* what DebateDoc says: one open debate, a text that moves by accepting and goes
\* back by undoing, only ever to where it stood, and approval of the text that
\* stands, in one step with the ticket.
ImplementsDoc == Doc!Spec

\* A reservation whose owner crashed does not lock the debate: it is cleared,
\* becomes reclaimable, or the debate ends.
ReservationFreed ==
  \A d \in Debates :
    (IsActive(d) /\ row[d].inFlight # None) ~> (~IsActive(d) \/ MayReserve(d))

=============================================================================
