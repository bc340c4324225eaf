---------------------------- MODULE DebateScoring ---------------------------
(***************************************************************************)
(* Effort scores and money of the debates of one project: the detached     *)
(* scorer started by every accepted round (scoreAfterAccept), the sweep    *)
(* that every server replica runs over debates whose score is missing or   *)
(* stale (RetryStaleEffortScores), and what both, and CreateRound, write   *)
(* to the debate's running total, the spend ledger and the monthly rollup, *)
(* a line item of the costs page that staff can change as well.            *)
(*                                                                         *)
(* A scorer calls its provider with no lock held; by the time it has an    *)
(* answer its round may be outdated, undone, or in an abandoned debate.    *)
(* How a round gets its text is the subject of DebateRounds: here a round  *)
(* is an id, a number, a status and its costs.                             *)
(***************************************************************************)
EXTENDS Integers, Sequences, FiniteSets, FiniteSetsExt

CONSTANTS
  Debates,    \* the project's feature_debates rows
  Rounds,     \* bound: ids that feature_debate_rounds rows may ever get
  Replicas,   \* server replicas, each with one sweep
  Handlers,   \* goroutines that run CreateRound
  None,       \* SQL NULL
  Costs,      \* what one provider call may cost, in micros
  Cent,       \* micros in a cent (10000)
  Amounts,    \* what staff may enter on the costs page, in cents
  BatchSize,  \* EffortRetryBatchSize
  Faults      \* do transactions fail and replicas die?

ASSUME NoneAssumption == None \notin Rounds \cup Debates \cup Int
ASSUME WorkersAssumption ==
  /\ Rounds \cap Replicas = {}
  /\ Handlers \cap (Rounds \cup Replicas) = {}
ASSUME FiniteAssumption == IsFiniteSet(Debates) /\ IsFiniteSet(Rounds \cup Replicas \cup Handlers)
ASSUME MoneyAssumption == Costs \subseteq Nat /\ Cent \in Nat \ {0} /\ Amounts \subseteq Int
ASSUME SweepAssumption == BatchSize \in Nat \ {0}
ASSUME ModeAssumption == Faults \in BOOLEAN

VARIABLES
  status,  \* feature_debates.status
  effort,  \* effort_score, by the round it rates, and last_scored_round_id
  leased,  \* effort_retry_next_at is in the future
  round,   \* feature_debate_rounds
  job,     \* goroutines: a round's own scorer, the sweeps, CreateRound
  total,   \* feature_debates.total_cost_micros
  ledger,  \* sum of the debate's debate_spend rows
  cents,   \* amount_cents of the project_costs row of its debates, or no row
  lost     \* history: cents whose increment failed or died with its replica,
           \* and what staff took off the row

vars == <<status, effort, leased, round, job, total, ledger, cents, lost>>

-----------------------------------------------------------------------------
(* Rows *)

Status == {"active", "approved", "abandoned"}

Effort == [score : Rounds \cup {None}, last : Rounds \cup {None}]

Unscored == [score |-> None, last |-> None]

\* "none": not inserted yet; "deleted": undone.
Round == [debate  : Debates \cup {None},
          number  : Nat,
          status  : {"none", "in_review", "accepted", "rejected", "deleted"},
          settled : BOOLEAN,          \* decided at least EffortRetryMinAge ago
          cost    : Nat,
          scorer  : Nat]              \* scorer_cost_micros

NoRound == [debate |-> None, number |-> 0, status |-> "none", settled |-> FALSE,
            cost |-> 0, scorer |-> 0]

Live(i) == round[i].status \in {"in_review", "accepted", "rejected"}

RoundsOf(d) == {i \in Rounds : Live(i) /\ round[i].debate = d}

AcceptedOf(d) == {i \in RoundsOf(d) : round[i].status = "accepted"}

\* COALESCE(MAX(round_number), 0) + 1
IsNextNumber(d, n) ==
  /\ \A i \in RoundsOf(d) : round[i].number < n
  /\ n = 1 \/ \E i \in RoundsOf(d) : round[i].number = n - 1

\* ORDER BY round_number DESC LIMIT 1 over the accepted rounds.
IsLatestAccepted(i) ==
  /\ i \in AcceptedOf(round[i].debate)
  /\ \A j \in AcceptedOf(round[i].debate) : round[j].number <= round[i].number

\* The score shown is missing or rates an earlier round.
Stale(i) ==
  /\ IsLatestAccepted(i)
  /\ status[round[i].debate] \in {"active", "approved"}
  /\ effort[round[i].debate].last # i

-----------------------------------------------------------------------------
(* Goroutines *)

Workers == Rounds \cup Replicas \cup Handlers

\* The queue holds the rounds claimed; its head is the one being scored, at
\* once or, in a sweep that is behind, after other debates of its batch.
Job == [pc : {"idle", "scoring", "applying", "rolling"}, queue : Seq(Rounds),
        behind : BOOLEAN, cents : Nat]

Idle == [pc |-> "idle", queue |-> << >>, behind |-> FALSE, cents |-> 0]

Scoring(queue, behind) ==
  [pc |-> "scoring", queue |-> queue, behind |-> behind, cents |-> 0]

At(w, pc) == job[w].pc = pc

\* On to the next claimed round, if any.
Advance(w) ==
  job' = [job EXCEPT ![w] = IF Len(@.queue) <= 1 THEN Idle
                                    ELSE Scoring(Tail(@.queue), TRUE)]

Queued(w) == {job[w].queue[k] : k \in DOMAIN job[w].queue}

Init ==
  /\ status = [d \in Debates |-> "active"]
  /\ effort = [d \in Debates |-> Unscored]
  /\ leased = [d \in Debates |-> FALSE]
  /\ round = [i \in Rounds |-> NoRound]
  /\ job = [w \in Workers |-> Idle]
  /\ total = [d \in Debates |-> 0]
  /\ ledger = [d \in Debates |-> 0]
  /\ cents = None
  /\ lost = 0

-----------------------------------------------------------------------------
(* Money *)

\* RecordDebateSpendTx and total_cost_micros, in the transaction of the charge.
Charge(d, cost) ==
  /\ total' = [total EXCEPT ![d] = @ + cost]
  /\ ledger' = [ledger EXCEPT ![d] = @ + cost]

\* Mutants: the cents of the call, rounded up, not of the running total; the
\* two totals swapped.
DeltaOfCall(d, cost) == (cost + Cent - 1) \div Cent

DeltaSwapped(d, cost) == total[d] \div Cent - (total[d] + cost) \div Cent

\* What the charge adds to the rollup: whole cents of the running total.
CentsDelta(d, cost) == (total[d] + cost) \div Cent - total[d] \div Cent

\* What the costs page adds up for the debates.
Amount == IF cents = None THEN 0 ELSE cents

\* IncrementProjectCostCents comes after the commit; a delta of zero returns
\* early.
RollsUp(w, delta) ==
  IF delta = 0 THEN Advance(w)
  ELSE job' = [job EXCEPT ![w] = [@ EXCEPT !.pc = "rolling", !.cents = delta]]

\* INSERT ... ON CONFLICT DO UPDATE.
Incremented(delta) == Amount + delta

RollUp(w) ==
  /\ At(w, "rolling")
  /\ cents' = Incremented(job[w].cents)
  /\ Advance(w)
  /\ UNCHANGED <<status, effort, leased, round, total, ledger, lost>>

RollUpFails(w) ==
  /\ Faults
  /\ At(w, "rolling")
  /\ lost' = lost + job[w].cents
  /\ Advance(w)
  /\ UNCHANGED <<status, effort, leased, round, total, ledger, cents>>

\* Staff replace the row, whatever was added to it since they saw it.
Replace(row) ==
  /\ cents' = row
  /\ lost' = lost + Amount - Amount'
  /\ UNCHANGED <<status, effort, leased, round, job, total, ledger>>

\* A line item of the rollup's category and name: the UNIQUE constraint
\* refuses it once there is one.
AddCostItem(amount) == cents = None /\ Replace(amount)

UpdateCostItem(amount) == cents # None /\ Replace(amount)

\* The page offers it for the rollup as for any other line item.
DeleteCostItem == cents # None /\ Replace(None)

CostStep ==
  \/ \E amount \in Amounts : AddCostItem(amount) \/ UpdateCostItem(amount)
  \/ DeleteCostItem

-----------------------------------------------------------------------------
(* Rounds *)

\* InsertDebateRoundTx: the suggestion and its charge.
InsertRound(h, d, i, n, cost) ==
  /\ At(h, "idle")
  /\ status[d] = "active"
  /\ round[i].status = "none"
  /\ \A j \in RoundsOf(d) : round[j].status # "in_review"
  /\ IsNextNumber(d, n)
  /\ round' = [round EXCEPT ![i] = [NoRound EXCEPT !.debate = d, !.number = n,
                                                   !.status = "in_review", !.cost = cost]]
  /\ Charge(d, cost)
  /\ RollsUp(h, CentsDelta(d, cost))
  /\ UNCHANGED <<status, effort, leased, cents, lost>>

\* The accept transaction, then go scoreAfterAccept(...).
AcceptRound(i) ==
  /\ round[i].status = "in_review"
  /\ status[round[i].debate] = "active"
  /\ round' = [round EXCEPT ![i] = [@ EXCEPT !.status = "accepted"]]
  /\ job' = [job EXCEPT ![i] = Scoring(<<i>>, FALSE)]
  /\ UNCHANGED <<status, effort, leased, total, ledger, cents, lost>>

RejectRound(i) ==
  /\ round[i].status = "in_review"
  /\ status[round[i].debate] = "active"
  /\ round' = [round EXCEPT ![i] = [@ EXCEPT !.status = "rejected"]]
  /\ UNCHANGED <<status, effort, leased, job, total, ledger, cents, lost>>

Undone(d, from) ==
  {i \in RoundsOf(d) : round[i].number >= round[from].number}

\* Mutant: the effort columns are left to the next score; only the foreign
\* key's ON DELETE SET NULL acts.
UndoKeepsScore(d, from) ==
  /\ status[d] = "active"
  /\ from \in RoundsOf(d)
  /\ round' = [i \in Rounds |-> IF i \in Undone(d, from)
                                  THEN [round[i] EXCEPT !.status = "deleted"] ELSE round[i]]
  /\ effort' = [effort EXCEPT ![d] = [@ EXCEPT !.last =
                  IF @ \in Undone(d, from) THEN None ELSE @]]
  /\ UNCHANGED <<status, leased, job, total, ledger, cents, lost>>

\* Mutant: the charge goes with the round (a ledger that cascades).
UndoRefunds(d, from) ==
  /\ status[d] = "active"
  /\ from \in RoundsOf(d)
  /\ round' = [i \in Rounds |-> IF i \in Undone(d, from)
                                  THEN [round[i] EXCEPT !.status = "deleted"] ELSE round[i]]
  /\ effort' = [effort EXCEPT ![d] = Unscored]
  /\ ledger' = [ledger EXCEPT ![d] = @ - round[from].cost]
  /\ UNCHANGED <<status, leased, job, total, cents, lost>>

\* Rows are deleted, charges are not.
UndoRounds(d, from) ==
  /\ status[d] = "active"
  /\ from \in RoundsOf(d)
  /\ round' = [i \in Rounds |-> IF i \in Undone(d, from)
                                  THEN [round[i] EXCEPT !.status = "deleted"] ELSE round[i]]
  /\ effort' = [effort EXCEPT ![d] = Unscored]
  /\ UNCHANGED <<status, leased, job, total, ledger, cents, lost>>

CloseDebate(d, verdict) ==
  /\ status[d] = "active"
  /\ status' = [status EXCEPT ![d] = verdict]
  /\ UNCHANGED <<effort, leased, round, job, total, ledger, cents, lost>>

-----------------------------------------------------------------------------
(* Scoring *)

\* The scorer's answer has come, and will be billed.
ScoreReturns(w) ==
  /\ At(w, "scoring")
  /\ job' = [job EXCEPT ![w] = [@ EXCEPT !.pc = "applying"]]
  /\ UNCHANGED <<status, effort, leased, round, total, ledger, cents, lost>>

\* The call fails or times out, or the project's scorer is not configured.
ScoreFails(w) ==
  /\ At(w, "scoring")
  /\ Advance(w)
  /\ UNCHANGED <<status, effort, leased, round, total, ledger, cents, lost>>

\* Mutant: any answer is taken.
MayScoreAny(i) == status[round[i].debate] # "abandoned"

\* UpdateEffortScoreCondTx: only a score fresher than the one there.
MayScore(i) ==
  LET last == effort[round[i].debate].last
  IN  /\ status[round[i].debate] \in {"active", "approved"}
      /\ last = None \/ round[last].number < round[i].number

\* applyScoreResult: one transaction under the debate's lock.  It charges the
\* call whether or not the score is still wanted, if the round still exists.
ApplyScore(w, cost) ==
  LET i == Head(job[w].queue)
      d == round[i].debate
  IN  /\ At(w, "applying")
      /\ Live(i)
      /\ round' = [round EXCEPT ![i] = [@ EXCEPT !.scorer = cost]]
      /\ effort' = IF MayScore(i)
                     THEN [effort EXCEPT ![d] = [score |-> i, last |-> i]] ELSE effort
      /\ Charge(d, cost)
      /\ RollsUp(w, CentsDelta(d, cost))
      /\ UNCHANGED <<status, leased, cents, lost>>

\* The round was undone: no row to resolve the debate from, and the whole
\* transaction is rolled back.  Or it fails for another reason.
ApplyFails(w) ==
  /\ At(w, "applying")
  /\ Faults \/ ~Live(Head(job[w].queue))
  /\ Advance(w)
  /\ UNCHANGED <<status, effort, leased, round, total, ledger, cents, lost>>

\* A replica dies with the goroutines it runs.
Dies(w) ==
  /\ Faults
  /\ ~At(w, "idle")
  /\ lost' = lost + job[w].cents
  /\ job' = [job EXCEPT ![w] = Idle]
  /\ UNCHANGED <<status, effort, leased, round, total, ledger, cents>>

-----------------------------------------------------------------------------
(* The sweep *)

\* Mutants: without the lease; only debates that have no score at all.
ClaimableLeased(i) == Stale(i) /\ round[i].settled

ClaimableUnscored(i) ==
  /\ Stale(i) /\ effort[round[i].debate].last = None
  /\ round[i].settled /\ ~leased[round[i].debate]

Claimable(i) == Stale(i) /\ round[i].settled /\ ~leased[round[i].debate]

\* Up to BatchSize debates, in any order; SKIP LOCKED may pass over others.
Batches ==
  {q \in UNION {[1..n -> Rounds] : n \in 1..BatchSize} :
     /\ \A k \in DOMAIN q : Claimable(q[k])
     /\ \A k, m \in DOMAIN q : q[k] = q[m] => k = m}

\* ClaimStaleEffortScores, over the debates of every project: those of others
\* may come before these in the batch.
Claim(s) ==
  /\ At(s, "idle")
  /\ \E q \in Batches, behind \in BOOLEAN :
       /\ job' = [job EXCEPT ![s] = Scoring(q, behind)]
       /\ leased' = [d \in Debates |->
                       leased[d] \/ \E k \in DOMAIN q : round[q[k]].debate = d]
  /\ UNCHANGED <<status, effort, round, total, ledger, cents, lost>>

\* 5 min since the round was accepted.  Its own scorer has 60 s for the call
\* and 15 s for the write, then it is over.
Settles(i) ==
  /\ round[i].status = "accepted"
  /\ ~round[i].settled
  /\ At(i, "idle")
  /\ round' = [round EXCEPT ![i] = [@ EXCEPT !.settled = TRUE]]
  /\ UNCHANGED <<status, effort, leased, job, total, ledger, cents, lost>>

\* The debate a sweep scores first in its batch of up to 20.
Prompt(s, k) == k = 1 /\ ~job[s].behind

\* At least 5 min since the claim.  The sweep needs up to 75 s for a debate: it
\* is through with its first one then, and may not have come to the others.
LeaseElapses(d) ==
  /\ leased[d]
  /\ \A s \in Replicas : \A k \in DOMAIN job[s].queue :
       round[job[s].queue[k]].debate = d => ~Prompt(s, k)
  /\ leased' = [leased EXCEPT ![d] = FALSE]
  /\ UNCHANGED <<status, effort, round, job, total, ledger, cents, lost>>

-----------------------------------------------------------------------------

RoundStep ==
  \/ \E h \in Handlers, d \in Debates, i \in Rounds, cost \in Costs :
       \E n \in {1} \cup {round[j].number + 1 : j \in Rounds} :
         InsertRound(h, d, i, n, cost)
  \/ \E i \in Rounds : AcceptRound(i) \/ RejectRound(i)
  \/ \E d \in Debates, i \in Rounds : UndoRounds(d, i)
  \/ \E d \in Debates, verdict \in {"approved", "abandoned"} : CloseDebate(d, verdict)

Apply(w) == \E cost \in Costs : ApplyScore(w, cost)

ScorerStep(w) == ScoreReturns(w) \/ ScoreFails(w) \/ Apply(w) \/ ApplyFails(w)

Next ==
  \/ RoundStep
  \/ \E w \in Workers : ScorerStep(w) \/ RollUp(w) \/ RollUpFails(w) \/ Dies(w)
  \/ \E s \in Replicas : Claim(s)
  \/ \E i \in Rounds : Settles(i)
  \/ \E d \in Debates : LeaseElapses(d)
  \/ CostStep

Spec == Init /\ [][Next]_vars

\* The server runs its goroutines and the sweep's ticker; the clock advances; a
\* scorer asked again and again answers in the end, and its answer gets written.
FairSpec ==
  /\ Spec
  /\ \A w \in Workers : WF_vars(ScorerStep(w) \/ RollUp(w))
  /\ \A s \in Replicas : WF_vars(Claim(s))
  /\ \A s \in Replicas : SF_vars(ScoreReturns(s)) /\ SF_vars(Apply(s))
  /\ \A i \in Rounds : WF_vars(Settles(i))
  /\ \A d \in Debates : WF_vars(LeaseElapses(d))

-----------------------------------------------------------------------------
(* Properties *)

\* The type invariant.
TypeOK ==
  /\ status \in [Debates -> Status]
  /\ effort \in [Debates -> Effort]
  /\ leased \in [Debates -> BOOLEAN]
  /\ round \in [Rounds -> Round]
  /\ job \in [Workers -> Job]
  /\ total \in [Debates -> Nat]
  /\ ledger \in [Debates -> Nat]
  /\ cents \in Int \cup {None}
  /\ lost \in Int

\* What the inductive proofs need besides.  A row that was inserted belongs to
\* a debate; a goroutine that calls a scorer or writes its answer has a round.
Typed ==
  /\ TypeOK
  /\ \A i \in Rounds : round[i].status # "none" => round[i].debate \in Debates
  /\ \A w \in Workers : job[w].pc \in {"scoring", "applying"} => job[w].queue # << >>

\* Only rounds that were accepted are ever queued; undo may delete them there.
QueueAccepted ==
  \A w \in Workers : \A k \in DOMAIN job[w].queue :
    round[job[w].queue[k]].status \in {"accepted", "deleted"}

\* A round's own scorer works on that round, and only before it is settled.
OwnScorer ==
  /\ \A i \in Rounds : job[i].queue = << >> \/ job[i].queue = <<i>>
  /\ \A i \in Rounds : ~At(i, "idle") => ~round[i].settled
  /\ \A i \in Rounds : round[i].status \in {"none", "in_review"} => ~round[i].settled
  /\ \A h \in Handlers : job[h].queue = << >>

\* A sweep claims settled rounds, it holds the lease of the debate it scores
\* first, and no other sweep scores the same debate first.
LeaseHeld ==
  /\ \A s \in Replicas : \A k \in DOMAIN job[s].queue :
       /\ round[job[s].queue[k]].settled
       /\ Prompt(s, k) => leased[round[job[s].queue[k]].debate]
  /\ \A s, t \in Replicas : s # t =>
       \A k \in DOMAIN job[s].queue, m \in DOMAIN job[t].queue :
         Prompt(s, k) /\ Prompt(t, m) =>
           round[job[s].queue[k]].debate # round[job[t].queue[m]].debate

\* A goroutine has an increment to make only while it is rolling up, and a
\* round that nobody has accepted yet has no scorer.
Owing ==
  /\ \A w \in Workers : ~At(w, "rolling") => job[w].cents = 0
  /\ \A i \in Rounds : round[i].status \in {"none", "in_review"} => At(i, "idle")

\* The score on the page rates a round of this debate that is accepted and not
\* undone, and is the one last_scored_round_id names: no answer of a scorer,
\* however late, and no undo leaves a score that nothing accounts for.
ScoreOfAcceptedRound ==
  \A d \in Debates :
    /\ effort[d].score = effort[d].last
    /\ effort[d].last # None => effort[d].last \in AcceptedOf(d)

\* Scores arrive in any order; the one shown never gives way to that of an
\* earlier round, except that undo withdraws it.
NewestScoreWins ==
  [][\A d \in Debates : effort'[d] # effort[d] =>
       \/ effort'[d] = Unscored
       \/ effort[d].last = None
       \/ round[effort[d].last].number < round[effort'[d].last].number]_vars

\* The increments that goroutines have still to make, and what all of them come
\* to.
UnderWay == MapThenSumSet(LAMBDA w : job[w].cents, Workers)

WholeCents == MapThenSumSet(LAMBDA d : total[d] \div Cent, Debates)

\* An abandoned debate is a record: no late answer changes its score.
AbandonedScoreFrozen ==
  [][\A d \in Debates : status[d] = "abandoned" => effort'[d] = effort[d]]_vars

\* The ledger the budget is enforced on agrees with the debate's running total,
\* charge by charge, whatever is undone or scored again.
LedgerIsTotal == \A d \in Debates : ledger[d] = total[d]

\* The monthly rollup is the whole cents of every debate's total: rounding
\* never accumulates over calls, and interleaved increments do not interfere.
\* It lags by the increments under way and lacks those that failed, and what
\* staff took off it: no increment is lost to an edit made at the same time.
RollupExact == Amount + lost + UnderWay = WholeCents

\* A round is being scored twice at the same time only by two sweeps of which
\* one was behind in its batch, so that its lease could run out while the
\* debate waited: never by a sweep and the goroutine that accepting the round
\* started, and never by two sweeps that took it up at once.
OneCallPerLease ==
  \A w, x \in Workers :
    /\ w # x
    /\ job[w].pc \in {"scoring", "applying"} /\ job[x].pc \in {"scoring", "applying"}
    /\ Head(job[w].queue) = Head(job[x].queue)
    => w \in Replicas /\ x \in Replicas /\ (job[w].behind \/ job[x].behind)

\* Self-healing: a debate does not keep a missing or outdated score, although
\* scorers fail, transactions fail and replicas die.
Healed == \A i \in Rounds : []<>~Stale(i)

=============================================================================
