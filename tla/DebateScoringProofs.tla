------------------------ MODULE DebateScoringProofs -------------------------
(***************************************************************************)
(* Theorems about DebateScoring for any number of debates, rounds, server  *)
(* replicas and handlers, and any prices.                                  *)
(***************************************************************************)
EXTENDS DebateScoring, SequenceTheorems, FiniteSetTheorems, WellFoundedInduction, TLAPS

-----------------------------------------------------------------------------
(* Lemmas on numbers and queues *)

\* Whole cents grow with the total.
LEMMA DivMonotone ==
  ASSUME NEW a \in Nat, NEW b \in Nat, NEW c \in Nat \ {0}, a <= b
  PROVE  /\ a \div c \in Nat
         /\ b \div c \in Nat
         /\ a \div c <= b \div c
<1> DEFINE p == a \div c
           q == b \div c
<1>1. p \in Int /\ q \in Int
  OBVIOUS
<1>2. c * p <= a /\ a < c * p + c /\ c * q <= b /\ b < c * q + c
  OBVIOUS
<1>3. p >= 0 /\ q >= 0
  OBVIOUS
<1>4. ASSUME q + 1 <= p PROVE FALSE
  <2>1. c * (q + 1) <= c * p
    BY <1>1, <1>3, <1>4, Z3
  <2>2. c * (q + 1) = c * q + c
    BY <1>1, Z3
  <2> QED
    BY <1>1, <1>2, <2>1, <2>2
<1> QED
  BY <1>1, <1>3, <1>4

LEMMA DeltaIsNat ==
  ASSUME NEW d \in Debates, NEW cost \in Nat, total \in [Debates -> Nat]
  PROVE  CentsDelta(d, cost) \in Nat
<1>1. total[d] \in Nat /\ total[d] + cost \in Nat /\ total[d] <= total[d] + cost
  OBVIOUS
<1>2. Cent \in Nat \ {0}
  BY MoneyAssumption
<1>3. /\ total[d] \div Cent \in Nat
      /\ (total[d] + cost) \div Cent \in Nat
      /\ total[d] \div Cent <= (total[d] + cost) \div Cent
  BY <1>1, <1>2, DivMonotone
<1> QED
  BY <1>3 DEF CentsDelta

LEMMA TailFacts ==
  ASSUME NEW q \in Seq(Rounds), Len(q) > 1
  PROVE  /\ Tail(q) \in Seq(Rounds)
         /\ Tail(q) # << >>
         /\ \A k \in DOMAIN Tail(q) : k + 1 \in DOMAIN q /\ Tail(q)[k] = q[k + 1]
<1>1. q # << >> /\ Len(q) \in Nat /\ DOMAIN q = 1..Len(q)
  BY LenProperties, EmptySeq
<1>2. PICK r : r = Tail(q)
  OBVIOUS
<1>3. /\ r \in Seq(Rounds)
      /\ Len(r) = Len(q) - 1
      /\ \A k \in 1..Len(r) : r[k] = q[k + 1]
  BY <1>1, <1>2, HeadTailProperties
<1>4. DOMAIN r = 1..Len(r)
  BY <1>3, LenProperties
<1>5. r # << >>
  <2>1. Len(r) # 0
    BY <1>1, <1>3
  <2> QED
    BY <1>3, <2>1, EmptySeq
<1>6. \A k \in 1..Len(r) : k + 1 \in 1..Len(q)
  BY <1>1, <1>3
<1> QED
  BY <1>1, <1>2, <1>3, <1>4, <1>5, <1>6

\* After the head of a queue is done the rest of it is left, in its order.
LEMMA AdvanceQueue ==
  ASSUME job \in [Workers -> Job], NEW w \in Workers, Advance(w)
  PROVE  /\ job' \in [Workers -> Job]
         /\ \A x \in Workers \ {w} : job'[x] = job[x]
         /\ \/ job'[w] = Idle
            \/ /\ job'[w].pc = "scoring" /\ job'[w].behind
               /\ job'[w].queue # << >>
               /\ \A k \in DOMAIN job'[w].queue :
                    /\ k + 1 \in DOMAIN job[w].queue
                    /\ job'[w].queue[k] = job[w].queue[k + 1]
<1> DEFINE q == job[w].queue
<1>1. job[w] \in Job
  OBVIOUS
<1>2. q \in Seq(Rounds)
  BY <1>1 DEF Job
<1>3. Idle \in Job
  BY DEF Idle, Job
<1>4. CASE Len(q) <= 1
  <2>1. job' = [job EXCEPT ![w] = Idle]
    BY <1>4 DEF Advance
  <2> QED
    BY <2>1, <1>3
<1>5. CASE ~(Len(q) <= 1)
  <2>1. job' = [job EXCEPT ![w] = Scoring(Tail(q), TRUE)]
    BY <1>5 DEF Advance
  <2>3. /\ Tail(q) \in Seq(Rounds)
        /\ Tail(q) # << >>
        /\ \A k \in DOMAIN Tail(q) : k + 1 \in DOMAIN q /\ Tail(q)[k] = q[k + 1]
    <3>1. Len(q) > 1
      BY <1>2, <1>5, LenProperties
    <3> QED
      BY <1>2, <3>1, TailFacts
  <2>6. Scoring(Tail(q), TRUE) \in Job
    BY <2>3 DEF Scoring, Job
  <2>7. job' \in [Workers -> Job] /\ job'[w] = Scoring(Tail(q), TRUE)
        /\ \A x \in Workers \ {w} : job'[x] = job[x]
    BY <2>1, <2>6
  <2>8. job'[w].pc = "scoring" /\ job'[w].behind /\ job'[w].queue = Tail(q)
    BY <2>7 DEF Scoring
  <2> QED
    BY <2>3, <2>7, <2>8
<1> QED
  BY <1>4, <1>5

\* After a charge there is an increment to make, or the next debate to score.
LEMMA RollsUpQueue ==
  ASSUME job \in [Workers -> Job], NEW w \in Workers, NEW delta \in Nat, RollsUp(w, delta)
  PROVE  /\ job' \in [Workers -> Job]
         /\ \A x \in Workers \ {w} : job'[x] = job[x]
         /\ \/ Advance(w) /\ delta = 0
            \/ /\ job'[w].pc = "rolling" /\ job'[w].cents = delta
               /\ job'[w].queue = job[w].queue /\ job'[w].behind = job[w].behind
<1>1. CASE delta = 0
  <2>1. Advance(w)
    BY <1>1 DEF RollsUp
  <2> QED
    BY <1>1, <2>1, AdvanceQueue
<1>2. CASE delta # 0
  <2>1. PICK j : j = [job[w] EXCEPT !.pc = "rolling", !.cents = delta]
    OBVIOUS
  <2>2. job[w] \in Job
    OBVIOUS
  <2>3. j \in Job /\ j.pc = "rolling" /\ j.cents = delta
        /\ j.queue = job[w].queue /\ j.behind = job[w].behind
    BY <2>1, <2>2 DEF Job
  <2>4. job' = [job EXCEPT ![w] = j]
    BY <1>2, <2>1 DEF RollsUp
  <2>5. job'[w] = j
    BY <2>4
  <2> QED
    BY <2>3, <2>4, <2>5
<1> QED
  BY <1>1, <1>2

\* What a goroutine does with its own job.
WorkerStep(w) == ScorerStep(w) \/ RollUp(w) \/ RollUpFails(w) \/ Dies(w)

-----------------------------------------------------------------------------
(* Types *)

\* What an increment leaves in the row.
LEMMA IncrementedIsInt ==
  ASSUME cents \in Int \cup {None}, NEW delta \in Int
  PROVE  Amount \in Int /\ Incremented(delta) \in Int \cup {None}
<1>1. Amount \in Int
  BY DEF Amount
<1> QED
  BY <1>1 DEF Incremented

\* Staff on the costs page touch the rollup's row and nothing else.
LEMMA CostFrame ==
  ASSUME Typed, CostStep
  PROVE  /\ UNCHANGED <<status, effort, leased, round, job, total, ledger>>
         /\ cents' \in Int \cup {None} /\ lost' \in Int
<1>1. PICK row \in Int \cup {None} : Replace(row)
  BY MoneyAssumption DEF CostStep, AddCostItem, UpdateCostItem, DeleteCostItem
<1>2. cents' \in Int \cup {None}
  BY <1>1 DEF Replace
<1>3. Amount \in Int /\ Amount' \in Int
  BY <1>2 DEF Amount, Typed, TypeOK
<1>4. lost' \in Int
  BY <1>1, <1>3 DEF Replace, Typed, TypeOK
<1> QED
  BY <1>1, <1>2, <1>4 DEF Replace

\* The head of a goroutine that has an answer is a round.
LEMMA HeadIsRound ==
  ASSUME Typed, NEW w \in Workers, At(w, "scoring") \/ At(w, "applying")
  PROVE  /\ job[w].queue \in Seq(Rounds)
         /\ job[w].queue # << >>
         /\ 1 \in DOMAIN job[w].queue
         /\ Head(job[w].queue) = job[w].queue[1]
         /\ Head(job[w].queue) \in Rounds
<1>1. job[w] \in Job
  BY DEF Typed, TypeOK
<1>2. job[w].queue \in Seq(Rounds) /\ job[w].queue # << >>
  BY <1>1 DEF Job, Typed, At
<1> QED
  BY <1>2, HeadTailProperties, LenProperties

LEMMA TypedInit == Init => Typed
<1> SUFFICES ASSUME Init PROVE Typed
  OBVIOUS
<1>1. NoRound \in Round /\ Idle \in Job /\ Unscored \in Effort
  BY DEF NoRound, Round, Idle, Job, Unscored, Effort
<1>2. TypeOK
  BY <1>1 DEF Init, TypeOK, Status
<1>3. \A i \in Rounds : round[i].status = "none"
  BY DEF Init, NoRound
<1>4. \A w \in Workers : job[w].pc = "idle"
  BY DEF Init, Idle
<1> QED
  BY <1>2, <1>3, <1>4 DEF Typed

LEMMA TypedWorker ==
  ASSUME Typed, NEW w \in Workers, WorkerStep(w)
  PROVE  Typed'
<1> USE DEF Typed, TypeOK
<1>1. job[w] \in Job
  OBVIOUS
<1>2. ASSUME job' \in [Workers -> Job], \A x \in Workers \ {w} : job'[x] = job[x],
             job'[w].pc \in {"scoring", "applying"} => job'[w].queue # << >>
      PROVE  \A x \in Workers :
               job'[x].pc \in {"scoring", "applying"} => job'[x].queue # << >>
  BY <1>2
<1>3. ASSUME Advance(w)
      PROVE  /\ job' \in [Workers -> Job]
             /\ \A x \in Workers :
                  job'[x].pc \in {"scoring", "applying"} => job'[x].queue # << >>
  <2>1. job'[w].pc \in {"scoring", "applying"} => job'[w].queue # << >>
    BY <1>3, AdvanceQueue DEF Idle
  <2> QED
    BY <1>2, <1>3, <2>1, AdvanceQueue
<1>4. CASE RollUp(w)
  <2>1. cents' \in Int \cup {None}
    <3>1. job[w].cents \in Int
      BY <1>1 DEF Job
    <3> QED
      BY <1>4, <3>1, IncrementedIsInt DEF RollUp
  <2> QED
    BY <1>3, <1>4, <2>1 DEF RollUp
<1>5. CASE RollUpFails(w)
  <2>1. lost' \in Int
    BY <1>1, <1>5 DEF RollUpFails, Job
  <2> QED
    BY <1>3, <1>5, <2>1 DEF RollUpFails
<1>6. CASE Dies(w)
  <2>1. lost' \in Int
    BY <1>1, <1>6 DEF Dies, Job
  <2>2. Idle \in Job
    BY DEF Idle, Job
  <2>3. job' \in [Workers -> Job] /\ (\A x \in Workers \ {w} : job'[x] = job[x]) /\ job'[w] = Idle
    BY <1>6, <2>2 DEF Dies
  <2> QED
    BY <1>2, <1>6, <2>1, <2>3 DEF Dies, Idle
<1>7. CASE ScoreReturns(w)
  <2>1. [job[w] EXCEPT !.pc = "applying"] \in Job
    BY <1>1 DEF Job
  <2>2. job' \in [Workers -> Job] /\ (\A x \in Workers \ {w} : job'[x] = job[x])
        /\ job'[w] = [job[w] EXCEPT !.pc = "applying"]
    BY <1>7, <2>1 DEF ScoreReturns
  <2>3. job'[w].queue = job[w].queue
    BY <1>1, <2>2 DEF Job
  <2>4. job[w].queue # << >>
    BY <1>7, HeadIsRound DEF ScoreReturns
  <2> QED
    BY <1>2, <1>7, <2>2, <2>3, <2>4 DEF ScoreReturns
<1>8. CASE ScoreFails(w)
  BY <1>3, <1>8 DEF ScoreFails
<1>9. CASE ApplyFails(w)
  BY <1>3, <1>9 DEF ApplyFails
<1>10. ASSUME NEW cost \in Costs, ApplyScore(w, cost) PROVE Typed'
  <2>1. PICK i \in Rounds : i = Head(job[w].queue)
    BY <1>10, HeadIsRound DEF ApplyScore
  <2>2. PICK d \in Debates : d = round[i].debate
    BY <1>10, <2>1 DEF ApplyScore, Live
  <2>3. cost \in Nat
    BY MoneyAssumption
  <2>4. round[i] \in Round
    OBVIOUS
  <2>5. [round[i] EXCEPT !.scorer = cost] \in Round
    BY <2>3, <2>4 DEF Round
  <2>6. round' = [round EXCEPT ![i] = [round[i] EXCEPT !.scorer = cost]]
    BY <1>10, <2>1 DEF ApplyScore
  <2>7. round' \in [Rounds -> Round] /\
        \A j \in Rounds : round'[j].status = round[j].status /\ round'[j].debate = round[j].debate
    BY <2>4, <2>5, <2>6 DEF Round
  <2>8. [score |-> i, last |-> i] \in Effort
    BY DEF Effort
  <2>9. effort' \in [Debates -> Effort]
    BY <1>10, <2>1, <2>2, <2>8 DEF ApplyScore
  <2>10. total' \in [Debates -> Nat] /\ ledger' \in [Debates -> Nat]
    BY <1>10, <2>1, <2>2, <2>3 DEF ApplyScore, Charge
  <2>11. CentsDelta(d, cost) \in Nat
    BY <2>3, DeltaIsNat
  <2>12. RollsUp(w, CentsDelta(d, cost))
    BY <1>10, <2>1, <2>2 DEF ApplyScore
  <2>13. job' \in [Workers -> Job] /\ (\A x \in Workers \ {w} : job'[x] = job[x])
         /\ (Advance(w) \/ job'[w].pc = "rolling")
    BY <2>11, <2>12, RollsUpQueue
  <2>14. \A x \in Workers : job'[x].pc \in {"scoring", "applying"} => job'[x].queue # << >>
    BY <1>2, <1>3, <2>13
  <2>15. UNCHANGED <<status, leased, cents, lost>>
    BY <1>10 DEF ApplyScore
  <2> QED
    BY <2>7, <2>9, <2>10, <2>13, <2>14, <2>15
<1> QED
  BY <1>4, <1>5, <1>6, <1>7, <1>8, <1>9, <1>10 DEF WorkerStep, ScorerStep, Apply

\* Inserting, deciding and undoing rounds and closing debates keep the types.
LEMMA TypedRoundStep ==
  ASSUME Typed, RoundStep
  PROVE  Typed'
<1> USE DEF Typed, TypeOK
<1>1. ASSUME NEW h \in Handlers, NEW d \in Debates, NEW i \in Rounds, NEW cost \in Costs,
             NEW n \in {1} \cup {round[j].number + 1 : j \in Rounds},
             InsertRound(h, d, i, n, cost)
      PROVE  Typed'
  <2>1. n \in Nat
    <3>1. \A j \in Rounds : round[j].number \in Nat
      BY DEF Round
    <3> QED
      BY <3>1
  <2>2. cost \in Nat
    BY MoneyAssumption
  <2> DEFINE row == [NoRound EXCEPT !.debate = d, !.number = n,
                                    !.status = "in_review", !.cost = cost]
  <2>3. row \in Round /\ row.debate = d
    BY <2>1, <2>2 DEF NoRound, Round
  <2>4. round' = [round EXCEPT ![i] = row]
    BY <1>1 DEF InsertRound
  <2> HIDE DEF row
  <2>5. round' \in [Rounds -> Round]
        /\ \A j \in Rounds : round'[j].status # "none" => round'[j].debate \in Debates
    BY <2>3, <2>4
  <2>6. total' \in [Debates -> Nat] /\ ledger' \in [Debates -> Nat]
    BY <1>1, <2>2 DEF InsertRound, Charge
  <2>7. CentsDelta(d, cost) \in Nat
    BY <2>2, DeltaIsNat
  <2>8. h \in Workers /\ RollsUp(h, CentsDelta(d, cost))
    BY <1>1 DEF InsertRound, Workers
  <2>9. /\ job' \in [Workers -> Job]
        /\ \A x \in Workers \ {h} : job'[x] = job[x]
        /\ Advance(h) \/ job'[h].pc = "rolling"
    BY <2>7, <2>8, RollsUpQueue
  <2>10. job'[h].pc \in {"scoring", "applying"} => job'[h].queue # << >>
    BY <2>8, <2>9, AdvanceQueue DEF Idle
  <2>11. job' \in [Workers -> Job]
         /\ \A x \in Workers : job'[x].pc \in {"scoring", "applying"} => job'[x].queue # << >>
    BY <2>9, <2>10
  <2> QED
    BY <1>1, <2>5, <2>6, <2>11 DEF InsertRound
<1>2. ASSUME NEW i \in Rounds, AcceptRound(i) PROVE Typed'
  <2>1. round[i] \in Round
    OBVIOUS
  <2>2. PICK row : row = [round[i] EXCEPT !.status = "accepted"]
    OBVIOUS
  <2>3. row \in Round /\ row.debate = round[i].debate
    BY <2>1, <2>2 DEF Round
  <2>4. round[i].status # "none" /\ round' = [round EXCEPT ![i] = row]
    BY <1>2, <2>2 DEF AcceptRound
  <2>5. round' \in [Rounds -> Round]
        /\ \A j \in Rounds : round'[j].status # "none" => round'[j].debate \in Debates
    BY <2>3, <2>4
  <2>6. Scoring(<<i>>, FALSE) \in Job /\ Scoring(<<i>>, FALSE).queue = <<i>> /\ <<i>> # << >>
    BY DEF Scoring, Job
  <2>7. i \in Workers /\ job' = [job EXCEPT ![i] = Scoring(<<i>>, FALSE)]
    BY <1>2 DEF AcceptRound, Workers
  <2>8. job' \in [Workers -> Job]
        /\ \A x \in Workers : job'[x].pc \in {"scoring", "applying"} => job'[x].queue # << >>
    BY <2>6, <2>7
  <2> QED
    BY <1>2, <2>5, <2>8 DEF AcceptRound
<1>3. ASSUME NEW i \in Rounds, RejectRound(i) PROVE Typed'
  <2>1. round[i] \in Round
    OBVIOUS
  <2>2. PICK row : row = [round[i] EXCEPT !.status = "rejected"]
    OBVIOUS
  <2>3. row \in Round /\ row.debate = round[i].debate
    BY <2>1, <2>2 DEF Round
  <2>4. round[i].status # "none" /\ round' = [round EXCEPT ![i] = row]
    BY <1>3, <2>2 DEF RejectRound
  <2>5. round' \in [Rounds -> Round]
        /\ \A j \in Rounds : round'[j].status # "none" => round'[j].debate \in Debates
    BY <2>3, <2>4
  <2> QED
    BY <1>3, <2>5 DEF RejectRound
<1>4. ASSUME NEW d \in Debates, NEW i \in Rounds, UndoRounds(d, i) PROVE Typed'
  <2>1. ASSUME NEW j \in Rounds
        PROVE  round'[j] \in Round /\ (round'[j].status # "none" => round'[j].debate \in Debates)
    <3>1. round[j] \in Round
      OBVIOUS
    <3>2. CASE j \in Undone(d, i)
      <4>1. round'[j] = [round[j] EXCEPT !.status = "deleted"]
        BY <1>4, <3>2 DEF UndoRounds
      <4>2. round[j].debate = d
        BY <3>2 DEF Undone, RoundsOf
      <4> QED
        BY <3>1, <4>1, <4>2 DEF Round
    <3>3. CASE j \notin Undone(d, i)
      BY <1>4, <3>1, <3>3 DEF UndoRounds
    <3> QED
      BY <3>2, <3>3
  <2>2. round' \in [Rounds -> Round]
    BY <1>4, <2>1 DEF UndoRounds
  <2>3. Unscored \in Effort
    BY DEF Unscored, Effort
  <2>4. effort' \in [Debates -> Effort]
    BY <1>4, <2>3 DEF UndoRounds
  <2> QED
    BY <1>4, <2>1, <2>2, <2>4 DEF UndoRounds
<1>5. ASSUME NEW d \in Debates, NEW verdict \in {"approved", "abandoned"}, CloseDebate(d, verdict)
      PROVE  Typed'
  <2>1. status' \in [Debates -> Status]
    BY <1>5 DEF CloseDebate, Status
  <2> QED
    BY <1>5, <2>1 DEF CloseDebate
<1> QED
  BY <1>1, <1>2, <1>3, <1>4, <1>5 DEF RoundStep

\* A claimed batch is a queue of rounds that were claimable.
LEMMA BatchFacts ==
  ASSUME NEW q \in Batches
  PROVE  /\ q \in Seq(Rounds)
         /\ q # << >>
         /\ \A k \in DOMAIN q : q[k] \in Rounds /\ Claimable(q[k])
<1>1. PICK n \in 1..BatchSize : q \in [1..n -> Rounds]
  BY DEF Batches
<1>2. n \in Nat /\ n >= 1
  BY SweepAssumption
<1>3. q \in Seq(Rounds) /\ DOMAIN q = 1..n
  BY <1>1, <1>2
<1>4. q # << >>
  BY <1>2, <1>3
<1>5. \A k \in DOMAIN q : q[k] \in Rounds
  BY <1>1
<1>6. \A k \in DOMAIN q : Claimable(q[k])
  BY DEF Batches
<1> QED
  BY <1>3, <1>4, <1>5, <1>6

LEMMA TypedSweepStep ==
  ASSUME Typed,
         \/ \E s \in Replicas : Claim(s)
         \/ \E i \in Rounds : Settles(i)
         \/ \E d \in Debates : LeaseElapses(d)
  PROVE  Typed'
<1> USE DEF Typed, TypeOK
<1>1. ASSUME NEW s \in Replicas, Claim(s) PROVE Typed'
  <2>1. PICK q \in Batches, behind \in BOOLEAN :
          /\ job' = [job EXCEPT ![s] = Scoring(q, behind)]
          /\ leased' = [d \in Debates |->
                          leased[d] \/ \E k \in DOMAIN q : round[q[k]].debate = d]
    BY <1>1 DEF Claim
  <2>2. q \in Seq(Rounds) /\ q # << >>
    BY BatchFacts
  <2>3. Scoring(q, behind) \in Job /\ Scoring(q, behind).queue = q
    BY <2>2 DEF Scoring, Job
  <2>4. s \in Workers
    BY DEF Workers
  <2>5. job' \in [Workers -> Job]
        /\ \A x \in Workers : job'[x].pc \in {"scoring", "applying"} => job'[x].queue # << >>
    BY <2>1, <2>2, <2>3, <2>4
  <2>6. \A d \in Debates : leased'[d] \in BOOLEAN
    BY <2>1
  <2>7. leased' \in [Debates -> BOOLEAN]
    BY <2>1, <2>6
  <2> QED
    BY <1>1, <2>5, <2>7 DEF Claim
<1>2. ASSUME NEW i \in Rounds, Settles(i) PROVE Typed'
  <2>1. round[i] \in Round
    OBVIOUS
  <2>2. PICK row : row = [round[i] EXCEPT !.settled = TRUE]
    OBVIOUS
  <2>3. row \in Round /\ row.debate = round[i].debate /\ row.status = round[i].status
    BY <2>1, <2>2 DEF Round
  <2>4. round' = [round EXCEPT ![i] = row]
    BY <1>2, <2>2 DEF Settles
  <2>5. round' \in [Rounds -> Round]
        /\ \A j \in Rounds : round'[j].status # "none" => round'[j].debate \in Debates
    BY <2>3, <2>4
  <2> QED
    BY <1>2, <2>5 DEF Settles
<1>3. ASSUME NEW d \in Debates, LeaseElapses(d) PROVE Typed'
  BY <1>3 DEF LeaseElapses
<1> QED
  BY <1>1, <1>2, <1>3

LEMMA TypedNext == Typed /\ [Next]_vars => Typed'
<1> SUFFICES ASSUME Typed, [Next]_vars PROVE Typed'
  OBVIOUS
<1>1. CASE UNCHANGED vars
  BY <1>1 DEF vars, Typed, TypeOK, At
<1>2. CASE Next
  <2>1. CASE CostStep
    BY <2>1, CostFrame DEF Typed, TypeOK, At
  <2> QED
    BY <1>2, <2>1, TypedWorker, TypedRoundStep, TypedSweepStep DEF Next, WorkerStep
<1> QED
  BY <1>1, <1>2

\* Type correctness: in every reachable state the rows, goroutines and sums of
\* money have the types TypeOK states (no cents delta is ever negative).
THEOREM TypeCorrect == Spec => []TypeOK
<1>1. Typed => TypeOK
  BY DEF Typed
<1> QED
  BY <1>1, TypedInit, TypedNext, PTL DEF Spec

LEMMA AlwaysTyped == Spec => []Typed
BY TypedInit, TypedNext, PTL DEF Spec

-----------------------------------------------------------------------------
(* The ledger *)

\* Only an insert and an applied score write money, and both write it twice.
LEMMA LedgerNext == Typed /\ LedgerIsTotal /\ [Next]_vars => LedgerIsTotal'
<1> SUFFICES ASSUME Typed, LedgerIsTotal, [Next]_vars PROVE LedgerIsTotal'
  OBVIOUS
<1>1. ASSUME NEW c, NEW cost, Charge(c, cost) PROVE LedgerIsTotal'
  <2> SUFFICES ASSUME NEW d \in Debates PROVE ledger'[d] = total'[d]
    BY DEF LedgerIsTotal
  <2>1. ledger[d] = total[d]
    BY DEF LedgerIsTotal
  <2>2. CASE d = c
    BY <1>1, <2>1, <2>2 DEF Charge, Typed, TypeOK
  <2>3. CASE d # c
    BY <1>1, <2>1, <2>3 DEF Charge, Typed, TypeOK
  <2> QED
    BY <2>2, <2>3
<1>2. CASE UNCHANGED <<total, ledger>>
  BY <1>2 DEF LedgerIsTotal
<1>3. CASE UNCHANGED vars
  BY <1>2, <1>3 DEF vars
<1>4. CASE RoundStep
  <2>1. ASSUME NEW h \in Handlers, NEW d \in Debates, NEW i \in Rounds, NEW cost \in Costs,
               NEW n \in {1} \cup {round[j].number + 1 : j \in Rounds},
               InsertRound(h, d, i, n, cost)
        PROVE  LedgerIsTotal'
    BY <1>1, <2>1 DEF InsertRound
  <2>2. ASSUME NEW i \in Rounds, AcceptRound(i) \/ RejectRound(i)
        PROVE  LedgerIsTotal'
    BY <1>2, <2>2 DEF AcceptRound, RejectRound
  <2>3. ASSUME NEW d \in Debates, NEW i \in Rounds, UndoRounds(d, i)
        PROVE  LedgerIsTotal'
    BY <1>2, <2>3 DEF UndoRounds
  <2>4. ASSUME NEW d \in Debates, NEW verdict \in {"approved", "abandoned"},
               CloseDebate(d, verdict)
        PROVE  LedgerIsTotal'
    BY <1>2, <2>4 DEF CloseDebate
  <2> QED
    BY <1>4, <2>1, <2>2, <2>3, <2>4 DEF RoundStep
<1>5. ASSUME NEW w \in Workers, WorkerStep(w) PROVE LedgerIsTotal'
  <2>1. ASSUME NEW cost \in Costs, ApplyScore(w, cost) PROVE LedgerIsTotal'
    BY <1>1, <2>1 DEF ApplyScore
  <2>2. CASE ScoreReturns(w) \/ ScoreFails(w) \/ ApplyFails(w)
    BY <1>2, <2>2 DEF ScoreReturns, ScoreFails, ApplyFails
  <2>3. CASE RollUp(w) \/ RollUpFails(w) \/ Dies(w)
    BY <1>2, <2>3 DEF RollUp, RollUpFails, Dies
  <2> QED
    BY <1>5, <2>1, <2>2, <2>3 DEF WorkerStep, ScorerStep, Apply
<1>6. ASSUME NEW s \in Replicas, Claim(s) PROVE LedgerIsTotal'
  BY <1>2, <1>6 DEF Claim
<1>7. ASSUME NEW i \in Rounds, Settles(i) PROVE LedgerIsTotal'
  BY <1>2, <1>7 DEF Settles
<1>8. ASSUME NEW d \in Debates, LeaseElapses(d) PROVE LedgerIsTotal'
  BY <1>2, <1>8 DEF LeaseElapses
<1>9. CASE CostStep
  BY <1>2, <1>9, CostFrame
<1> QED
  BY <1>3, <1>4, <1>5, <1>6, <1>7, <1>8, <1>9 DEF Next, WorkerStep

\* The spend ledger, which the budget is enforced on, and total_cost_micros
\* agree in every reachable state: undo and re-scoring lose no recorded charge.
THEOREM LedgerAgrees == Spec => []LedgerIsTotal
<1>1. Init => LedgerIsTotal
  BY DEF Init, LedgerIsTotal
<1> QED
  BY <1>1, LedgerNext, AlwaysTyped, PTL DEF Spec

-----------------------------------------------------------------------------
(* The score shown *)

\* Of all steps only an applied score and undo write the effort columns.
LEMMA EffortWriters ==
  ASSUME Typed, [Next]_vars, effort' # effort
  PROVE  \/ \E w \in Workers, cost \in Costs : ApplyScore(w, cost)
         \/ \E d \in Debates, i \in Rounds : UndoRounds(d, i)
<1>1. CASE UNCHANGED vars
  BY <1>1 DEF vars
<1>2. CASE RoundStep
  BY <1>2 DEF RoundStep, InsertRound, AcceptRound, RejectRound, CloseDebate
<1>3. ASSUME NEW w \in Workers, WorkerStep(w)
      PROVE  \E cost \in Costs : ApplyScore(w, cost)
  BY <1>3 DEF WorkerStep, ScorerStep, Apply, ScoreReturns, ScoreFails, ApplyFails,
              RollUp, RollUpFails, Dies
<1>4. ASSUME NEW s \in Replicas, Claim(s) PROVE FALSE
  BY <1>4 DEF Claim
<1>5. ASSUME NEW i \in Rounds, Settles(i) PROVE FALSE
  BY <1>5 DEF Settles
<1>6. ASSUME NEW d \in Debates, LeaseElapses(d) PROVE FALSE
  BY <1>6 DEF LeaseElapses
<1>7. CASE CostStep
  BY <1>7, CostFrame
<1> QED
  BY <1>1, <1>2, <1>3, <1>4, <1>5, <1>6, <1>7 DEF Next, WorkerStep

\* What a write does to one debate's score.
LEMMA EffortStep ==
  ASSUME Typed, [Next]_vars, NEW d \in Debates, effort'[d] # effort[d]
  PROVE  \/ status[d] = "active" /\ effort'[d] = Unscored
         \/ \E w \in Workers, cost \in Costs :
              LET i == Head(job[w].queue)
              IN  /\ ApplyScore(w, cost)
                  /\ i \in Rounds /\ Live(i) /\ round[i].debate = d
                  /\ MayScore(i)
                  /\ effort'[d] = [score |-> i, last |-> i]
<1> USE DEF Typed, TypeOK
<1>1. CASE \E c \in Debates, i \in Rounds : UndoRounds(c, i)
  <2>1. PICK c \in Debates, i \in Rounds : UndoRounds(c, i)
    BY <1>1
  <2>2. c = d
    BY <2>1 DEF UndoRounds
  <2> QED
    BY <2>1, <2>2 DEF UndoRounds
<1>2. CASE \E w \in Workers, cost \in Costs : ApplyScore(w, cost)
  <2>1. PICK w \in Workers, cost \in Costs : ApplyScore(w, cost)
    BY <1>2
  <2>2. PICK i \in Rounds : i = Head(job[w].queue)
    BY <2>1, HeadIsRound DEF ApplyScore
  <2>3. Live(i) /\ effort' = IF MayScore(i)
                               THEN [effort EXCEPT ![round[i].debate] = [score |-> i, last |-> i]]
                               ELSE effort
    BY <2>1, <2>2 DEF ApplyScore
  <2>4. round[i].debate \in Debates
    BY <2>3 DEF Live
  <2>5. MayScore(i) /\ round[i].debate = d
    BY <2>3, <2>4
  <2>6. effort'[d] = [score |-> i, last |-> i]
    BY <2>3, <2>4, <2>5
  <2> QED
    BY <2>1, <2>2, <2>3, <2>5, <2>6
<1> QED
  BY <1>1, <1>2, EffortWriters

\* Scorers' answers come in any order; a score never gives way to one of an
\* earlier round, unless undo withdraws it.
THEOREM ScoresMoveForward == Spec => NewestScoreWins
<1>1. ASSUME Typed, [Next]_vars, NEW d \in Debates, effort'[d] # effort[d]
      PROVE  \/ effort'[d] = Unscored
             \/ effort[d].last = None
             \/ round[effort[d].last].number < round[effort'[d].last].number
  <2>1. CASE effort'[d] = Unscored
    BY <2>1
  <2>2. CASE effort'[d] # Unscored
    <3>1. PICK w \in Workers :
            LET i == Head(job[w].queue)
            IN  round[i].debate = d /\ MayScore(i) /\ effort'[d] = [score |-> i, last |-> i]
      BY <1>1, <2>2, EffortStep
    <3> DEFINE i == Head(job[w].queue)
    <3>2. effort'[d].last = i
      BY <3>1
    <3>3. effort[d].last = None \/ round[effort[d].last].number < round[i].number
      BY <3>1 DEF MayScore
    <3> QED
      BY <3>2, <3>3
  <2> QED
    BY <2>1, <2>2
<1>2. Typed /\ [Next]_vars =>
        [\A d \in Debates : effort'[d] # effort[d] =>
           \/ effort'[d] = Unscored
           \/ effort[d].last = None
           \/ round[effort[d].last].number < round[effort'[d].last].number]_vars
  BY <1>1
<1> QED
  BY <1>2, AlwaysTyped, PTL DEF Spec, NewestScoreWins

\* No late answer changes the score of an abandoned debate.
THEOREM AbandonedScores == Spec => AbandonedScoreFrozen
<1>1. ASSUME Typed, [Next]_vars, NEW d \in Debates, status[d] = "abandoned"
      PROVE  effort'[d] = effort[d]
  <2> SUFFICES ASSUME effort'[d] # effort[d] PROVE FALSE
    OBVIOUS
  <2>1. PICK w \in Workers : LET i == Head(job[w].queue) IN round[i].debate = d /\ MayScore(i)
    BY <1>1, EffortStep
  <2> QED
    BY <1>1, <2>1 DEF MayScore
<1>2. Typed /\ [Next]_vars =>
        [\A d \in Debates : status[d] = "abandoned" => effort'[d] = effort[d]]_vars
  BY <1>1
<1> QED
  BY <1>2, AlwaysTyped, PTL DEF Spec, AbandonedScoreFrozen

-----------------------------------------------------------------------------
(* Queues *)

\* What a round's row keeps: its debate, its settled flag, and its status
\* except that an accepted round may be deleted.
Kept(i) ==
  /\ round'[i].debate = round[i].debate
  /\ round'[i].settled = round[i].settled
  /\ round'[i].status = round[i].status

\* A goroutine's queue only loses its head, and what it has put off it does not
\* score first any more.
Follows(w) ==
  /\ \A k \in DOMAIN job'[w].queue :
       \E m \in DOMAIN job[w].queue : job'[w].queue[k] = job[w].queue[m]
  /\ job[w].queue = << >> => job'[w].queue = << >>
  /\ \A i \in Rounds : job[w].queue = <<i>> => job'[w].queue \in {<< >>, <<i>>}
  /\ \A k \in DOMAIN job'[w].queue : (k = 1 /\ ~job'[w].behind) =>
       /\ k \in DOMAIN job[w].queue /\ ~job[w].behind
       /\ job'[w].queue[k] = job[w].queue[k]

LEMMA SameFollows ==
  ASSUME NEW w, job'[w].queue = job[w].queue, job'[w].behind = job[w].behind
  PROVE  Follows(w)
BY DEF Follows

LEMMA IdleFollows ==
  ASSUME NEW w, job'[w] = Idle
  PROVE  Follows(w)
<1>1. job'[w].queue = << >> /\ DOMAIN << >> = {}
  BY DEF Idle
<1> QED
  BY <1>1 DEF Follows

LEMMA AdvanceFollows ==
  ASSUME Typed, NEW w \in Workers, Advance(w)
  PROVE  Follows(w)
<1>1. job \in [Workers -> Job]
  BY DEF Typed, TypeOK
<1>2. CASE job'[w] = Idle
  BY <1>2, IdleFollows
<1>3. CASE job'[w] # Idle
  <2>1. /\ job'[w].behind
        /\ \A k \in DOMAIN job'[w].queue :
             k + 1 \in DOMAIN job[w].queue /\ job'[w].queue[k] = job[w].queue[k + 1]
    BY <1>1, <1>3, AdvanceQueue
  <2>2. Len(job[w].queue) <= 1 => job'[w] = Idle
    BY <1>1 DEF Advance
  <2>3. Len(<< >>) = 0 /\ \A i \in Rounds : Len(<<i>>) = 1
    OBVIOUS
  <2>4. ~(Len(job[w].queue) <= 1)
    BY <1>3, <2>2
  <2>5. job[w].queue # << >>
    BY <2>3, <2>4
  <2>6. ASSUME NEW i \in Rounds PROVE job[w].queue # <<i>>
    <3>1. PICK one : one = <<i>>
      OBVIOUS
    <3>2. Len(one) <= 1
      BY <3>1
    <3>3. job[w].queue # one
      BY <2>4, <3>2
    <3> QED
      BY <3>1, <3>3
  <2> QED
    BY <2>1, <2>5, <2>6 DEF Follows
<1> QED
  BY <1>2, <1>3

LEMMA RollsUpFollows ==
  ASSUME Typed, NEW w \in Workers, NEW delta \in Nat, RollsUp(w, delta)
  PROVE  Follows(w) /\ \A x \in Workers \ {w} : job'[x] = job[x]
<1>1. job \in [Workers -> Job]
  BY DEF Typed, TypeOK
<1> QED
  BY <1>1, RollsUpQueue, AdvanceFollows, SameFollows

\* A goroutine's own step takes nothing new into its queue, leaves the other
\* goroutines alone and no round's row other than in its costs.
LEMMA WorkerFrame ==
  ASSUME Typed, NEW w \in Workers, WorkerStep(w)
  PROVE  /\ \A i \in Rounds : Kept(i)
         /\ leased' = leased
         /\ \A x \in Workers \ {w} : job'[x] = job[x]
         /\ Follows(w)
         /\ job[w].pc # "idle"
<1> USE DEF Typed, TypeOK
<1>1. job[w] \in Job
  OBVIOUS
<1>2. round' = round => \A i \in Rounds : Kept(i)
  BY DEF Kept
<1>3. ASSUME Advance(w)
      PROVE  (\A x \in Workers \ {w} : job'[x] = job[x]) /\ Follows(w)
  BY <1>3, AdvanceQueue, AdvanceFollows
<1>4. CASE RollUp(w) \/ RollUpFails(w) \/ ScoreFails(w) \/ ApplyFails(w)
  BY <1>2, <1>3, <1>4 DEF RollUp, RollUpFails, ScoreFails, ApplyFails, At
<1>5. CASE Dies(w)
  <2>1. job'[w] = Idle /\ \A x \in Workers \ {w} : job'[x] = job[x]
    BY <1>5 DEF Dies
  <2> QED
    BY <1>2, <1>5, <2>1, IdleFollows DEF Dies, At
<1>6. CASE ScoreReturns(w)
  <2>1. PICK j : j = [job[w] EXCEPT !.pc = "applying"]
    OBVIOUS
  <2>2. j.queue = job[w].queue /\ j.behind = job[w].behind
    BY <1>1, <2>1 DEF Job
  <2>3. job' = [job EXCEPT ![w] = j]
    BY <1>6, <2>1 DEF ScoreReturns
  <2>4. job'[w].queue = job[w].queue /\ job'[w].behind = job[w].behind
        /\ \A x \in Workers \ {w} : job'[x] = job[x]
    BY <2>2, <2>3
  <2> QED
    BY <1>2, <1>6, <2>4, SameFollows DEF ScoreReturns, At
<1>7. ASSUME NEW cost \in Costs, ApplyScore(w, cost)
      PROVE  /\ \A i \in Rounds : Kept(i)
             /\ leased' = leased
             /\ Follows(w)
             /\ \A x \in Workers \ {w} : job'[x] = job[x]
             /\ job[w].pc # "idle"
  <2>1. PICK i \in Rounds : i = Head(job[w].queue)
    BY <1>7, HeadIsRound DEF ApplyScore
  <2>2. PICK row : row = [round[i] EXCEPT !.scorer = cost]
    OBVIOUS
  <2>3. round[i] \in Round
    OBVIOUS
  <2>4. row.debate = round[i].debate /\ row.settled = round[i].settled
        /\ row.status = round[i].status
    BY <2>2, <2>3 DEF Round
  <2>5. round' = [round EXCEPT ![i] = row]
    BY <1>7, <2>1, <2>2 DEF ApplyScore
  <2>6. \A j \in Rounds : Kept(j)
    BY <2>4, <2>5 DEF Kept
  <2>7. PICK d \in Debates : d = round[i].debate
    BY <1>7, <2>1 DEF ApplyScore, Live
  <2>8. CentsDelta(d, cost) \in Nat
    BY DeltaIsNat, MoneyAssumption
  <2>9. RollsUp(w, CentsDelta(d, cost))
    BY <1>7, <2>1, <2>7 DEF ApplyScore
  <2>10. Follows(w) /\ \A x \in Workers \ {w} : job'[x] = job[x]
    BY <2>8, <2>9, RollsUpFollows
  <2> QED
    BY <1>7, <2>6, <2>10 DEF ApplyScore, At
<1>8. CASE Apply(w)
  BY <1>7, <1>8 DEF Apply
<1> QED
  BY <1>4, <1>5, <1>6, <1>8 DEF WorkerStep, ScorerStep

\* CreateRound's goroutine stays without a queue of its own.
LEMMA InsertFollows ==
  ASSUME Typed, NEW h \in Handlers, NEW d \in Debates, NEW i \in Rounds, NEW cost \in Costs,
         NEW n, InsertRound(h, d, i, n, cost)
  PROVE  Follows(h) /\ \A x \in Workers \ {h} : job'[x] = job[x]
<1>1. CentsDelta(d, cost) \in Nat
  BY DeltaIsNat, MoneyAssumption DEF Typed, TypeOK
<1>2. h \in Workers /\ RollsUp(h, CentsDelta(d, cost))
  BY DEF InsertRound, Workers
<1> QED
  BY <1>1, <1>2, RollsUpFollows

LEMMA QueueElements ==
  ASSUME Typed, NEW w \in Workers, NEW k \in DOMAIN job[w].queue
  PROVE  job[w].queue[k] \in Rounds
<1>1. job[w].queue \in Seq(Rounds)
  BY DEF Typed, TypeOK, Job
<1> QED
  BY <1>1, ElementOfSeq, LenProperties

LEMMA QueueNext == Typed /\ QueueAccepted /\ [Next]_vars => QueueAccepted'
<1> SUFFICES ASSUME Typed, QueueAccepted, [Next]_vars PROVE QueueAccepted'
  OBVIOUS
<1>0. Typed'
  BY TypedNext
\* The steps that write a status in a way the invariant survives.
<1>1. ASSUME \A w \in Workers : \A k \in DOMAIN job'[w].queue :
               \E m \in DOMAIN job[w].queue : job'[w].queue[k] = job[w].queue[m],
             \A i \in Rounds : round[i].status \in {"accepted", "deleted"}
                                 => round'[i].status \in {"accepted", "deleted"}
      PROVE  QueueAccepted'
  <2> SUFFICES ASSUME NEW w \in Workers, NEW k \in DOMAIN job'[w].queue
               PROVE  round'[job'[w].queue[k]].status \in {"accepted", "deleted"}
    BY DEF QueueAccepted, Workers
  <2>1. PICK m \in DOMAIN job[w].queue : job'[w].queue[k] = job[w].queue[m]
    BY <1>1
  <2>2. job[w].queue[m] \in Rounds
    BY QueueElements
  <2> QED
    BY <1>1, <2>1, <2>2 DEF QueueAccepted
<1>2. ASSUME job' = job, \A i \in Rounds : round[i].status \in {"accepted", "deleted"}
                                             => round'[i].status \in {"accepted", "deleted"}
      PROVE  QueueAccepted'
  BY <1>1, <1>2
<1>3. CASE UNCHANGED vars
  BY <1>2, <1>3 DEF vars
<1>4. ASSUME NEW w \in Workers, WorkerStep(w) PROVE QueueAccepted'
  <2>1. \A x \in Workers : \A k \in DOMAIN job'[x].queue :
          \E m \in DOMAIN job[x].queue : job'[x].queue[k] = job[x].queue[m]
    BY <1>4, WorkerFrame DEF Follows
  <2>2. \A i \in Rounds : round'[i].status = round[i].status
    BY <1>4, WorkerFrame DEF Kept
  <2> QED
    BY <1>1, <2>1, <2>2
<1>5. ASSUME NEW h \in Handlers, NEW d \in Debates, NEW i \in Rounds, NEW cost \in Costs,
             NEW n \in {1} \cup {round[j].number + 1 : j \in Rounds},
             InsertRound(h, d, i, n, cost)
      PROVE  QueueAccepted'
  <2>1. \A j \in Rounds : round[j].status \in {"accepted", "deleted"} => round'[j] = round[j]
    BY <1>5 DEF InsertRound, Typed, TypeOK
  <2>2. Follows(h) /\ \A x \in Workers \ {h} : job'[x] = job[x]
    BY <1>5, InsertFollows
  <2>3. \A x \in Workers : \A k \in DOMAIN job'[x].queue :
          \E m \in DOMAIN job[x].queue : job'[x].queue[k] = job[x].queue[m]
    BY <2>2 DEF Follows
  <2> QED
    BY <1>1, <2>1, <2>3
<1>6. ASSUME NEW i \in Rounds, AcceptRound(i) PROVE QueueAccepted'
  <2> SUFFICES ASSUME NEW w \in Workers, NEW k \in DOMAIN job'[w].queue
               PROVE  round'[job'[w].queue[k]].status \in {"accepted", "deleted"}
    BY DEF QueueAccepted, Workers
  <2>1. round[i] \in Round /\ round' = [round EXCEPT ![i] = [round[i] EXCEPT !.status = "accepted"]]
    BY <1>6 DEF AcceptRound, Typed, TypeOK
  <2>2. round'[i].status = "accepted" /\ \A j \in Rounds \ {i} : round'[j] = round[j]
    BY <2>1 DEF Round, Typed, TypeOK
  <2>3. CASE w = i
    <3>1. job'[i].queue = <<i>>
      BY <1>6 DEF AcceptRound, Scoring, Typed, TypeOK, Workers
    <3> QED
      BY <2>2, <2>3, <3>1
  <2>4. CASE w # i
    <3>1. job'[w] = job[w]
      BY <1>6, <2>4 DEF AcceptRound, Typed, TypeOK
    <3>2. job[w].queue[k] \in Rounds
      BY <3>1, QueueElements
    <3> QED
      BY <2>2, <3>1, <3>2 DEF QueueAccepted
  <2> QED
    BY <2>3, <2>4
<1>7. ASSUME NEW i \in Rounds, RejectRound(i) PROVE QueueAccepted'
  BY <1>2, <1>7 DEF RejectRound, Typed, TypeOK
<1>8. ASSUME NEW d \in Debates, NEW i \in Rounds, UndoRounds(d, i) PROVE QueueAccepted'
  <2>1. ASSUME NEW j \in Rounds, round[j].status \in {"accepted", "deleted"}
        PROVE  round'[j].status \in {"accepted", "deleted"}
    <3>1. round[j] \in Round
      BY DEF Typed, TypeOK
    <3>2. CASE j \in Undone(d, i)
      <4>1. round'[j] = [round[j] EXCEPT !.status = "deleted"]
        BY <1>8, <3>2 DEF UndoRounds
      <4> QED
        BY <3>1, <4>1 DEF Round
    <3>3. CASE j \notin Undone(d, i)
      BY <1>8, <2>1, <3>3 DEF UndoRounds
    <3> QED
      BY <3>2, <3>3
  <2> QED
    BY <1>2, <1>8, <2>1 DEF UndoRounds
<1>9. ASSUME NEW d \in Debates, NEW verdict \in {"approved", "abandoned"}, CloseDebate(d, verdict)
      PROVE  QueueAccepted'
  BY <1>2, <1>9 DEF CloseDebate
<1>10. ASSUME NEW s \in Replicas, Claim(s) PROVE QueueAccepted'
  <2> SUFFICES ASSUME NEW w \in Workers, NEW k \in DOMAIN job'[w].queue
               PROVE  round'[job'[w].queue[k]].status \in {"accepted", "deleted"}
    BY DEF QueueAccepted, Workers
  <2>1. PICK q \in Batches, behind \in BOOLEAN : job' = [job EXCEPT ![s] = Scoring(q, behind)]
    BY <1>10 DEF Claim
  <2>2. round' = round
    BY <1>10 DEF Claim
  <2>3. CASE w = s
    <3>1. job'[s].queue = q
      BY <2>1 DEF Scoring, Typed, TypeOK, Workers
    <3>2. round[q[k]].status = "accepted"
      BY <2>3, <3>1, BatchFacts DEF Claimable, Stale, IsLatestAccepted, AcceptedOf
    <3> QED
      BY <2>2, <2>3, <3>1, <3>2
  <2>4. CASE w # s
    <3>1. job'[w] = job[w]
      BY <2>1, <2>4 DEF Typed, TypeOK
    <3> QED
      BY <2>2, <3>1 DEF QueueAccepted
  <2> QED
    BY <2>3, <2>4
<1>11. ASSUME NEW i \in Rounds, Settles(i) PROVE QueueAccepted'
  <2>1. round[i] \in Round
    BY DEF Typed, TypeOK
  <2>2. \A j \in Rounds : round'[j].status = round[j].status
    BY <1>11, <2>1 DEF Settles, Typed, TypeOK, Round
  <2> QED
    BY <1>2, <1>11, <2>2 DEF Settles
<1>12. ASSUME NEW d \in Debates, LeaseElapses(d) PROVE QueueAccepted'
  BY <1>2, <1>12 DEF LeaseElapses
<1>13. CASE CostStep
  BY <1>2, <1>13, CostFrame
<1> QED
  BY <1>3, <1>4, <1>5, <1>6, <1>7, <1>8, <1>9, <1>10, <1>11, <1>12, <1>13
     DEF Next, RoundStep, WorkerStep

LEMMA AlwaysQueued == Spec => []QueueAccepted
<1>1. Init => QueueAccepted
  BY DEF Init, QueueAccepted, Idle
<1> QED
  BY <1>1, QueueNext, AlwaysTyped, PTL DEF Spec

-----------------------------------------------------------------------------
(* What becomes of a round that was accepted *)

\* An accepted round stays accepted and in its debate until it is undone.
LEMMA AcceptedStays ==
  ASSUME Typed, [Next]_vars, NEW i \in Rounds, round[i].status = "accepted"
  PROVE  \/ round'[i].status = "accepted" /\ round'[i].debate = round[i].debate
         \/ \E from \in Rounds : UndoRounds(round[i].debate, from)
<1> SUFFICES ASSUME \A from \in Rounds : ~UndoRounds(round[i].debate, from)
             PROVE  round'[i].status = "accepted" /\ round'[i].debate = round[i].debate
  OBVIOUS
<1> USE DEF Typed, TypeOK
<1> DEFINE Same == round'[i].status = "accepted" /\ round'[i].debate = round[i].debate
<1>1. round' = round => Same
  OBVIOUS
<1>2. CASE UNCHANGED vars
  BY <1>1, <1>2 DEF vars
<1>3. ASSUME NEW w \in Workers, WorkerStep(w) PROVE Same
  BY <1>3, WorkerFrame DEF Kept
<1>4. ASSUME NEW h \in Handlers, NEW d \in Debates, NEW j \in Rounds, NEW cost \in Costs,
             NEW n \in {1} \cup {round[k].number + 1 : k \in Rounds},
             InsertRound(h, d, j, n, cost)
      PROVE  Same
  BY <1>4 DEF InsertRound
<1>5. ASSUME NEW j \in Rounds, AcceptRound(j) \/ RejectRound(j) PROVE Same
  BY <1>5 DEF AcceptRound, RejectRound
<1>6. ASSUME NEW d \in Debates, NEW from \in Rounds, UndoRounds(d, from)
      PROVE  Same
  <2>1. CASE i \in Undone(d, from)
    <3>1. round[i].debate = d
      BY <2>1 DEF Undone, RoundsOf
    <3> QED
      BY <1>6, <3>1
  <2>2. CASE i \notin Undone(d, from)
    BY <1>6, <2>2 DEF UndoRounds
  <2> QED
    BY <2>1, <2>2
<1>7. ASSUME NEW d \in Debates, NEW verdict \in {"approved", "abandoned"}, CloseDebate(d, verdict)
      PROVE  Same
  BY <1>1, <1>7 DEF CloseDebate
<1>8. ASSUME NEW s \in Replicas, Claim(s) PROVE Same
  BY <1>1, <1>8 DEF Claim
<1>9. ASSUME NEW j \in Rounds, Settles(j) PROVE Same
  <2>1. round[j] \in Round
    OBVIOUS
  <2> QED
    BY <1>9, <2>1 DEF Settles, Round
<1>10. ASSUME NEW d \in Debates, LeaseElapses(d) PROVE Same
  BY <1>1, <1>10 DEF LeaseElapses
<1>11. CASE RoundStep
  BY <1>4, <1>5, <1>6, <1>7, <1>11 DEF RoundStep
<1>12. CASE CostStep
  BY <1>1, <1>12, CostFrame
<1> QED
  BY <1>2, <1>3, <1>8, <1>9, <1>10, <1>11, <1>12 DEF Next, WorkerStep

LEMMA ScoreNext ==
  Typed /\ QueueAccepted /\ ScoreOfAcceptedRound /\ [Next]_vars => ScoreOfAcceptedRound'
<1> SUFFICES ASSUME Typed, QueueAccepted, ScoreOfAcceptedRound, [Next]_vars, NEW d \in Debates
             PROVE  /\ effort'[d].score = effort'[d].last
                    /\ effort'[d].last # None => effort'[d].last \in AcceptedOf(d)'
  BY DEF ScoreOfAcceptedRound
<1>1. ASSUME NEW i \in Rounds, round'[i].status = "accepted", round'[i].debate = d
      PROVE  i \in AcceptedOf(d)'
  BY <1>1 DEF AcceptedOf, RoundsOf, Live
<1>2. Unscored.score = None /\ Unscored.last = None
  BY DEF Unscored
<1>3. CASE effort'[d] = effort[d]
  <2>1. effort'[d].score = effort'[d].last
    BY <1>3 DEF ScoreOfAcceptedRound
  <2>2. ASSUME effort[d].last # None PROVE effort[d].last \in AcceptedOf(d)'
    <3>1. PICK i \in Rounds : i = effort[d].last
      BY <2>2 DEF Typed, TypeOK, Effort
    <3>2. round[i].status = "accepted" /\ round[i].debate = d
      BY <2>2, <3>1 DEF ScoreOfAcceptedRound, AcceptedOf, RoundsOf
    <3>3. ~ \E from \in Rounds : UndoRounds(d, from)
      BY <1>2, <1>3, <2>2 DEF UndoRounds, Typed, TypeOK
    <3>4. round'[i].status = "accepted" /\ round'[i].debate = d
      BY <3>2, <3>3, AcceptedStays
    <3> QED
      BY <1>1, <3>1, <3>4
  <2> QED
    BY <1>3, <2>1, <2>2
<1>4. CASE effort'[d] = Unscored
  BY <1>2, <1>4
<1>5. CASE effort'[d] # effort[d] /\ effort'[d] # Unscored
  <2>1. PICK w \in Workers, cost \in Costs :
          LET i == Head(job[w].queue)
          IN  /\ ApplyScore(w, cost)
              /\ i \in Rounds /\ Live(i) /\ round[i].debate = d
              /\ effort'[d] = [score |-> i, last |-> i]
    BY <1>5, EffortStep
  <2>2. PICK i \in Rounds : i = Head(job[w].queue)
    BY <2>1, HeadIsRound DEF ApplyScore
  <2>3. i = job[w].queue[1] /\ 1 \in DOMAIN job[w].queue
    BY <2>1, <2>2, HeadIsRound DEF ApplyScore
  <2>4. round[i].status = "accepted"
    BY <2>1, <2>2, <2>3 DEF QueueAccepted, Live
  <2>5. WorkerStep(w)
    BY <2>1 DEF WorkerStep, ScorerStep, Apply
  <2>6. round'[i].status = "accepted" /\ round'[i].debate = d
    BY <2>1, <2>2, <2>4, <2>5, WorkerFrame DEF Kept
  <2>7. effort'[d].score = i /\ effort'[d].last = i
    BY <2>1, <2>2
  <2> QED
    BY <1>1, <2>6, <2>7
<1> QED
  BY <1>3, <1>4, <1>5

\* The score shown always rates an accepted round of its own debate that has
\* not been undone, the one last_scored_round_id names.
THEOREM ScoreAccountedFor == Spec => []ScoreOfAcceptedRound
<1>1. Init => ScoreOfAcceptedRound
  BY DEF Init, ScoreOfAcceptedRound, Unscored
<1> QED
  BY <1>1, ScoreNext, AlwaysTyped, AlwaysQueued, PTL DEF Spec

-----------------------------------------------------------------------------
(* One call per round *)

LEMMA KindsDisjoint ==
  /\ \A i \in Rounds : i \in Workers /\ i \notin Replicas /\ i \notin Handlers
  /\ \A s \in Replicas : s \in Workers /\ s \notin Rounds /\ s \notin Handlers
  /\ \A h \in Handlers : h \in Workers /\ h \notin Rounds /\ h \notin Replicas
BY WorkersAssumption DEF Workers

\* A decision changes nothing of a round's row but its status.
LEMMA DecisionFrame ==
  ASSUME Typed, NEW i \in Rounds,
         \/ AcceptRound(i) \/ RejectRound(i)
         \/ \E d \in Debates : UndoRounds(d, i)
  PROVE  \A j \in Rounds :
           /\ round'[j].debate = round[j].debate
           /\ round'[j].settled = round[j].settled
           /\ round'[j].status \in {"none", "in_review"}
                => round[j].status = round'[j].status
<1> SUFFICES ASSUME NEW j \in Rounds
             PROVE  /\ round'[j].debate = round[j].debate
                    /\ round'[j].settled = round[j].settled
                    /\ round'[j].status \in {"none", "in_review"}
                         => round[j].status = round'[j].status
  OBVIOUS
<1>1. round[j] \in Round /\ round[i] \in Round
  BY DEF Typed, TypeOK
<1>2. CASE AcceptRound(i)
  BY <1>1, <1>2 DEF AcceptRound, Round, Typed, TypeOK
<1>3. CASE RejectRound(i)
  BY <1>1, <1>3 DEF RejectRound, Round, Typed, TypeOK
<1>4. ASSUME NEW d \in Debates, UndoRounds(d, i)
      PROVE  round'[j] = round[j] \/ round'[j] = [round[j] EXCEPT !.status = "deleted"]
  BY <1>4 DEF UndoRounds
<1>5. CASE \E d \in Debates : UndoRounds(d, i)
  <2>1. round'[j] = round[j] \/ round'[j] = [round[j] EXCEPT !.status = "deleted"]
    BY <1>4, <1>5
  <2> QED
    BY <1>1, <2>1 DEF Round
<1> QED
  BY <1>2, <1>3, <1>5

LEMMA OwnNext == Typed /\ OwnScorer /\ [Next]_vars => OwnScorer'
<1> SUFFICES ASSUME Typed, OwnScorer, [Next]_vars PROVE OwnScorer'
  OBVIOUS
<1>1. ASSUME \A w \in Rounds \cup Handlers : job'[w] = job[w],
             \A j \in Rounds :
               /\ round'[j].settled = round[j].settled
               /\ round'[j].status \in {"none", "in_review"} => round[j].status = round'[j].status
      PROVE  OwnScorer'
  <2> USE DEF OwnScorer, At
  <2>1. \A i \in Rounds : job'[i].queue = << >> \/ job'[i].queue = <<i>>
    BY <1>1
  <2>2. \A i \in Rounds : job'[i].pc # "idle" => ~round'[i].settled
    BY <1>1
  <2>3. \A i \in Rounds : round'[i].status \in {"none", "in_review"} => ~round'[i].settled
    BY <1>1
  <2>4. \A h \in Handlers : job'[h].queue = << >>
    BY <1>1
  <2> QED
    BY <2>1, <2>2, <2>3, <2>4
<1>2. CASE UNCHANGED vars
  BY <1>1, <1>2 DEF vars
<1>3. ASSUME NEW w \in Workers, WorkerStep(w) PROVE OwnScorer'
  <2>1. \A i \in Rounds : round'[i].settled = round[i].settled /\ round'[i].status = round[i].status
    BY <1>3, WorkerFrame DEF Kept
  <2>2. \A x \in Workers \ {w} : job'[x] = job[x]
    BY <1>3, WorkerFrame
  <2>3. job[w].pc # "idle"
    BY <1>3, WorkerFrame
  <2>4. ASSUME NEW i \in Rounds
        PROVE  /\ job'[i].queue = << >> \/ job'[i].queue = <<i>>
               /\ job'[i].pc # "idle" => ~round'[i].settled
    <3>1. CASE i = w
      <4>1. job[w].queue = << >> \/ job[w].queue = <<i>>
        BY <3>1 DEF OwnScorer
      <4>2. job'[w].queue = << >> \/ job'[w].queue = <<i>>
        BY <1>3, <4>1, WorkerFrame DEF Follows
      <4> QED
        BY <2>1, <2>3, <3>1, <4>2 DEF OwnScorer, At
    <3>2. CASE i # w
      BY <2>1, <2>2, <3>2, KindsDisjoint DEF OwnScorer, At
    <3> QED
      BY <3>1, <3>2
  <2>5. ASSUME NEW h \in Handlers PROVE job'[h].queue = << >>
    <3>1. job[h].queue = << >>
      BY DEF OwnScorer
    <3>2. CASE h = w
      BY <1>3, <3>1, <3>2, WorkerFrame DEF Follows
    <3>3. CASE h # w
      BY <2>2, <3>1, <3>3, KindsDisjoint
    <3> QED
      BY <3>2, <3>3
  <2>6. \A i \in Rounds : round'[i].status \in {"none", "in_review"} => ~round'[i].settled
    BY <2>1 DEF OwnScorer
  <2> QED
    BY <2>4, <2>5, <2>6 DEF OwnScorer, At
<1>4. ASSUME NEW h \in Handlers, NEW d \in Debates, NEW i \in Rounds, NEW cost \in Costs,
             NEW n \in {1} \cup {round[j].number + 1 : j \in Rounds},
             InsertRound(h, d, i, n, cost)
      PROVE  OwnScorer'
  <2>1. \A j \in Rounds \ {i} : round'[j] = round[j]
    BY <1>4 DEF InsertRound, Typed, TypeOK
  <2>2. round'[i].settled = FALSE
    BY <1>4 DEF InsertRound, NoRound, Typed, TypeOK
  <2>3. job'[h].queue = << >> /\ \A x \in Workers \ {h} : job'[x] = job[x]
    BY <1>4, InsertFollows DEF Follows, OwnScorer
  <2>4. \A j \in Rounds : job'[j] = job[j]
    BY <2>3, KindsDisjoint
  <2>5. \A j \in Rounds : round'[j].settled => round'[j] = round[j]
    BY <2>1, <2>2
  <2>6. \A j \in Rounds : job'[j].pc # "idle" => ~round'[j].settled
    BY <2>4, <2>5 DEF OwnScorer, At
  <2>7. \A j \in Rounds : round'[j].status \in {"none", "in_review"} => ~round'[j].settled
    BY <2>5 DEF OwnScorer
  <2>8. \A g \in Handlers : job'[g].queue = << >>
    BY <2>3, KindsDisjoint DEF OwnScorer
  <2> QED
    BY <2>4, <2>6, <2>7, <2>8 DEF OwnScorer, At
<1>5. ASSUME NEW i \in Rounds, AcceptRound(i) PROVE OwnScorer'
  <2>1. \A j \in Rounds : /\ round'[j].settled = round[j].settled
                          /\ round'[j].status \in {"none", "in_review"}
                               => round[j].status = round'[j].status
    BY <1>5, DecisionFrame
  <2>2. job'[i].queue = <<i>> /\ \A x \in Workers \ {i} : job'[x] = job[x]
    BY <1>5, KindsDisjoint DEF AcceptRound, Scoring, Typed, TypeOK
  <2>3. ~round[i].settled
    BY <1>5 DEF AcceptRound, OwnScorer
  <2>4. \A j \in Rounds : job'[j].queue = << >> \/ job'[j].queue = <<j>>
    BY <2>2, KindsDisjoint DEF OwnScorer
  <2>5. \A j \in Rounds : job'[j].pc # "idle" => ~round'[j].settled
    BY <2>1, <2>2, <2>3, KindsDisjoint DEF OwnScorer, At
  <2>6. \A j \in Rounds : round'[j].status \in {"none", "in_review"} => ~round'[j].settled
    BY <2>1 DEF OwnScorer
  <2>7. \A h \in Handlers : job'[h].queue = << >>
    BY <2>2, KindsDisjoint DEF OwnScorer
  <2> QED
    BY <2>4, <2>5, <2>6, <2>7 DEF OwnScorer, At
<1>6. ASSUME NEW i \in Rounds, RejectRound(i) PROVE OwnScorer'
  BY <1>1, <1>6, DecisionFrame DEF RejectRound
<1>7. ASSUME NEW d \in Debates, NEW i \in Rounds, UndoRounds(d, i) PROVE OwnScorer'
  <2>1. job' = job
    BY <1>7 DEF UndoRounds
  <2> QED
    BY <1>1, <1>7, <2>1, DecisionFrame
<1>8. ASSUME NEW d \in Debates, NEW verdict \in {"approved", "abandoned"}, CloseDebate(d, verdict)
      PROVE  OwnScorer'
  BY <1>1, <1>8 DEF CloseDebate
<1>9. ASSUME NEW s \in Replicas, Claim(s) PROVE OwnScorer'
  <2>1. \A w \in Workers \ {s} : job'[w] = job[w]
    BY <1>9 DEF Claim, Typed, TypeOK
  <2> QED
    BY <1>1, <1>9, <2>1, KindsDisjoint DEF Claim
<1>10. ASSUME NEW i \in Rounds, Settles(i) PROVE OwnScorer'
  <2>1. round[i] \in Round
    BY DEF Typed, TypeOK
  <2>2. \A j \in Rounds \ {i} : round'[j] = round[j]
    BY <1>10 DEF Settles, Typed, TypeOK
  <2>3. round'[i].status = "accepted" /\ job' = job /\ job[i].pc = "idle"
    BY <1>10, <2>1 DEF Settles, Typed, TypeOK, Round, At
  <2>4. \A j \in Rounds : job'[j].pc # "idle" => ~round'[j].settled
    BY <2>2, <2>3 DEF OwnScorer, At
  <2>5. \A j \in Rounds : round'[j].status \in {"none", "in_review"} => ~round'[j].settled
    BY <2>2, <2>3 DEF OwnScorer
  <2> QED
    BY <2>3, <2>4, <2>5 DEF OwnScorer, At
<1>11. ASSUME NEW d \in Debates, LeaseElapses(d) PROVE OwnScorer'
  BY <1>1, <1>11 DEF LeaseElapses
<1>12. CASE CostStep
  BY <1>1, <1>12, CostFrame
<1> QED
  BY <1>2, <1>3, <1>4, <1>5, <1>6, <1>7, <1>8, <1>9, <1>10, <1>11, <1>12
     DEF Next, RoundStep, WorkerStep

LEMMA LeaseNext ==
  Typed /\ QueueAccepted /\ LeaseHeld /\ [Next]_vars => LeaseHeld'
<1> SUFFICES ASSUME Typed, QueueAccepted, LeaseHeld, [Next]_vars PROVE LeaseHeld'
  OBVIOUS
\* Queues that gain nothing, over rows that keep their debate and settledness.
<1>1. ASSUME \A s \in Replicas : Follows(s),
             \A j \in Rounds : round[j].status \in {"accepted", "deleted"} =>
               /\ round'[j].debate = round[j].debate
               /\ round[j].settled => round'[j].settled,
             \A s \in Replicas : \A k \in DOMAIN job[s].queue :
               Prompt(s, k) => leased'[round[job[s].queue[k]].debate]
      PROVE  LeaseHeld'
  <2>1. ASSUME NEW s \in Replicas, NEW m \in DOMAIN job[s].queue
        PROVE  /\ round'[job[s].queue[m]].debate = round[job[s].queue[m]].debate
               /\ round'[job[s].queue[m]].settled
    <3>1. PICK j \in Rounds : j = job[s].queue[m]
      BY QueueElements, KindsDisjoint
    <3>2. round[j].status \in {"accepted", "deleted"}
      BY <3>1, KindsDisjoint DEF QueueAccepted
    <3>3. round[j].settled
      BY <3>1 DEF LeaseHeld
    <3> QED
      BY <1>1, <3>1, <3>2, <3>3
  <2>2. ASSUME NEW s \in Replicas, NEW k \in DOMAIN job'[s].queue
        PROVE  round'[job'[s].queue[k]].settled
    <3>1. PICK m \in DOMAIN job[s].queue : job'[s].queue[k] = job[s].queue[m]
      BY <1>1 DEF Follows
    <3> QED
      BY <2>1, <3>1
  <2>3. ASSUME NEW s \in Replicas, NEW k \in DOMAIN job'[s].queue, Prompt(s, k)'
        PROVE  /\ k \in DOMAIN job[s].queue /\ Prompt(s, k)
               /\ round'[job'[s].queue[k]].debate = round[job[s].queue[k]].debate
    <3>1. /\ k \in DOMAIN job[s].queue /\ Prompt(s, k)
          /\ job'[s].queue[k] = job[s].queue[k]
      BY <1>1, <2>3 DEF Follows, Prompt
    <3> QED
      BY <2>1, <3>1
  <2>4. ASSUME NEW s \in Replicas, NEW k \in DOMAIN job'[s].queue, Prompt(s, k)'
        PROVE  leased'[round'[job'[s].queue[k]].debate]
    BY <1>1, <2>3, <2>4
  <2>5. ASSUME NEW s \in Replicas, NEW t \in Replicas, s # t,
               NEW k \in DOMAIN job'[s].queue, NEW m \in DOMAIN job'[t].queue,
               Prompt(s, k)', Prompt(t, m)'
        PROVE  round'[job'[s].queue[k]].debate # round'[job'[t].queue[m]].debate
    BY <2>3, <2>5 DEF LeaseHeld
  <2> QED
    BY <2>2, <2>4, <2>5 DEF LeaseHeld
<1>2. ASSUME \A s \in Replicas : job'[s] = job[s],
             leased' = leased,
             \A j \in Rounds : round[j].status \in {"accepted", "deleted"} =>
               /\ round'[j].debate = round[j].debate
               /\ round[j].settled => round'[j].settled
      PROVE  LeaseHeld'
  <2>1. \A s \in Replicas : \A k \in DOMAIN job[s].queue :
          Prompt(s, k) => leased[round[job[s].queue[k]].debate]
    BY DEF LeaseHeld
  <2>2. \A s \in Replicas : Follows(s)
    BY <1>2, SameFollows
  <2> QED
    BY <1>1, <1>2, <2>1, <2>2
<1>3. CASE UNCHANGED vars
  BY <1>2, <1>3 DEF vars
<1>4. ASSUME NEW w \in Workers, WorkerStep(w) PROVE LeaseHeld'
  <2>1. \A s \in Replicas : Follows(s)
    BY <1>4, WorkerFrame, SameFollows, KindsDisjoint
  <2>2. leased' = leased /\ \A j \in Rounds : Kept(j)
    BY <1>4, WorkerFrame
  <2>3. \A s \in Replicas : \A k \in DOMAIN job[s].queue :
          Prompt(s, k) => leased'[round[job[s].queue[k]].debate]
    BY <2>2 DEF LeaseHeld
  <2> QED
    BY <1>1, <2>1, <2>2, <2>3 DEF Kept
<1>5. ASSUME NEW h \in Handlers, NEW d \in Debates, NEW i \in Rounds, NEW cost \in Costs,
             NEW n \in {1} \cup {round[j].number + 1 : j \in Rounds},
             InsertRound(h, d, i, n, cost)
      PROVE  LeaseHeld'
  <2>1. \A s \in Replicas : job'[s] = job[s]
    BY <1>5, InsertFollows, KindsDisjoint
  <2>2. \A j \in Rounds : round[j].status \in {"accepted", "deleted"} => round'[j] = round[j]
    BY <1>5 DEF InsertRound, Typed, TypeOK
  <2> QED
    BY <1>2, <1>5, <2>1, <2>2 DEF InsertRound
<1>6. ASSUME NEW i \in Rounds, AcceptRound(i) PROVE LeaseHeld'
  <2>1. \A s \in Replicas : job'[s] = job[s]
    BY <1>6, KindsDisjoint DEF AcceptRound, Typed, TypeOK
  <2> QED
    BY <1>2, <1>6, <2>1, DecisionFrame DEF AcceptRound
<1>7. ASSUME NEW i \in Rounds, RejectRound(i) PROVE LeaseHeld'
  BY <1>2, <1>7, DecisionFrame DEF RejectRound
<1>8. ASSUME NEW d \in Debates, NEW i \in Rounds, UndoRounds(d, i) PROVE LeaseHeld'
  <2>1. job' = job /\ leased' = leased
    BY <1>8 DEF UndoRounds
  <2> QED
    BY <1>2, <1>8, <2>1, DecisionFrame
<1>9. ASSUME NEW d \in Debates, NEW verdict \in {"approved", "abandoned"}, CloseDebate(d, verdict)
      PROVE  LeaseHeld'
  BY <1>2, <1>9 DEF CloseDebate
\* A claim takes debates that nobody leases.
<1>10. ASSUME NEW s \in Replicas, Claim(s) PROVE LeaseHeld'
  <2>1. PICK q \in Batches, behind \in BOOLEAN :
          /\ job' = [job EXCEPT ![s] = Scoring(q, behind)]
          /\ leased' = [d \in Debates |->
                          leased[d] \/ \E k \in DOMAIN q : round[q[k]].debate = d]
    BY <1>10 DEF Claim
  <2>2. round' = round
    BY <1>10 DEF Claim
  <2>3. job'[s].queue = q /\ \A t \in Replicas \ {s} : job'[t] = job[t]
    BY <2>1, KindsDisjoint DEF Scoring, Typed, TypeOK
  <2>4. ASSUME NEW k \in DOMAIN q
        PROVE  /\ round[q[k]].settled
               /\ ~leased[round[q[k]].debate]
               /\ leased'[round[q[k]].debate]
    <3>1. q[k] \in Rounds /\ Claimable(q[k])
      BY BatchFacts
    <3>2. round[q[k]].status = "accepted"
      BY <3>1 DEF Claimable, Stale, IsLatestAccepted, AcceptedOf
    <3>3. round[q[k]].debate \in Debates
      BY <3>1, <3>2 DEF Typed
    <3> QED
      BY <2>1, <3>1, <3>3 DEF Claimable
  <2>5. ASSUME NEW t \in Replicas, t # s, NEW m \in DOMAIN job'[t].queue
        PROVE  /\ job'[t] = job[t] /\ m \in DOMAIN job[t].queue
               /\ round[job[t].queue[m]].settled
               /\ Prompt(t, m)' => /\ Prompt(t, m)
                                   /\ leased[round[job[t].queue[m]].debate]
                                   /\ leased'[round[job[t].queue[m]].debate]
    <3>1. job'[t] = job[t]
      BY <2>3, <2>5
    <3>2. PICK j \in Rounds : j = job[t].queue[m]
      BY <3>1, QueueElements, KindsDisjoint
    <3>3. round[j].settled /\ (Prompt(t, m) => leased[round[j].debate])
      BY <3>1, <3>2 DEF LeaseHeld
    <3>4. round[j].status \in {"accepted", "deleted"}
      BY <3>1, <3>2, KindsDisjoint DEF QueueAccepted
    <3>5. round[j].debate \in Debates
      BY <3>4 DEF Typed
    <3>6. Prompt(t, m)' => Prompt(t, m)
      BY <3>1 DEF Prompt
    <3> QED
      BY <2>1, <3>1, <3>2, <3>3, <3>5, <3>6
  <2>6. ASSUME NEW t \in Replicas, NEW m \in DOMAIN job'[t].queue
        PROVE  /\ round'[job'[t].queue[m]].settled
               /\ Prompt(t, m)' => leased'[round'[job'[t].queue[m]].debate]
    BY <2>2, <2>3, <2>4, <2>5
  <2>7. ASSUME NEW t \in Replicas, NEW u \in Replicas, t # u,
               NEW k \in DOMAIN job'[t].queue, NEW m \in DOMAIN job'[u].queue,
               Prompt(t, k)', Prompt(u, m)'
        PROVE  round[job'[t].queue[k]].debate # round[job'[u].queue[m]].debate
    <3>1. CASE t = s
      BY <2>3, <2>4, <2>5, <2>7, <3>1
    <3>2. CASE u = s
      BY <2>3, <2>4, <2>5, <2>7, <3>2
    <3>3. CASE t # s /\ u # s
      BY <2>5, <2>7, <3>3 DEF LeaseHeld
    <3> QED
      BY <3>1, <3>2, <3>3
  <2> QED
    BY <2>2, <2>6, <2>7 DEF LeaseHeld
<1>11. ASSUME NEW i \in Rounds, Settles(i) PROVE LeaseHeld'
  <2>1. round[i] \in Round
    BY DEF Typed, TypeOK
  <2>2. \A j \in Rounds : /\ round'[j].debate = round[j].debate
                          /\ round[j].settled => round'[j].settled
    BY <1>11, <2>1 DEF Settles, Typed, TypeOK, Round
  <2> QED
    BY <1>2, <1>11, <2>2 DEF Settles
<1>12. ASSUME NEW d \in Debates, LeaseElapses(d) PROVE LeaseHeld'
  <2>1. ASSUME NEW s \in Replicas, NEW k \in DOMAIN job[s].queue, Prompt(s, k)
        PROVE  leased'[round[job[s].queue[k]].debate]
    <3>1. round[job[s].queue[k]].debate # d
      BY <1>12, <2>1 DEF LeaseElapses
    <3>2. leased[round[job[s].queue[k]].debate]
      BY <2>1 DEF LeaseHeld
    <3> QED
      BY <1>12, <3>1, <3>2 DEF LeaseElapses, Typed, TypeOK
  <2>2. job' = job /\ round' = round
    BY <1>12 DEF LeaseElapses
  <2>3. \A s \in Replicas : Follows(s)
    BY <2>2, SameFollows
  <2> QED
    BY <1>1, <2>1, <2>2, <2>3
<1>13. CASE CostStep
  BY <1>2, <1>13, CostFrame
<1> QED
  BY <1>3, <1>4, <1>5, <1>6, <1>7, <1>8, <1>9, <1>10, <1>11, <1>12, <1>13
     DEF Next, RoundStep, WorkerStep

LEMMA OneCallFrom ==
  Typed /\ QueueAccepted /\ OwnScorer /\ LeaseHeld => OneCallPerLease
<1> SUFFICES ASSUME Typed, QueueAccepted, OwnScorer, LeaseHeld,
                    NEW w \in Workers, NEW x \in Workers,
                    At(w, "scoring") \/ At(w, "applying"),
                    At(x, "scoring") \/ At(x, "applying"),
                    Head(job[w].queue) = Head(job[x].queue),
                    w # x
             PROVE  w \in Replicas /\ x \in Replicas /\ (job[w].behind \/ job[x].behind)
  BY DEF OneCallPerLease, At
<1>1. ASSUME NEW y \in Workers, At(y, "scoring") \/ At(y, "applying")
      PROVE  /\ 1 \in DOMAIN job[y].queue
             /\ Head(job[y].queue) = job[y].queue[1]
             /\ y \in Rounds => Head(job[y].queue) = y /\ ~round[y].settled
             /\ y \in Replicas => round[Head(job[y].queue)].settled
             /\ y \in Rounds \cup Replicas
  <2>1. 1 \in DOMAIN job[y].queue /\ Head(job[y].queue) = job[y].queue[1]
        /\ job[y].queue # << >>
    BY <1>1, HeadIsRound
  <2>2. y \in Rounds => Head(job[y].queue) = y /\ ~round[y].settled
    BY <1>1, <2>1 DEF OwnScorer, At
  <2>3. y \in Replicas => round[Head(job[y].queue)].settled
    BY <2>1 DEF LeaseHeld
  <2>4. y \notin Handlers
    BY <2>1 DEF OwnScorer
  <2> QED
    BY <2>1, <2>2, <2>3, <2>4 DEF Workers
<1>2. CASE w \in Replicas /\ x \in Replicas
  <2>1. job[w].queue[1] = job[x].queue[1]
        /\ 1 \in DOMAIN job[w].queue /\ 1 \in DOMAIN job[x].queue
    BY <1>1
  <2>2. ~(Prompt(w, 1) /\ Prompt(x, 1))
    BY <1>2, <2>1 DEF LeaseHeld
  <2> QED
    BY <1>2, <2>2 DEF Prompt
<1>3. CASE w \in Rounds \/ x \in Rounds
  BY <1>1, <1>3
<1> QED
  BY <1>1, <1>2, <1>3

\* A round is being scored, and billed, twice at the same time only by sweeps of
\* which one had put its debate off behind others, however many replicas sweep
\* and however large their batches are.
THEOREM OneCall == Spec => []OneCallPerLease
<1>1. Init => OwnScorer /\ LeaseHeld
  BY KindsDisjoint DEF Init, OwnScorer, LeaseHeld, Idle, NoRound, At
<1>2. Typed /\ QueueAccepted /\ OwnScorer /\ LeaseHeld /\ [Next]_vars => OwnScorer' /\ LeaseHeld'
  BY OwnNext, LeaseNext
<1> QED
  BY <1>1, <1>2, OneCallFrom, AlwaysTyped, AlwaysQueued, PTL DEF Spec

-----------------------------------------------------------------------------
(* Lemmas on sums *)

\* A set of numbers with 0 and every successor has every number.  (the rule of
\* induction, for a set: WFMin names the least number that is missing)
LEMMA EveryNumber ==
  ASSUME NEW T, 0 \in T, \A n \in T : n \in Nat => n + 1 \in T
  PROVE  Nat \subseteq T
<1> SUFFICES ASSUME Nat \ T # {} PROVE FALSE
  OBVIOUS
<1> DEFINE less == OpToRel(<, Nat)
<1>0. IsWellFoundedOn(less, Nat)
  BY NatLessThanWellFounded
<1>1. PICK n \in Nat \ T : \A m \in Nat \ T : <<m, n>> \notin less
  <2> HIDE DEF less
  <2>1. Nat \ T \subseteq Nat
    OBVIOUS
  <2> QED
    BY <1>0, <2>1, WFMin
<1>2. \A m \in Nat \ T : ~(m < n)
  BY <1>1 DEF OpToRel
<1>3. n # 0 /\ n - 1 \in Nat /\ n - 1 < n /\ (n - 1) + 1 = n
  <2> HIDE DEF less
  <2>1. n \in Nat /\ n # 0
    OBVIOUS
  <2> QED
    BY <2>1
<1>4. n - 1 \in T
  BY <1>2, <1>3
<1> QED
  BY <1>1, <1>3, <1>4

\* What MapThenSumSet makes of a set and a function: the partial sums of the
\* subsets of S, by the elements that CHOOSE takes out one after the other.
Some(s) == CHOOSE x \in s : TRUE

Sums(g, f, S) ==
  g = [s \in SUBSET S |-> IF s = {} THEN 0 ELSE f[Some(s)] + g[s \ {Some(s)}]]

LEMMA SomeIsIn == ASSUME NEW s, s # {} PROVE Some(s) \in s
BY DEF Some

\* The subsets of S with at most n elements.
Small(S, n) == {s \in SUBSET S : Cardinality(s) <= n}

LEMMA SmallSets ==
  ASSUME NEW S, IsFiniteSet(S), NEW n \in Nat
  PROVE  /\ Small(S, 0) = {{}}
         /\ \A s \in SUBSET S : Cardinality(s) \in Nat
         /\ \A s \in Small(S, n + 1) : s # {} => s \ {Some(s)} \in Small(S, n)
         /\ S \in Small(S, Cardinality(S)) /\ Small(S, Cardinality(S)) = SUBSET S
<1>1. ASSUME NEW s \in SUBSET S
      PROVE  IsFiniteSet(s) /\ Cardinality(s) \in Nat /\ Cardinality(s) <= Cardinality(S)
  BY FS_Subset, FS_CardinalityType
<1>2. ASSUME NEW s \in SUBSET S PROVE Cardinality(s) = 0 <=> s = {}
  BY <1>1, FS_EmptySet
<1>3. Small(S, 0) = {{}}
  <2>1. ASSUME NEW s \in SUBSET S PROVE Cardinality(s) <= 0 <=> s = {}
    BY <1>1, <1>2
  <2> QED
    BY <2>1 DEF Small
<1>4. ASSUME NEW s \in Small(S, n + 1), s # {} PROVE s \ {Some(s)} \in Small(S, n)
  <2>1. s \in SUBSET S /\ Cardinality(s) <= n + 1
    BY DEF Small
  <2>2. Cardinality(s \ {Some(s)}) = Cardinality(s) - 1
    BY <1>1, <1>4, <2>1, SomeIsIn, FS_RemoveElement
  <2>3. Cardinality(s \ {Some(s)}) <= n
    BY <1>1, <2>1, <2>2
  <2> QED
    BY <2>1, <2>3 DEF Small
<1>5. Small(S, Cardinality(S)) = SUBSET S
  BY <1>1 DEF Small
<1> QED
  BY <1>1, <1>3, <1>4, <1>5

\* Of a finite set, such sums exist.
LEMMA SumsExist ==
  ASSUME NEW S, IsFiniteSet(S), NEW f
  PROVE  \E g : Sums(g, f, S)
<1> DEFINE Next_(g, s) == IF s = {} THEN 0 ELSE f[Some(s)] + g[s \ {Some(s)}]
           Upto(g, n) == g = [s \in SUBSET S |-> g[s]] /\ \A s \in Small(S, n) : g[s] = Next_(g, s)
           T == {n \in Nat : \E g : Upto(g, n)}
<1>1. 0 \in T
  <2>1. PICK g : g = [s \in SUBSET S |-> 0]
    OBVIOUS
  <2>2. Upto(g, 0)
    BY <2>1, SmallSets
  <2> QED
    BY <2>2
<1>2. ASSUME NEW n \in T, n \in Nat PROVE n + 1 \in T
  <2>1. PICK g : Upto(g, n)
    BY <1>2
  <2>2. PICK h : h = [s \in SUBSET S |-> Next_(g, s)]
    OBVIOUS
  <2>3. \A s \in Small(S, n) : s \in SUBSET S /\ h[s] = g[s]
    BY <2>1, <2>2 DEF Small
  <2>4. ASSUME NEW s \in Small(S, n + 1) PROVE h[s] = Next_(h, s)
    <3>1. s \in SUBSET S /\ h[s] = Next_(g, s)
      BY <2>2 DEF Small
    <3>2. CASE s = {}
      BY <3>1, <3>2
    <3>3. CASE s # {}
      <4>1. s \ {Some(s)} \in Small(S, n)
        BY <1>2, <3>3, SmallSets
      <4>2. h[s \ {Some(s)}] = g[s \ {Some(s)}]
        BY <2>3, <4>1
      <4> QED
        BY <3>1, <3>3, <4>2
    <3> QED
      BY <3>2, <3>3
  <2>5. Upto(h, n + 1)
    BY <2>2, <2>4
  <2> HIDE DEF Upto
  <2> QED
    BY <1>2, <2>5
<1>3. Cardinality(S) \in Nat /\ Cardinality(S) \in T
  <2> HIDE DEF T
  <2> QED
    BY <1>1, <1>2, EveryNumber, FS_CardinalityType
<1>4. PICK g : Upto(g, Cardinality(S))
  BY <1>3
<1>5. \A s \in SUBSET S : g[s] = Next_(g, s)
  BY <1>3, <1>4, SmallSets
<1>6. g = [s \in SUBSET S |-> g[s]]
  BY <1>4
<1>7. g = [s \in SUBSET S |-> Next_(g, s)]
  BY <1>5, <1>6
<1> QED
  BY <1>7 DEF Sums

\* They are sums: of integers an integer, of zeros zero, and a change of one
\* addend shows in the sum of those that have it.
LEMMA SumOfInts ==
  ASSUME NEW S, IsFiniteSet(S), NEW f \in [S -> Int], NEW g, Sums(g, f, S)
  PROVE  \A s \in SUBSET S : g[s] \in Int
<1> DEFINE T == {n \in Nat : \A s \in Small(S, n) : g[s] \in Int}
<1>0. /\ \A s \in SUBSET S : s # {} => g[s] = f[Some(s)] + g[s \ {Some(s)}]
      /\ g[{}] = 0
  BY DEF Sums
<1>1. 0 \in T
  <2>1. Small(S, 0) = {{}}
    BY SmallSets
  <2>2. ASSUME NEW s \in Small(S, 0) PROVE g[s] \in Int
    <3>1. s = {}
      BY <2>1
    <3> QED
      BY <1>0, <3>1
  <2> QED
    BY <2>2
<1>2. ASSUME NEW n \in T, n \in Nat PROVE n + 1 \in T
  <2>1. ASSUME NEW s \in Small(S, n + 1) PROVE g[s] \in Int
    <3>1. s \in SUBSET S
      BY DEF Small
    <3>2. CASE s = {}
      BY <1>0, <3>2
    <3>3. CASE s # {}
      <4>1. s \ {Some(s)} \in Small(S, n)
        BY <1>2, <3>3, SmallSets
      <4>2. g[s \ {Some(s)}] \in Int
        BY <4>1
      <4>3. f[Some(s)] \in Int
        BY <3>1, <3>3, SomeIsIn
      <4>4. g[s] = f[Some(s)] + g[s \ {Some(s)}]
        BY <1>0, <3>1, <3>3
      <4> QED
        BY <4>2, <4>3, <4>4
    <3> QED
      BY <3>2, <3>3
  <2> QED
    BY <1>2, <2>1
<1>3. Cardinality(S) \in Nat /\ Cardinality(S) \in T
  <2> HIDE DEF T
  <2> QED
    BY <1>1, <1>2, EveryNumber, FS_CardinalityType
<1> QED
  BY <1>3, SmallSets

LEMMA SumOfZeros ==
  ASSUME NEW S, IsFiniteSet(S), NEW f, \A x \in S : f[x] = 0, NEW g, Sums(g, f, S)
  PROVE  g[S] = 0
<1> DEFINE T == {n \in Nat : \A s \in Small(S, n) : g[s] = 0}
<1>0. /\ \A s \in SUBSET S : s # {} => g[s] = f[Some(s)] + g[s \ {Some(s)}]
      /\ g[{}] = 0
  BY DEF Sums
<1>1. 0 \in T
  <2>1. Small(S, 0) = {{}}
    BY SmallSets
  <2>2. ASSUME NEW s \in Small(S, 0) PROVE g[s] = 0
    <3>1. s = {}
      BY <2>1
    <3> QED
      BY <1>0, <3>1
  <2> QED
    BY <2>2
<1>2. ASSUME NEW n \in T, n \in Nat PROVE n + 1 \in T
  <2>1. ASSUME NEW s \in Small(S, n + 1) PROVE g[s] = 0
    <3>1. s \in SUBSET S
      BY DEF Small
    <3>2. CASE s = {}
      BY <1>0, <3>2
    <3>3. CASE s # {}
      <4>1. s \ {Some(s)} \in Small(S, n)
        BY <1>2, <3>3, SmallSets
      <4>2. g[s \ {Some(s)}] = 0
        BY <4>1
      <4>3. f[Some(s)] = 0
        BY <3>1, <3>3, SomeIsIn
      <4> QED
        BY <1>0, <3>1, <3>3, <4>2, <4>3
    <3> QED
      BY <3>2, <3>3
  <2> QED
    BY <1>2, <2>1
<1>3. Cardinality(S) \in Nat /\ Cardinality(S) \in T
  <2> HIDE DEF T
  <2> QED
    BY <1>1, <1>2, EveryNumber, FS_CardinalityType
<1> QED
  BY <1>3, SmallSets

LEMMA SumOfChanged ==
  ASSUME NEW S, IsFiniteSet(S), NEW f \in [S -> Int], NEW e \in [S -> Int], NEW a,
         \A x \in S : x # a => e[x] = f[x],
         NEW g, Sums(g, f, S), NEW h, Sums(h, e, S)
  PROVE  h[S] = IF a \in S THEN g[S] + (e[a] - f[a]) ELSE g[S]
<1> DEFINE More(s) == IF a \in s THEN e[a] - f[a] ELSE 0
           T == {n \in Nat : \A s \in Small(S, n) : h[s] = g[s] + More(s)}
<1>0. /\ \A s \in SUBSET S : s # {} => g[s] = f[Some(s)] + g[s \ {Some(s)}]
      /\ \A s \in SUBSET S : s # {} => h[s] = e[Some(s)] + h[s \ {Some(s)}]
      /\ g[{}] = 0 /\ h[{}] = 0
  BY DEF Sums
<1>t. \A s \in SUBSET S : g[s] \in Int /\ h[s] \in Int
  BY SumOfInts
<1>m. \A s \in SUBSET S : More(s) \in Int
  OBVIOUS
<1>1. 0 \in T
  <2>1. Small(S, 0) = {{}}
    BY SmallSets
  <2>2. ASSUME NEW s \in Small(S, 0) PROVE h[s] = g[s] + More(s)
    <3>1. s = {}
      BY <2>1
    <3> QED
      BY <1>0, <3>1
  <2> QED
    BY <2>2
<1>2. ASSUME NEW n \in T, n \in Nat PROVE n + 1 \in T
  <2>1. ASSUME NEW s \in Small(S, n + 1) PROVE h[s] = g[s] + More(s)
    <3>1. s \in SUBSET S
      BY DEF Small
    <3>2. CASE s = {}
      BY <1>0, <3>2
    <3>3. CASE s # {}
      <4>1. PICK y, r : y = Some(s) /\ r = s \ {y}
        OBVIOUS
      <4>2. r \in Small(S, n) /\ r \in SUBSET S
        BY <1>2, <3>1, <3>3, <4>1, SmallSets
      <4>3. h[r] = g[r] + More(r)
        BY <4>2
      <4>4. y \in S /\ y \in s /\ f[y] \in Int /\ e[y] \in Int
        BY <3>1, <3>3, <4>1, SomeIsIn
      <4>5. g[s] = f[y] + g[r] /\ h[s] = e[y] + h[r]
        BY <1>0, <3>1, <3>3, <4>1
      <4>6. More(s) = More(r) + (e[y] - f[y])
        <5>1. CASE y = a
          BY <4>1, <4>4, <5>1
        <5>2. CASE y # a
          <6>1. More(s) = More(r) /\ e[y] = f[y]
            BY <4>1, <4>4, <5>2
          <6> HIDE DEF More
          <6> QED
            BY <1>m, <4>2, <4>4, <6>1
        <5> QED
          BY <5>1, <5>2
      <4>7. More(r) \in Int /\ g[r] \in Int /\ h[r] \in Int
        BY <1>t, <1>m, <4>2
      <4> HIDE DEF More
      <4> QED
        BY <4>3, <4>4, <4>5, <4>6, <4>7
    <3> QED
      BY <3>2, <3>3
  <2> QED
    BY <1>2, <2>1
<1>3. Cardinality(S) \in Nat /\ Cardinality(S) \in T
  <2> HIDE DEF T
  <2> QED
    BY <1>1, <1>2, EveryNumber, FS_CardinalityType
<1>4. h[S] = g[S] + More(S)
  BY <1>3, SmallSets
<1> QED
  BY <1>4, <1>t

-----------------------------------------------------------------------------
(* The monthly rollup *)

\* The two sums of RollupExact are sums of a function.
UnderWayIsSum ==
  \E g : Sums(g, [w \in Workers |-> job[w].cents], Workers) /\ UnderWay = g[Workers]

LEMMA UnderWaySums == Typed => UnderWayIsSum
<1> SUFFICES ASSUME Typed PROVE UnderWayIsSum
  OBVIOUS
<1> DEFINE f == [w \in Workers |-> job[w].cents]
           iter == CHOOSE g : g = [s \in SUBSET Workers |->
                     IF s = {} THEN 0
                     ELSE LET x == CHOOSE x \in s : TRUE IN job[x].cents + g[s \ {x}]]
<1>1. \A g, s : (s \in SUBSET Workers /\ s # {}) =>
        LET x == CHOOSE x \in s : TRUE
        IN  job[x].cents + g[s \ {x}] = f[Some(s)] + g[s \ {Some(s)}]
  <2> SUFFICES ASSUME NEW g, NEW s, s \in SUBSET Workers, s # {}
               PROVE  LET x == CHOOSE x \in s : TRUE
                      IN  job[x].cents + g[s \ {x}] = f[Some(s)] + g[s \ {Some(s)}]
    OBVIOUS
  <2>1. Some(s) \in Workers
    BY SomeIsIn
  <2>2. f[Some(s)] = job[Some(s)].cents
    BY <2>1
  <2> QED
    BY <2>2 DEF Some
<1> DEFINE Ours(g, s) == IF s = {} THEN 0
                          ELSE LET x == CHOOSE x \in s : TRUE IN job[x].cents + g[s \ {x}]
           Theirs(g, s) == IF s = {} THEN 0 ELSE f[Some(s)] + g[s \ {Some(s)}]
<1>2. ASSUME NEW g
      PROVE  Sums(g, f, Workers) <=> g = [s \in SUBSET Workers |-> Ours(g, s)]
  <2>1. ASSUME NEW s \in SUBSET Workers PROVE Ours(g, s) = Theirs(g, s)
    BY <1>1
  <2>2. [s \in SUBSET Workers |-> Ours(g, s)] = [s \in SUBSET Workers |-> Theirs(g, s)]
    <3> HIDE DEF Ours, Theirs
    <3> QED
      BY <2>1
  <2>3. Sums(g, f, Workers) <=> g = [s \in SUBSET Workers |-> Theirs(g, s)]
    BY DEF Sums
  <2> QED
    BY <2>2, <2>3
<1>3. \E g : Sums(g, f, Workers)
  BY SumsExist, FiniteAssumption DEF Workers
<1>4. Sums(iter, f, Workers)
  <2>0. PICK g : Sums(g, f, Workers)
    BY <1>3
  <2>1. g = [s \in SUBSET Workers |-> Ours(g, s)]
    BY <1>2, <2>0
  <2>2. iter = [s \in SUBSET Workers |-> Ours(iter, s)]
    BY <2>1
  <2> QED
    BY <1>2, <2>2
<1>5. UnderWay = iter[Workers]
  BY DEF UnderWay, MapThenSumSet, MapThenFoldSet
<1> QED
  BY <1>4, <1>5 DEF UnderWayIsSum

WholeCentsIsSum ==
  \E g : Sums(g, [d \in Debates |-> total[d] \div Cent], Debates) /\ WholeCents = g[Debates]

LEMMA WholeCentsSums == Typed => WholeCentsIsSum
<1> SUFFICES ASSUME Typed PROVE WholeCentsIsSum
  OBVIOUS
<1> DEFINE f == [d \in Debates |-> total[d] \div Cent]
           iter == CHOOSE g : g = [s \in SUBSET Debates |->
                     IF s = {} THEN 0
                     ELSE LET x == CHOOSE x \in s : TRUE IN total[x] \div Cent + g[s \ {x}]]
<1>1. \A g, s : (s \in SUBSET Debates /\ s # {}) =>
        LET x == CHOOSE x \in s : TRUE
        IN  total[x] \div Cent + g[s \ {x}] = f[Some(s)] + g[s \ {Some(s)}]
  <2> SUFFICES ASSUME NEW g, NEW s, s \in SUBSET Debates, s # {}
               PROVE  LET x == CHOOSE x \in s : TRUE
                      IN  total[x] \div Cent + g[s \ {x}] = f[Some(s)] + g[s \ {Some(s)}]
    OBVIOUS
  <2>1. Some(s) \in Debates
    BY SomeIsIn
  <2>2. f[Some(s)] = total[Some(s)] \div Cent
    BY <2>1
  <2> QED
    BY <2>2 DEF Some
<1> DEFINE Ours(g, s) == IF s = {} THEN 0
                          ELSE LET x == CHOOSE x \in s : TRUE IN total[x] \div Cent + g[s \ {x}]
           Theirs(g, s) == IF s = {} THEN 0 ELSE f[Some(s)] + g[s \ {Some(s)}]
<1>2. ASSUME NEW g
      PROVE  Sums(g, f, Debates) <=> g = [s \in SUBSET Debates |-> Ours(g, s)]
  <2>1. ASSUME NEW s \in SUBSET Debates PROVE Ours(g, s) = Theirs(g, s)
    BY <1>1
  <2>2. [s \in SUBSET Debates |-> Ours(g, s)] = [s \in SUBSET Debates |-> Theirs(g, s)]
    <3> HIDE DEF Ours, Theirs
    <3> QED
      BY <2>1
  <2>3. Sums(g, f, Debates) <=> g = [s \in SUBSET Debates |-> Theirs(g, s)]
    BY DEF Sums
  <2> QED
    BY <2>2, <2>3
<1>3. \E g : Sums(g, f, Debates)
  BY SumsExist, FiniteAssumption
<1>4. Sums(iter, f, Debates)
  <2>0. PICK g : Sums(g, f, Debates)
    BY <1>3
  <2>1. g = [s \in SUBSET Debates |-> Ours(g, s)]
    BY <1>2, <2>0
  <2>2. iter = [s \in SUBSET Debates |-> Ours(iter, s)]
    BY <2>1
  <2> QED
    BY <1>2, <2>2
<1>5. WholeCents = iter[Debates]
  BY DEF WholeCents, MapThenSumSet, MapThenFoldSet
<1> QED
  BY <1>4, <1>5 DEF WholeCentsIsSum

\* They are integers, and change as one addend does.
LEMMA UnderWayChange ==
  ASSUME Typed, Typed', NEW w, \A x \in Workers : x # w => job'[x].cents = job[x].cents
  PROVE  /\ UnderWay \in Int
         /\ UnderWay' = IF w \in Workers THEN UnderWay + (job'[w].cents - job[w].cents) ELSE UnderWay
<1>1. PICK g : Sums(g, [x \in Workers |-> job[x].cents], Workers) /\ UnderWay = g[Workers]
  BY UnderWaySums DEF UnderWayIsSum
<1>2. UnderWayIsSum'
  BY UnderWaySums, PTL
<1>3. PICK h : Sums(h, [x \in Workers |-> job'[x].cents], Workers) /\ UnderWay' = h[Workers]
  BY <1>2 DEF UnderWayIsSum
<1>4. PICK f, e : f = [x \in Workers |-> job[x].cents] /\ e = [x \in Workers |-> job'[x].cents]
  OBVIOUS
<1>5. \A x \in Workers : job[x].cents \in Nat /\ job'[x].cents \in Nat
  BY DEF Typed, TypeOK, Job
<1>6. f \in [Workers -> Int] /\ e \in [Workers -> Int]
  BY <1>4, <1>5
<1>7. \A x \in Workers : x # w => e[x] = f[x]
  BY <1>4
<1>8. IsFiniteSet(Workers)
  BY FiniteAssumption DEF Workers
<1>9. Sums(g, f, Workers) /\ Sums(h, e, Workers)
  BY <1>1, <1>3, <1>4
<1>10. UnderWay \in Int
  BY <1>1, <1>6, <1>8, <1>9, SumOfInts
<1>11. h[Workers] = IF w \in Workers THEN g[Workers] + (e[w] - f[w]) ELSE g[Workers]
  BY <1>6, <1>7, <1>8, <1>9, SumOfChanged
<1> QED
  BY <1>1, <1>3, <1>4, <1>10, <1>11

LEMMA WholeCentsChange ==
  ASSUME Typed, Typed', NEW d, \A x \in Debates : x # d => total'[x] = total[x]
  PROVE  /\ WholeCents \in Int
         /\ WholeCents' = IF d \in Debates THEN WholeCents + (total'[d] \div Cent - total[d] \div Cent)
                                           ELSE WholeCents
<1>1. PICK g : Sums(g, [x \in Debates |-> total[x] \div Cent], Debates) /\ WholeCents = g[Debates]
  BY WholeCentsSums DEF WholeCentsIsSum
<1>2. WholeCentsIsSum'
  BY WholeCentsSums, PTL
<1>3. PICK h : Sums(h, [x \in Debates |-> total'[x] \div Cent], Debates) /\ WholeCents' = h[Debates]
  BY <1>2 DEF WholeCentsIsSum
<1>4. PICK f, e : f = [x \in Debates |-> total[x] \div Cent] /\ e = [x \in Debates |-> total'[x] \div Cent]
  OBVIOUS
<1>5. \A x \in Debates : total[x] \div Cent \in Nat /\ total'[x] \div Cent \in Nat
  BY MoneyAssumption, DivMonotone DEF Typed, TypeOK
<1>6. f \in [Debates -> Int] /\ e \in [Debates -> Int]
  BY <1>4, <1>5
<1>7. \A x \in Debates : x # d => e[x] = f[x]
  BY <1>4
<1>8. IsFiniteSet(Debates)
  BY FiniteAssumption
<1>9. Sums(g, f, Debates) /\ Sums(h, e, Debates)
  BY <1>1, <1>3, <1>4
<1>10. WholeCents \in Int
  BY <1>1, <1>6, <1>8, <1>9, SumOfInts
<1>11. h[Debates] = IF d \in Debates THEN g[Debates] + (e[d] - f[d]) ELSE g[Debates]
  BY <1>6, <1>7, <1>8, <1>9, SumOfChanged
<1> QED
  BY <1>1, <1>3, <1>4, <1>10, <1>11

\* What one goroutine owes the rollup, and what one debate comes to in it.
Owed(w) == IF w \in Workers THEN job[w].cents ELSE 0

Whole(d) == IF d \in Debates THEN total[d] \div Cent ELSE 0

\* A step that touches the cents of one goroutine and the total of one debate at
\* most, and keeps the balance between them, the row and what was lost.
Balanced(w, d) ==
  /\ \A x \in Workers : x # w => job'[x].cents = job[x].cents
  /\ \A x \in Debates : x # d => total'[x] = total[x]
  /\ Amount' + lost' + Owed(w)' = Amount + lost + Owed(w) + (Whole(d)' - Whole(d))

LEMMA MoneyTypes ==
  ASSUME Typed
  PROVE  /\ Amount \in Int /\ lost \in Int
         /\ \A w : Owed(w) \in Int
         /\ \A d : Whole(d) \in Int
<1>1. Amount \in Int /\ lost \in Int
  BY DEF Amount, Typed, TypeOK
<1>2. \A w : Owed(w) \in Int
  BY DEF Owed, Typed, TypeOK, Job
<1>3. ASSUME NEW d \in Debates PROVE total[d] \div Cent \in Int
  BY MoneyAssumption, DivMonotone DEF Typed, TypeOK
<1> QED
  BY <1>1, <1>2, <1>3 DEF Whole

LEMMA BalancedKeeps ==
  ASSUME Typed, Typed', RollupExact, NEW w, NEW d, Balanced(w, d)
  PROVE  RollupExact'
<1>1. UnderWay \in Int /\ UnderWay' = UnderWay + (Owed(w)' - Owed(w))
  <2>1. /\ UnderWay \in Int
        /\ UnderWay' = IF w \in Workers THEN UnderWay + (job'[w].cents - job[w].cents) ELSE UnderWay
    BY UnderWayChange DEF Balanced
  <2> QED
    BY <2>1 DEF Owed
<1>2. WholeCents \in Int /\ WholeCents' = WholeCents + (Whole(d)' - Whole(d))
  <2>1. /\ WholeCents \in Int
        /\ WholeCents' = IF d \in Debates THEN WholeCents + (total'[d] \div Cent - total[d] \div Cent)
                                          ELSE WholeCents
    BY WholeCentsChange DEF Balanced
  <2> QED
    BY <2>1 DEF Whole
<1>3. /\ Amount \in Int /\ lost \in Int /\ Owed(w) \in Int /\ Whole(d) \in Int
      /\ Amount' \in Int /\ lost' \in Int /\ Owed(w)' \in Int /\ Whole(d)' \in Int
  <2>1. Amount' \in Int /\ lost' \in Int
    BY DEF Amount, Typed, TypeOK
  <2>2. Owed(w)' \in Int
    BY DEF Owed, Typed, TypeOK, Job
  <2>3. d \in Debates => total'[d] \div Cent \in Int
    BY MoneyAssumption, DivMonotone DEF Typed, TypeOK
  <2>4. Whole(d)' \in Int
    BY <2>3 DEF Whole
  <2> QED
    BY <2>1, <2>2, <2>4, MoneyTypes
<1>4. Amount' + lost' + Owed(w)' = Amount + lost + Owed(w) + (Whole(d)' - Whole(d))
  BY DEF Balanced
<1> HIDE DEF Balanced
<1>5. Amount + lost + UnderWay = WholeCents
  BY DEF RollupExact
<1>6. Amount' + lost' + UnderWay' = WholeCents'
  BY <1>1, <1>2, <1>3, <1>4, <1>5
<1> QED
  BY <1>6 DEF RollupExact

\* A step that is none of a goroutine's and charges nobody.
LEMMA BalancedFrame ==
  ASSUME Typed, Amount' + lost' = Amount + lost, UNCHANGED total,
         \A x \in Workers : job'[x].cents = job[x].cents
  PROVE  \A w, d : Balanced(w, d)
<1> SUFFICES ASSUME NEW w, NEW d PROVE Balanced(w, d)
  OBVIOUS
<1>1. Owed(w)' = Owed(w) /\ Whole(d)' = Whole(d)
  BY DEF Owed, Whole
<1>2. Amount \in Int /\ lost \in Int /\ Owed(w) \in Int /\ Whole(d) \in Int
  BY MoneyTypes
<1>3. Amount' + lost' + Owed(w) = Amount + lost + Owed(w) + (Whole(d) - Whole(d))
  BY <1>2
<1> QED
  BY <1>1, <1>3 DEF Balanced

\* A charge of a goroutine that owed nothing before.
LEMMA BalancedCharge ==
  ASSUME Typed, NEW w \in Workers, NEW d \in Debates, NEW cost \in Nat, Charge(d, cost),
         \A x \in Workers : x # w => job'[x] = job[x],
         job[w].cents = 0, job'[w].cents = CentsDelta(d, cost), UNCHANGED <<cents, lost>>
  PROVE  Balanced(w, d)
<1>1. total' = [total EXCEPT ![d] = total[d] + cost] /\ total[d] \in Nat
  BY DEF Charge, Typed, TypeOK
<1>2. total'[d] = total[d] + cost /\ \A x \in Debates : x # d => total'[x] = total[x]
  BY <1>1 DEF Typed, TypeOK
<1>3. Whole(d)' - Whole(d) = CentsDelta(d, cost)
  BY <1>2 DEF Whole, CentsDelta
<1>4. Amount' = Amount /\ lost' = lost
  BY DEF Amount
<1>5. Owed(w) = 0 /\ Owed(w)' = CentsDelta(d, cost)
  BY DEF Owed
<1>6. Amount \in Int /\ lost \in Int /\ CentsDelta(d, cost) \in Int
  <2>1. total \in [Debates -> Nat]
    BY DEF Typed, TypeOK
  <2>2. CentsDelta(d, cost) \in Nat
    BY <2>1, DeltaIsNat
  <2> QED
    BY <2>2, MoneyTypes
<1>7. Amount + lost + CentsDelta(d, cost) = Amount + lost + 0 + CentsDelta(d, cost)
  BY <1>6
<1> QED
  BY <1>2, <1>3, <1>4, <1>5, <1>7 DEF Balanced

\* A goroutine that has nothing to pay any more.
LEMMA Paid ==
  ASSUME Typed, NEW w \in Workers, Advance(w) \/ job' = [job EXCEPT ![w] = Idle]
  PROVE  /\ job'[w].cents = 0 /\ job'[w].pc # "rolling"
         /\ \A x \in Workers : x # w => job'[x] = job[x]
<1> USE DEF Typed, TypeOK
<1>1. Idle.cents = 0 /\ Idle.pc # "rolling"
  BY DEF Idle
<1>2. \A q, b : Scoring(q, b).cents = 0 /\ Scoring(q, b).pc # "rolling"
  BY DEF Scoring
<1>3. PICK j : job' = [job EXCEPT ![w] = j] /\ (j = Idle \/ \E q, b : j = Scoring(q, b))
  <2>1. CASE job' = [job EXCEPT ![w] = Idle]
    BY <2>1
  <2>2. CASE job' # [job EXCEPT ![w] = Idle]
    <3>1. job' = [job EXCEPT ![w] = Scoring(Tail(job[w].queue), TRUE)]
      BY <2>2 DEF Advance
    <3> QED
      BY <3>1
  <2> QED
    BY <2>1, <2>2
<1>4. job'[w] = j /\ \A x \in Workers : x # w => job'[x] = job[x]
  BY <1>3
<1> QED
  BY <1>1, <1>2, <1>3, <1>4

\* After a charge a goroutine owes its whole cents, while it rolls up if any.
LEMMA RollsUpOwes ==
  ASSUME Typed, NEW w \in Workers, NEW delta \in Nat, RollsUp(w, delta)
  PROVE  /\ job'[w].cents = delta
         /\ job'[w].pc # "rolling" => job'[w].cents = 0
         /\ \A x \in Workers : x # w => job'[x] = job[x]
<1>1. job \in [Workers -> Job]
  BY DEF Typed, TypeOK
<1> QED
  BY <1>1, RollsUpQueue, Paid

LEMMA WorkerPays ==
  ASSUME Typed, Owing, NEW w \in Workers, WorkerStep(w)
  PROVE  /\ \E d : Balanced(w, d)
         /\ job'[w].pc # "rolling" => job'[w].cents = 0
<1>0. /\ Amount \in Int /\ lost \in Int /\ job[w].cents \in Nat
      /\ \A d : Whole(d) \in Int
  BY MoneyTypes DEF Typed, TypeOK, Job
<1>1. ASSUME Advance(w) \/ job' = [job EXCEPT ![w] = Idle], UNCHANGED total,
             Amount' + lost' = Amount + lost + job[w].cents
      PROVE  (\E d : Balanced(w, d)) /\ job'[w].cents = 0
  <2>1. job'[w].cents = 0 /\ \A x \in Workers : x # w => job'[x] = job[x]
    BY <1>1, Paid
  <2>2. Owed(w)' = 0 /\ Owed(w) = job[w].cents
    BY <2>1 DEF Owed
  <2>3. PICK d : TRUE
    OBVIOUS
  <2>4. Whole(d)' = Whole(d) /\ Whole(d) \in Int
    BY <1>0, <1>1 DEF Whole
  <2>5. (Amount + lost + job[w].cents) + 0 = Amount + lost + job[w].cents + (Whole(d) - Whole(d))
    BY <1>0, <2>4
  <2>6. Amount' + lost' + Owed(w)' = Amount + lost + Owed(w) + (Whole(d)' - Whole(d))
    BY <1>1, <2>2, <2>4, <2>5
  <2>7. Balanced(w, d)
    BY <1>1, <2>1, <2>6 DEF Balanced
  <2> QED
    BY <2>1, <2>7
<1>2. CASE RollUp(w)
  <2>1. Amount' = Amount + job[w].cents
    <3>1. PICK c \in Nat : c = job[w].cents
      BY <1>0
    <3>2. cents' = Amount + c
      BY <1>2, <3>1 DEF RollUp, Incremented
    <3>3. Amount + c # None
      BY <1>0, NoneAssumption
    <3>4. Amount' = Amount + c
      BY <1>0, <3>2, <3>3 DEF Amount
    <3> QED
      BY <3>1, <3>4
  <2>2. Amount' + lost' = Amount + lost + job[w].cents
    BY <1>0, <1>2, <2>1 DEF RollUp
  <2> QED
    BY <1>1, <1>2, <2>2 DEF RollUp
<1>3. CASE RollUpFails(w) \/ Dies(w)
  <2>1. Amount' = Amount
    BY <1>3 DEF RollUpFails, Dies, Amount
  <2>2. Amount' + lost' = Amount + lost + job[w].cents
    BY <1>0, <1>3, <2>1 DEF RollUpFails, Dies
  <2> QED
    BY <1>1, <1>3, <2>2 DEF RollUpFails, Dies
<1>4. CASE ScoreFails(w) \/ ApplyFails(w)
  <2>1. job[w].cents = 0
    BY <1>4 DEF Owing, At, ScoreFails, ApplyFails
  <2>2. Amount' + lost' = Amount + lost + job[w].cents
    BY <1>0, <1>4, <2>1 DEF ScoreFails, ApplyFails, Amount
  <2> QED
    BY <1>1, <1>4, <2>2 DEF ScoreFails, ApplyFails
<1>5. CASE ScoreReturns(w)
  <2>1. PICK j : j = [job[w] EXCEPT !.pc = "applying"]
    OBVIOUS
  <2>2. job[w] \in Job
    BY DEF Typed, TypeOK
  <2>3. j.cents = job[w].cents
    BY <2>1, <2>2 DEF Job
  <2>4. job' = [job EXCEPT ![w] = j]
    BY <1>5, <2>1 DEF ScoreReturns
  <2>5. \A x \in Workers : job'[x].cents = job[x].cents
    BY <2>3, <2>4 DEF Typed, TypeOK
  <2>6. Amount' + lost' = Amount + lost /\ UNCHANGED total
    BY <1>5 DEF ScoreReturns, Amount
  <2>7. job[w].cents = 0
    BY <1>5 DEF Owing, At, ScoreReturns
  <2>8. \A d : Balanced(w, d)
    BY <2>5, <2>6, BalancedFrame
  <2> QED
    BY <2>5, <2>7, <2>8
<1>6. ASSUME NEW cost \in Costs, ApplyScore(w, cost)
      PROVE  (\E d : Balanced(w, d)) /\ (job'[w].pc # "rolling" => job'[w].cents = 0)
  <2>1. PICK i \in Rounds : i = Head(job[w].queue)
    BY <1>6, HeadIsRound DEF ApplyScore
  <2>2. PICK d \in Debates : d = round[i].debate
    BY <1>6, <2>1 DEF ApplyScore, Live, Typed
  <2>3. CentsDelta(d, cost) \in Nat /\ cost \in Nat
    BY <1>6, MoneyAssumption, DeltaIsNat DEF Typed, TypeOK
  <2>4. RollsUp(w, CentsDelta(d, cost))
    BY <1>6, <2>1, <2>2 DEF ApplyScore
  <2>5. /\ job'[w].cents = CentsDelta(d, cost)
        /\ job'[w].pc # "rolling" => job'[w].cents = 0
        /\ \A x \in Workers : x # w => job'[x] = job[x]
    BY <2>3, <2>4, RollsUpOwes
  <2>6. job[w].cents = 0
    BY <1>6 DEF Owing, At, ApplyScore
  <2>7. Charge(d, cost) /\ UNCHANGED <<cents, lost>>
    BY <1>6, <2>1, <2>2 DEF ApplyScore
  <2>8. Balanced(w, d)
    BY <2>3, <2>5, <2>6, <2>7, BalancedCharge
  <2> QED
    BY <2>5, <2>8
<1> QED
  BY <1>2, <1>3, <1>4, <1>5, <1>6, <1>1 DEF WorkerStep, ScorerStep, Apply

\* Only a goroutine that rolls up owes anything, and a round nobody has accepted
\* has no scorer: so a charge never meets an increment still to be made.
LEMMA OwingNext == Typed /\ Owing /\ [Next]_vars => Owing'
<1> SUFFICES ASSUME Typed, Owing, [Next]_vars PROVE Owing'
  OBVIOUS
<1>0. job \in [Workers -> Job] /\ round \in [Rounds -> Round]
  BY DEF Typed, TypeOK
<1>1. ASSUME UNCHANGED job,
             \A i \in Rounds : round'[i].status \in {"none", "in_review"}
                                 => round[i].status = round'[i].status
      PROVE  Owing'
  BY <1>1 DEF Owing, At
<1>2. ASSUME NEW w \in Workers, WorkerStep(w) PROVE Owing'
  <2>1. /\ \A i \in Rounds : Kept(i)
        /\ \A x \in Workers \ {w} : job'[x] = job[x]
        /\ job[w].pc # "idle"
    BY <1>2, WorkerFrame
  <2>2. job'[w].pc # "rolling" => job'[w].cents = 0
    BY <1>2, WorkerPays
  <2>3. \A x \in Workers : job'[x].pc # "rolling" => job'[x].cents = 0
    BY <2>1, <2>2 DEF Owing, At
  <2>4. ASSUME NEW i \in Rounds, round'[i].status \in {"none", "in_review"}
        PROVE  job'[i].pc = "idle"
    <3>1. job[i].pc = "idle"
      BY <2>1, <2>4 DEF Owing, At, Kept
    <3> QED
      BY <2>1, <3>1, KindsDisjoint
  <2> QED
    BY <2>3, <2>4 DEF Owing, At
<1>3. ASSUME NEW h \in Handlers, NEW d \in Debates, NEW i \in Rounds, NEW cost \in Costs, NEW n,
             InsertRound(h, d, i, n, cost)
      PROVE  Owing'
  <2>1. h \in Workers /\ CentsDelta(d, cost) \in Nat
    BY KindsDisjoint, MoneyAssumption, DeltaIsNat DEF Typed, TypeOK
  <2>2. RollsUp(h, CentsDelta(d, cost))
    BY <1>3 DEF InsertRound
  <2>3. /\ job'[h].pc # "rolling" => job'[h].cents = 0
        /\ \A x \in Workers : x # h => job'[x] = job[x]
    BY <2>1, <2>2, RollsUpOwes
  <2>4. \A x \in Rounds : round'[x].status \in {"none", "in_review"}
                            => round[x].status \in {"none", "in_review"}
    <3>1. round[i].status = "none" /\ \A x \in Rounds : x # i => round'[x] = round[x]
      BY <1>0, <1>3 DEF InsertRound
    <3> QED
      BY <3>1
  <2>5. \A x \in Rounds : x # h /\ x \in Workers
    BY KindsDisjoint
  <2> QED
    BY <2>3, <2>4, <2>5 DEF Owing, At
<1>4. ASSUME NEW i \in Rounds, AcceptRound(i) PROVE Owing'
  <2>1. i \in Workers /\ job' = [job EXCEPT ![i] = Scoring(<<i>>, FALSE)]
    BY <1>4, KindsDisjoint DEF AcceptRound
  <2>2. job'[i].cents = 0 /\ \A x \in Workers : x # i => job'[x] = job[x]
    BY <1>0, <2>1 DEF Scoring
  <2>3. round'[i].status = "accepted" /\ \A x \in Rounds : x # i => round'[x] = round[x]
    BY <1>0, <1>4 DEF AcceptRound, Round
  <2> QED
    BY <2>2, <2>3, KindsDisjoint DEF Owing, At
<1>5. ASSUME NEW i \in Rounds, RejectRound(i) \/ \E d \in Debates : UndoRounds(d, i)
      PROVE  Owing'
  <2>1. UNCHANGED job
    BY <1>5 DEF RejectRound, UndoRounds
  <2> QED
    BY <1>1, <1>5, <2>1, DecisionFrame
<1>6. ASSUME NEW s \in Replicas, Claim(s) PROVE Owing'
  <2>1. PICK q, b : job' = [job EXCEPT ![s] = Scoring(q, b)]
    BY <1>6 DEF Claim
  <2>2. job'[s].cents = 0 /\ \A x \in Workers : x # s => job'[x] = job[x]
    BY <1>0, <2>1, KindsDisjoint DEF Scoring
  <2>3. UNCHANGED round /\ \A x \in Rounds : x # s
    BY <1>6, KindsDisjoint DEF Claim
  <2> QED
    BY <2>2, <2>3, KindsDisjoint DEF Owing, At
<1>7. ASSUME NEW i \in Rounds, Settles(i) PROVE Owing'
  <2>1. \A x \in Rounds : round'[x].status = round[x].status
    BY <1>0, <1>7 DEF Settles, Round
  <2> QED
    BY <1>1, <1>7, <2>1 DEF Settles
<1>8. ASSUME UNCHANGED <<round, job>> PROVE Owing'
  BY <1>1, <1>8
<1>9. CASE RoundStep
  <2>1. ASSUME NEW d \in Debates, NEW verdict, CloseDebate(d, verdict) PROVE Owing'
    BY <1>8, <2>1 DEF CloseDebate
  <2> QED
    BY <1>3, <1>4, <1>5, <1>9, <2>1 DEF RoundStep
<1>10. ASSUME NEW d \in Debates, LeaseElapses(d) PROVE Owing'
  BY <1>8, <1>10 DEF LeaseElapses
<1>11. CASE CostStep
  BY <1>8, <1>11, CostFrame
<1>12. CASE UNCHANGED vars
  BY <1>8, <1>12 DEF vars
<1> QED
  BY <1>2, <1>6, <1>7, <1>9, <1>10, <1>11, <1>12 DEF Next, WorkerStep

\* Every step keeps the balance between one goroutine, one debate and the row.
LEMMA StepBalanced ==
  ASSUME Typed, Owing, [Next]_vars
  PROVE  \E w, d : Balanced(w, d)
<1>0. job \in [Workers -> Job] /\ Amount \in Int /\ lost \in Int
  BY MoneyTypes DEF Typed, TypeOK
<1>1. ASSUME UNCHANGED <<total, cents, lost>>, \A x \in Workers : job'[x].cents = job[x].cents
      PROVE  \E w, d : Balanced(w, d)
  <2>1. Amount' + lost' = Amount + lost
    BY <1>1 DEF Amount
  <2> QED
    BY <1>1, <2>1, BalancedFrame
<1>2. ASSUME NEW w \in Workers, At(w, "idle"), NEW q, NEW b,
             job' = [job EXCEPT ![w] = Scoring(q, b)]
      PROVE  \A x \in Workers : job'[x].cents = job[x].cents
  <2>1. job[w].cents = 0 /\ Scoring(q, b).cents = 0
    BY <1>2 DEF Owing, At, Scoring
  <2> QED
    BY <1>0, <1>2, <2>1
<1>3. ASSUME NEW h \in Handlers, NEW d \in Debates, NEW i \in Rounds, NEW cost \in Costs, NEW n,
             InsertRound(h, d, i, n, cost)
      PROVE  \E w, e : Balanced(w, e)
  <2>1. h \in Workers /\ cost \in Nat
    BY KindsDisjoint, MoneyAssumption
  <2>2. CentsDelta(d, cost) \in Nat
    BY <2>1, DeltaIsNat DEF Typed, TypeOK
  <2>3. RollsUp(h, CentsDelta(d, cost))
    BY <1>3 DEF InsertRound
  <2>4. job'[h].cents = CentsDelta(d, cost) /\ \A x \in Workers : x # h => job'[x] = job[x]
    BY <2>1, <2>2, <2>3, RollsUpOwes
  <2>5. job[h].cents = 0
    BY <1>3, <2>1 DEF InsertRound, Owing, At
  <2>6. Charge(d, cost) /\ UNCHANGED <<cents, lost>>
    BY <1>3 DEF InsertRound
  <2> QED
    BY <2>1, <2>4, <2>5, <2>6, BalancedCharge
<1>4. ASSUME NEW i \in Rounds, AcceptRound(i) PROVE \E w, d : Balanced(w, d)
  <2>1. i \in Workers /\ At(i, "idle")
    BY <1>4, KindsDisjoint DEF AcceptRound, Owing
  <2>2. \A x \in Workers : job'[x].cents = job[x].cents
    BY <1>2, <1>4, <2>1 DEF AcceptRound
  <2> QED
    BY <1>1, <1>4, <2>2 DEF AcceptRound
<1>5. ASSUME UNCHANGED <<job, total, cents, lost>> PROVE \E w, d : Balanced(w, d)
  BY <1>1, <1>5
<1>6. CASE RoundStep
  <2>1. ASSUME NEW i \in Rounds, RejectRound(i) PROVE \E w, d : Balanced(w, d)
    BY <1>5, <2>1 DEF RejectRound
  <2>2. ASSUME NEW c \in Debates, NEW i \in Rounds, UndoRounds(c, i) PROVE \E w, d : Balanced(w, d)
    BY <1>5, <2>2 DEF UndoRounds
  <2>3. ASSUME NEW c \in Debates, NEW verdict, CloseDebate(c, verdict) PROVE \E w, d : Balanced(w, d)
    BY <1>5, <2>3 DEF CloseDebate
  <2> QED
    BY <1>3, <1>4, <1>6, <2>1, <2>2, <2>3 DEF RoundStep
<1>7. ASSUME NEW s \in Replicas, Claim(s) PROVE \E w, d : Balanced(w, d)
  <2>1. PICK q, b : job' = [job EXCEPT ![s] = Scoring(q, b)]
    BY <1>7 DEF Claim
  <2>2. \A x \in Workers : job'[x].cents = job[x].cents
    BY <1>2, <1>7, <2>1, KindsDisjoint DEF Claim
  <2> QED
    BY <1>1, <1>7, <2>2 DEF Claim
<1>8. ASSUME NEW i \in Rounds, Settles(i) PROVE \E w, d : Balanced(w, d)
  BY <1>5, <1>8 DEF Settles
<1>9. ASSUME NEW c \in Debates, LeaseElapses(c) PROVE \E w, d : Balanced(w, d)
  BY <1>5, <1>9 DEF LeaseElapses
<1>10. CASE CostStep
  <2>1. PICK row \in Int \cup {None} : Replace(row)
    BY <1>10, MoneyAssumption DEF CostStep, AddCostItem, UpdateCostItem, DeleteCostItem
  <2>2. Amount' \in Int
    <3>1. cents' \in Int \cup {None}
      BY <1>10, CostFrame
    <3> QED
      BY <3>1 DEF Amount
  <2>3. lost' = lost + Amount - Amount' /\ UNCHANGED <<job, total>>
    BY <2>1 DEF Replace
  <2>4. Amount' + lost' = Amount + lost
    <3>1. PICK a \in Int : a = Amount
      BY <1>0
    <3>2. PICK b \in Int : b = Amount'
      BY <2>2
    <3>3. PICK c \in Int : c = lost
      BY <1>0
    <3>4. b + (c + a - b) = a + c
      OBVIOUS
    <3> QED
      BY <2>3, <3>1, <3>2, <3>3, <3>4
  <2> QED
    BY <2>3, <2>4, BalancedFrame
<1>11. CASE UNCHANGED vars
  BY <1>5, <1>11 DEF vars
<1> QED
  BY <1>6, <1>7, <1>8, <1>9, <1>10, <1>11, WorkerPays DEF Next, WorkerStep

LEMMA RollupNext == Typed /\ Owing /\ RollupExact /\ [Next]_vars => RollupExact'
<1> SUFFICES ASSUME Typed, Owing, RollupExact, [Next]_vars PROVE RollupExact'
  OBVIOUS
<1>1. Typed'
  BY TypedNext
<1>2. PICK w, d : Balanced(w, d)
  BY StepBalanced
<1> QED
  BY <1>1, <1>2, BalancedKeeps

\* Nothing is owed and nothing charged before the first round.
LEMMA RollupInit == Init => Owing /\ RollupExact
<1> SUFFICES ASSUME Init PROVE Owing /\ RollupExact
  OBVIOUS
<1>0. \A x \in Workers : job[x].cents = 0 /\ job[x].pc = "idle"
  BY DEF Init, Idle
<1>1. Owing
  BY <1>0, KindsDisjoint DEF Owing, At
<1>2. Typed
  BY TypedInit
<1>3. UnderWay = 0
  <2>1. PICK g : Sums(g, [x \in Workers |-> job[x].cents], Workers) /\ UnderWay = g[Workers]
    BY <1>2, UnderWaySums DEF UnderWayIsSum
  <2>2. PICK f : f = [x \in Workers |-> job[x].cents]
    OBVIOUS
  <2>3. \A x \in Workers : f[x] = 0
    BY <1>0, <2>2
  <2> QED
    BY <2>1, <2>2, <2>3, FiniteAssumption, SumOfZeros DEF Workers
<1>4. WholeCents = 0
  <2>1. PICK g : Sums(g, [x \in Debates |-> total[x] \div Cent], Debates) /\ WholeCents = g[Debates]
    BY <1>2, WholeCentsSums DEF WholeCentsIsSum
  <2>2. PICK f : f = [x \in Debates |-> total[x] \div Cent]
    OBVIOUS
  <2>3. \A x \in Debates : f[x] = 0
    <3>1. 0 \div Cent = 0
      BY MoneyAssumption
    <3>2. \A x \in Debates : total[x] = 0
      BY DEF Init
    <3> QED
      BY <2>2, <3>1, <3>2
  <2> QED
    BY <2>1, <2>2, <2>3, FiniteAssumption, SumOfZeros
<1>5. Amount = 0 /\ lost = 0
  BY DEF Init, Amount
<1> QED
  BY <1>1, <1>3, <1>4, <1>5 DEF RollupExact

\* The monthly rollup is exact in every reachable state: with the increments
\* still under way, those that failed or died with their replica, and what staff
\* took off the row, it is the whole cents of the debates' totals, however the
\* charges, the increments after their commits and the edits interleave.
THEOREM RollupIsExact == Spec => []RollupExact
BY RollupInit, OwingNext, RollupNext, AlwaysTyped, PTL DEF Spec

=============================================================================
