-------------------------- MODULE RoundGatesProofs --------------------------
(***************************************************************************)
(* Proofs about RoundGates, for any organizations, debates, requests, caps *)
(* and budgets: a reached budget stops new work (BudgetStops) and the caps *)
(* of a client's rounds are exceeded by requests under way only            *)
(* (CapsHold).                                                             *)
(***************************************************************************)
EXTENDS RoundGates, FiniteSetTheorems, TLAPS

LEMMA RequestsFinite ==
    /\ IsFiniteSet(Requests) /\ Cardinality(Requests) \in Nat
    /\ IsFiniteSet(Clients) /\ Cardinality(Clients) \in Nat
<1>1. IsFiniteSet(Requests)
  BY FS_Union, GatesAssumption DEF Requests
<1> QED BY <1>1, FS_CardinalityType, GatesAssumption

(* Part of a finite set, with an element taken out of it or not.           *)
LEMMA PartLaws ==
    ASSUME NEW S, IsFiniteSet(S), NEW T \in SUBSET S
    PROVE  /\ Cardinality(S) \in Nat /\ Cardinality(T) \in Nat /\ Cardinality(T) <= Cardinality(S)
           /\ \A x \in S : x \notin T => Cardinality(T) + 1 <= Cardinality(S)
<1>1. IsFiniteSet(T) /\ Cardinality(T) <= Cardinality(S) /\ Cardinality(T) \in Nat /\ Cardinality(S) \in Nat
  BY FS_Subset, FS_CardinalityType
<1>2. ASSUME NEW x \in S, x \notin T PROVE Cardinality(T) + 1 <= Cardinality(S)
  <2>1. IsFiniteSet(T \cup {x}) /\ Cardinality(T \cup {x}) = Cardinality(T) + 1
    BY <1>1, <1>2, FS_AddElement
  <2>2. T \cup {x} \in SUBSET S
    BY <1>2
  <2>3. Cardinality(T \cup {x}) <= Cardinality(S)
    BY <2>2, FS_Subset
  <2> QED BY <2>1, <2>3
<1> QED BY <1>1, <1>2

-----------------------------------------------------------------------------
(* Types.  A request that is under way is about a debate that has started, *)
(* and so is a round.                                                      *)

Base ==
    /\ TypeOK
    /\ \A d \in Debates : payer[d] = "none" => rounds[d].accepted = 0 /\ ~rounds[d].review
    /\ \A r \in Requests : req[r].at # "idle" =>
          req[r].debate \in Debates /\ req[r].org \in Orgs /\ payer[req[r].debate] \in Orgs

(* A request moves on: what becomes of its row.                            *)
OtherRequests(r) == \A s \in Requests : s # r => req'[s] = req[s]
Ends(r) == req' \in [Requests -> Request] /\ OtherRequests(r) /\ req'[r].at = "idle"

LEMMA EndsLaws ==
    ASSUME TypeOK, NEW r \in Requests, req' = [req EXCEPT ![r] = Idle]
    PROVE  Ends(r)
<1>1. Idle \in Request /\ Idle.at = "idle"
  BY DEF Idle, Request, Stages
<1> QED BY <1>1 DEF TypeOK, Ends, OtherRequests

LEMMA LoadLaws ==
    ASSUME Base, NEW r \in Requests, NEW d \in Debates, LoadContext(r, d)
    PROVE  /\ req' \in [Requests -> Request] /\ OtherRequests(r)
           /\ req'[r].at = "loaded" /\ req'[r].debate = d /\ req'[r].org = home[d] /\ req'[r].cap = budget[home[d]]
<1>1. PICK q : q = [at |-> "loaded", debate |-> d, org |-> home[d], cap |-> budget[home[d]]]
  OBVIOUS
<1>2. q \in Request /\ q.at = "loaded" /\ q.debate = d /\ q.org = home[d] /\ q.cap = budget[home[d]]
  BY <1>1 DEF Base, TypeOK, Request, Stages
<1>3. req' = [req EXCEPT ![r] = q]
  BY <1>1 DEF LoadContext
<1> QED BY <1>2, <1>3 DEF Base, TypeOK, OtherRequests

LEMMA CheckLaws ==
    ASSUME Base, NEW r \in Requests, NEW readable \in BOOLEAN, CheckBudget(r, readable)
    PROVE  \/ Ends(r)
           \/ /\ req' \in [Requests -> Request] /\ OtherRequests(r)
              /\ req'[r].at = "cleared" /\ req'[r].debate = req[r].debate /\ req'[r].org = req[r].org
              /\ req[r].cap = Unlimited \/ spend[req[r].org] < req[r].cap
<1>1. req[r] \in Request
  BY DEF Base, TypeOK
<1>2. CASE BudgetAllows(req[r], readable)
  <2>1. PICK y : y = [req[r] EXCEPT !.at = "cleared"]
    OBVIOUS
  <2>2. y \in Request /\ y.at = "cleared" /\ y.debate = req[r].debate /\ y.org = req[r].org
    BY <1>1, <2>1 DEF Request, Stages
  <2>3. PICK q : q = [y EXCEPT !.cap = Unlimited]
    OBVIOUS
  <2>4. q \in Request /\ q.at = "cleared" /\ q.debate = req[r].debate /\ q.org = req[r].org
    BY <2>2, <2>3 DEF Request
  <2>5. req' = [req EXCEPT ![r] = q]
    BY <1>2, <2>1, <2>3 DEF CheckBudget, Base, TypeOK
  <2> QED BY <1>2, <2>4, <2>5 DEF Base, TypeOK, OtherRequests, BudgetAllows
<1>3. CASE ~BudgetAllows(req[r], readable)
  <2>1. req' = [req EXCEPT ![r] = Idle]
    BY <1>3 DEF CheckBudget, Base, TypeOK
  <2> QED BY <2>1, EndsLaws DEF Base
<1> QED BY <1>2, <1>3

LEMMA ReserveLaws ==
    ASSUME Base, NEW r \in Requests, Reserve(r)
    PROVE  \/ Ends(r)
           \/ /\ req' \in [Requests -> Request] /\ OtherRequests(r)
              /\ req'[r].at = "refining" /\ req'[r].debate = req[r].debate /\ req'[r].org = req[r].org
<1>1. CASE req' = [req EXCEPT ![r].at = "refining"]
  <2>1. PICK q : q = [req[r] EXCEPT !.at = "refining"]
    OBVIOUS
  <2>2. req[r] \in Request
    BY DEF Base, TypeOK
  <2>3. q \in Request /\ q.at = "refining" /\ q.debate = req[r].debate /\ q.org = req[r].org
    BY <2>1, <2>2 DEF Request, Stages
  <2>4. req' = [req EXCEPT ![r] = q]
    BY <1>1, <2>1 DEF Base, TypeOK
  <2> QED BY <2>3, <2>4 DEF Base, TypeOK, OtherRequests
<1>2. CASE req' = [req EXCEPT ![r] = Idle]
  BY <1>2, EndsLaws DEF Base
<1> QED BY <1>1, <1>2 DEF Reserve

(* What a charge does to the spend of the debate's payer.                  *)
LEMMA ChargeLaws ==
    ASSUME Base, NEW d \in Debates, payer[d] \in Orgs, Charge(d)
    PROVE  /\ spend' \in [Orgs -> Nat]
           /\ \A o \in Orgs : spend'[o] = IF o = payer[d] THEN spend[o] + 1 ELSE spend[o]
BY DEF Base, TypeOK, Charge

(* Every row of a request stays well-formed.                               *)
LEMMA RequestsStay ==
    ASSUME Base, NEW r \in Requests, OtherRequests(r), payer' = payer, req' \in [Requests -> Request],
           req'[r].at # "idle" => req'[r].debate \in Debates /\ req'[r].org \in Orgs /\ payer[req'[r].debate] \in Orgs
    PROVE  \A s \in Requests : req'[s].at # "idle" =>
              req'[s].debate \in Debates /\ req'[s].org \in Orgs /\ payer'[req'[s].debate] \in Orgs
BY DEF Base, OtherRequests

LEMMA BaseStep == ASSUME Base, [Next]_vars PROVE Base'
<1> USE DEF Base, TypeOK
<1>1. CASE UNCHANGED vars
  BY <1>1 DEF vars
<1>2. ASSUME NEW d \in Debates, StartDebate(d) PROVE Base'
  <2>1. /\ payer' \in [Debates -> Orgs \cup {"none"}] /\ payer'[d] \in Orgs
        /\ \A e \in Debates : e # d => payer'[e] = payer[e]
    BY <1>2 DEF StartDebate
  <2>2. UNCHANGED <<home, budget, spend, rounds, today, req, late, moved>>
    BY <1>2 DEF StartDebate
  <2> QED BY <2>1, <2>2, GatesAssumption
<1>3. ASSUME NEW r \in Requests, NEW d \in Debates, LoadContext(r, d) PROVE Base'
  <2>1. UNCHANGED <<home, payer, budget, spend, rounds, today, late, moved>> /\ payer[d] \in Orgs /\ home[d] \in Orgs
    BY <1>3 DEF LoadContext
  <2> QED BY <1>3, <2>1, LoadLaws, RequestsStay
<1>4. ASSUME NEW r \in Requests, NEW readable \in BOOLEAN, CheckBudget(r, readable) PROVE Base'
  <2>1. UNCHANGED <<home, payer, budget, spend, rounds, today, late, moved>> /\ req[r].at = "loaded"
    BY <1>4 DEF CheckBudget
  <2> QED BY <1>4, <2>1, CheckLaws, RequestsStay DEF Ends
<1>5. ASSUME NEW r \in Requests, Reserve(r) PROVE Base'
  <2>1. UNCHANGED <<home, payer, budget, spend, rounds, today, late, moved>> /\ req[r].at = "cleared"
    BY <1>5 DEF Reserve
  <2> QED BY <1>5, <2>1, ReserveLaws, RequestsStay DEF Ends
<1>6. ASSUME NEW r \in Requests, InsertRound(r) PROVE Base'
  <2>1. PICK d \in Debates : d = req[r].debate /\ payer[d] \in Orgs
    BY <1>6 DEF InsertRound
  <2>2. /\ rounds' = [rounds EXCEPT ![d].review = TRUE] /\ today' \in Nat /\ Charge(d)
        /\ late' = IF Reached(payer[d]) THEN [late EXCEPT ![payer[d]] = @ + 1] ELSE late
        /\ req' = [req EXCEPT ![r] = Idle] /\ UNCHANGED <<home, payer, budget, moved>>
    BY <1>6, <2>1 DEF InsertRound
  <2>3. spend' \in [Orgs -> Nat] /\ Ends(r)
    BY <2>1, <2>2, ChargeLaws, EndsLaws
  <2>4. late' \in [Orgs -> Nat]
    BY <2>1, <2>2
  <2>5. /\ rounds' \in [Debates -> [accepted : Nat, review : BOOLEAN]]
        /\ \A e \in Debates : e # d => rounds'[e] = rounds[e]
    BY <2>2
  <2>6. payer[d] # "none"
    BY <2>1, GatesAssumption
  <2> QED BY <2>2, <2>3, <2>4, <2>5, <2>6, RequestsStay DEF Ends
<1>7. ASSUME NEW r \in Requests, RoundFails(r) PROVE Base'
  <2>1. UNCHANGED <<home, payer, budget, spend, rounds, today, late, moved>> /\ Ends(r)
    BY <1>7, EndsLaws DEF RoundFails
  <2> QED BY <2>1, RequestsStay DEF Ends
<1>8. ASSUME NEW d \in Debates, NEW accepted \in BOOLEAN, Decide(d, accepted) PROVE Base'
  <2>1. /\ rounds' \in [Debates -> [accepted : Nat, review : BOOLEAN]] /\ payer[d] # "none"
        /\ \A e \in Debates : e # d => rounds'[e] = rounds[e]
    BY <1>8 DEF Decide
  <2> QED BY <1>8, <2>1 DEF Decide
<1>9. ASSUME NEW d \in Debates, Score(d) PROVE Base'
  <2>0. payer[d] \in Orgs
    BY <1>9 DEF Score
  <2>1. spend' \in [Orgs -> Nat] /\ UNCHANGED <<home, payer, budget, rounds, today, req, late, moved>>
    BY <1>9, <2>0, ChargeLaws DEF Score
  <2> QED BY <2>1
<1>10. ASSUME NEW d \in Debates, UndoRounds(d) PROVE Base'
  <2>1. PICK n \in 0..rounds[d].accepted :
           /\ rounds' = [rounds EXCEPT ![d] = [accepted |-> n, review |-> FALSE]]
           /\ \E t \in 0..(Active(d) - n) : t <= today /\ today' = today - t
           /\ spend' = [spend EXCEPT ![payer[d]] = Kept(payer[d], Active(d) - n)]
           /\ UNCHANGED <<home, payer, budget, req, late, moved>>
    BY <1>10 DEF UndoRounds
  <2>2. today' \in Nat
    BY <2>1
  <2>3. spend' = spend
    BY <2>1 DEF Kept
  <2>4. /\ rounds' \in [Debates -> [accepted : Nat, review : BOOLEAN]]
        /\ ~rounds'[d].review /\ (payer[d] = "none" => rounds'[d].accepted = 0)
        /\ \A e \in Debates : e # d => rounds'[e] = rounds[e]
    BY <2>1
  <2> QED BY <2>1, <2>2, <2>3, <2>4
<1>11. CASE RoundsAge
  BY <1>11 DEF RoundsAge
<1>12. CASE NewMonth
  BY <1>12 DEF NewMonth
<1>13. ASSUME NEW o \in Orgs, NEW cap \in Budgets \cup {Unlimited}, UpdateMonthlyBudget(o, cap) PROVE Base'
  BY <1>13 DEF UpdateMonthlyBudget, UpdateOrgMonthlyBudget
<1>14. ASSUME NEW d \in Debates, NEW o \in Orgs, TransferProject(d, o) PROVE Base'
  BY <1>14 DEF TransferProject
<1> QED BY <1>1, <1>2, <1>3, <1>4, <1>5, <1>6, <1>7, <1>8, <1>9, <1>10, <1>11, <1>12, <1>13, <1>14 DEF Next, RoundStep

LEMMA BaseInit == ASSUME Init PROVE Base
<1>1. Idle \in Request /\ Idle.at = "idle"
  BY DEF Idle, Request, Stages
<1> QED BY <1>1 DEF Init, Base, TypeOK

LEMMA BaseAlways == Spec => []Base
BY BaseInit, BaseStep, PTL DEF Spec

(* The type invariant.                                                     *)
THEOREM TypeCorrect == Spec => []TypeOK
<1>1. Base => TypeOK
  BY DEF Base
<1> QED BY <1>1, BaseAlways, PTL

-----------------------------------------------------------------------------
(* The budget.                                                             *)

(* The requests that may still be charged to an organization: past the     *)
(* check, or about to pass it with the cap they have read.                 *)
Still(o) ==
    {r \in Requests : /\ req[r].at # "idle" /\ payer[req[r].debate] = o
                      /\ req[r].at = "loaded" => req[r].cap = Unlimited \/ spend[o] < req[r].cap}

(* Each charge that comes after the budget was reached uses one of them up.*)
Bounded(o) ==
    IF Reached(o) THEN late[o] + Cardinality(Still(o)) <= Cardinality(Requests) ELSE late[o] = 0

(* A project that was never given away pays for its debates.               *)
HomePays == \A d \in Debates : payer[d] \in Orgs \ moved => home[d] = payer[d]
AskedPayer ==
    \A r \in Requests :
        req[r].at = "loaded" /\ payer[req[r].debate] \notin moved => req[r].org = payer[req[r].debate]

Threshold == HomePays /\ AskedPayer /\ \A o \in Orgs \ moved : Bounded(o)

LEMMA HomePaysStep ==
    ASSUME Base, HomePays, [Next]_vars
    PROVE  HomePays'
<1> USE DEF Base, TypeOK, HomePays
<1>1. ASSUME NEW d \in Debates, StartDebate(d) PROVE HomePays'
  BY <1>1 DEF StartDebate
<1>2. ASSUME NEW d \in Debates, NEW o \in Orgs, TransferProject(d, o) PROVE HomePays'
  BY <1>2 DEF TransferProject
<1>3. CASE UNCHANGED <<home, payer, moved>>
  BY <1>3
<1>4. CASE RoundStep
  BY <1>3, <1>4 DEF RoundStep, LoadContext, CheckBudget, Reserve, InsertRound, RoundFails
<1>5. ASSUME NEW d \in Debates, Score(d) \/ UndoRounds(d) \/ \E accepted \in BOOLEAN : Decide(d, accepted)
      PROVE  UNCHANGED <<home, payer, moved>>
  BY <1>5 DEF Score, UndoRounds, Decide
<1>6. ASSUME RoundsAge \/ NewMonth \/ \E o \in Orgs, cap \in Budgets \cup {Unlimited} : UpdateMonthlyBudget(o, cap)
      PROVE  UNCHANGED <<home, payer, moved>>
  BY <1>6 DEF RoundsAge, NewMonth, UpdateMonthlyBudget
<1>7. CASE UNCHANGED vars
  BY <1>3, <1>7 DEF vars
<1> QED BY <1>1, <1>2, <1>3, <1>4, <1>5, <1>6, <1>7 DEF Next

(* Nothing is charged yet: there are no more charges to come than requests.*)
LEMMA BoundedFresh ==
    ASSUME NEW o \in Orgs, late'[o] = 0
    PROVE  Bounded(o)'
<1>1. PICK S : S = Still(o)'
  OBVIOUS
<1>2. S \in SUBSET Requests
  BY <1>1 DEF Still
<1>3. Cardinality(S) \in Nat /\ Cardinality(S) <= Cardinality(Requests)
  BY <1>2, PartLaws, RequestsFinite
<1>4. late'[o] + Cardinality(Still(o)') <= Cardinality(Requests)
  BY <1>1, <1>3
<1> QED BY <1>4 DEF Bounded

(* A step that charges nobody and starts nothing after the threshold.      *)
LEMMA BoundedQuiet ==
    ASSUME Base, NEW o \in Orgs, Bounded(o), late'[o] = late[o],
           Reached(o) => Reached(o)' /\ Still(o)' \subseteq Still(o)
    PROVE  Bounded(o)'
<1>1. CASE ~Reached(o)
  BY <1>1, BoundedFresh DEF Bounded
<1>2. CASE Reached(o)
  <2>1. PICK S, T : S = Still(o) /\ T = Still(o)'
    OBVIOUS
  <2>2. T \in SUBSET S /\ S \in SUBSET Requests /\ IsFiniteSet(S)
    <3>1. T \in SUBSET S /\ S \in SUBSET Requests
      BY <1>2, <2>1 DEF Still
    <3> QED BY <3>1, RequestsFinite, FS_Subset
  <2>3. Cardinality(T) <= Cardinality(S) /\ Cardinality(T) \in Nat /\ Cardinality(S) \in Nat
    BY <2>2, PartLaws
  <2>4. late[o] + Cardinality(S) <= Cardinality(Requests)
    BY <1>2, <2>1 DEF Bounded
  <2>5. late[o] \in Nat
    BY DEF Base, TypeOK
  <2>6. late'[o] + Cardinality(T) <= Cardinality(Requests)
    BY <2>3, <2>4, <2>5, RequestsFinite
  <2> QED BY <1>2, <2>1, <2>6 DEF Bounded
<1> QED BY <1>1, <1>2

(* A request's step.                                                       *)
LEMMA ThresholdRequest ==
    ASSUME Base, Threshold, RoundStep
    PROVE  AskedPayer' /\ \A o \in Orgs \ moved' : Bounded(o)'
<1> USE DEF Base, TypeOK
<1>0. UNCHANGED <<home, payer, budget, moved>>
  BY DEF RoundStep, LoadContext, CheckBudget, Reserve, InsertRound, RoundFails
<1>1. ASSUME NEW r \in Requests, OtherRequests(r), req'[r].at # "loaded" PROVE AskedPayer'
  BY <1>0, <1>1 DEF Threshold, AskedPayer, OtherRequests
<1>2. ASSUME NEW r \in Requests, OtherRequests(r), UNCHANGED <<spend, late>>, NEW o \in Orgs \ moved',
             Reached(o) => (r \in Still(o)' => r \in Still(o))
      PROVE  Bounded(o)'
  <2>1. Bounded(o) /\ late'[o] = late[o] /\ (Reached(o) => Reached(o)')
    BY <1>0, <1>2 DEF Threshold, Reached
  <2>2. \A s \in Requests : s # r => (s \in Still(o)' => s \in Still(o))
    BY <1>0, <1>2 DEF Still, OtherRequests
  <2>3. Reached(o) => Still(o)' \subseteq Still(o)
    BY <1>2, <2>2 DEF Still
  <2> QED BY <2>1, <2>3, BoundedQuiet
<1>3. ASSUME NEW r \in Requests, NEW d \in Debates, LoadContext(r, d)
      PROVE  AskedPayer' /\ \A o \in Orgs \ moved' : Bounded(o)'
  <2>0. UNCHANGED <<spend, late>> /\ payer[d] \in Orgs
    BY <1>3 DEF LoadContext
  <2>1. /\ OtherRequests(r)
        /\ req'[r].at = "loaded" /\ req'[r].debate = d /\ req'[r].org = home[d] /\ req'[r].cap = budget[home[d]]
    BY <1>3, LoadLaws
  <2>2. payer[d] \notin moved => home[d] = payer[d]
    BY <2>0 DEF Threshold, HomePays
  <2>3. AskedPayer'
    BY <1>0, <2>1, <2>2 DEF Threshold, AskedPayer, OtherRequests
  <2>4. ASSUME NEW o \in Orgs \ moved', Reached(o) PROVE r \notin Still(o)'
    <3>1. payer[d] = o => budget[home[d]] # Unlimited /\ spend[o] >= budget[home[d]] /\ budget[home[d]] \in Nat
      <4>1. payer[d] = o => home[d] = o
        BY <1>0, <2>2, <2>4
      <4>2. budget[o] # Unlimited /\ spend[o] >= budget[o]
        BY <2>4 DEF Reached
      <4>3. budget[o] \in Nat
        BY <2>4, <4>2, GatesAssumption
      <4> QED BY <4>1, <4>2, <4>3
    <3>2. spend[o] \in Nat
      BY <2>4
    <3> QED BY <1>0, <2>0, <2>1, <2>4, <3>1, <3>2 DEF Still
  <2> QED BY <1>2, <2>0, <2>1, <2>3, <2>4
<1>4. ASSUME NEW r \in Requests, NEW readable \in BOOLEAN, CheckBudget(r, readable)
      PROVE  AskedPayer' /\ \A o \in Orgs \ moved' : Bounded(o)'
  <2>1. UNCHANGED <<spend, late>> /\ req[r].at = "loaded"
    BY <1>4 DEF CheckBudget
  <2>2. CASE Ends(r)
    <3>1. OtherRequests(r) /\ req'[r].at = "idle"
      BY <2>2 DEF Ends
    <3>2. \A o \in Orgs : r \notin Still(o)'
      BY <3>1 DEF Still
    <3> QED BY <1>1, <1>2, <2>1, <3>1, <3>2
  <2>3. CASE /\ OtherRequests(r) /\ req'[r].at = "cleared" /\ req'[r].debate = req[r].debate
             /\ req[r].cap = Unlimited \/ spend[req[r].org] < req[r].cap
    <3>1. ASSUME NEW o \in Orgs \ moved', r \in Still(o)' PROVE r \in Still(o)
      <4>1. payer[req[r].debate] = o
        BY <1>0, <2>3, <3>1 DEF Still
      <4>2. req[r].org = o
        BY <1>0, <2>1, <4>1 DEF Threshold, AskedPayer
      <4> QED BY <2>1, <2>3, <4>1, <4>2 DEF Still
    <3> QED BY <1>1, <1>2, <2>1, <2>3, <3>1
  <2> QED BY <1>4, <2>2, <2>3, CheckLaws
<1>5. ASSUME NEW r \in Requests, Reserve(r) \/ RoundFails(r)
      PROVE  AskedPayer' /\ \A o \in Orgs \ moved' : Bounded(o)'
  <2>1. /\ UNCHANGED <<spend, late>> /\ req[r].at \in {"cleared", "refining"} /\ OtherRequests(r)
        /\ req'[r].at = "idle" \/ (req'[r].at = "refining" /\ req'[r].debate = req[r].debate)
    BY <1>5, ReserveLaws, EndsLaws DEF Reserve, RoundFails, Ends
  <2>2. \A o \in Orgs : r \in Still(o)' => r \in Still(o)
    BY <1>0, <2>1 DEF Still
  <2> QED BY <1>1, <1>2, <2>1, <2>2
<1>6. ASSUME NEW r \in Requests, InsertRound(r)
      PROVE  AskedPayer' /\ \A o \in Orgs \ moved' : Bounded(o)'
  <2>1. PICK p \in Orgs : p = payer[req[r].debate]
    BY <1>6 DEF InsertRound
  <2>2. /\ Ends(r) /\ req[r].at = "refining"
        /\ late' = IF Reached(p) THEN [late EXCEPT ![p] = @ + 1] ELSE late
        /\ spend' \in [Orgs -> Nat]
        /\ \A o \in Orgs : spend'[o] = IF o = p THEN spend[o] + 1 ELSE spend[o]
    BY <1>6, <2>1, EndsLaws, ChargeLaws DEF InsertRound
  <2>3. OtherRequests(r) /\ req'[r].at = "idle"
    BY <2>2 DEF Ends
  <2>4. ASSUME NEW o \in Orgs \ moved' PROVE Bounded(o)'
    <3>1. Bounded(o) /\ spend'[o] >= spend[o] /\ spend[o] \in Nat /\ spend'[o] \in Nat
      BY <1>0, <2>2, <2>4 DEF Threshold
    <3>2. Still(o)' \subseteq Still(o) \ {r}
      <4>1. \A s \in Requests : req'[s].at # "idle" => s # r /\ req'[s] = req[s] /\ (req[s].cap = Unlimited \/ req[s].cap \in Nat)
        BY <2>3, GatesAssumption DEF OtherRequests, Request
      <4> QED BY <1>0, <3>1, <4>1 DEF Still
    <3>3. Reached(o) => Reached(o)'
      <4>1. budget'[o] = budget[o] /\ (budget[o] = Unlimited \/ budget[o] \in Nat)
        BY <1>0, GatesAssumption
      <4> QED BY <3>1, <4>1 DEF Reached
    <3>4. CASE late'[o] = late[o]
      BY <3>1, <3>2, <3>3, <3>4, BoundedQuiet
    <3>5. CASE late'[o] # late[o]
      <4>1. o = p /\ Reached(o) /\ late'[o] = late[o] + 1 /\ late[o] \in Nat
        BY <2>2, <3>5
      <4>2. r \in Still(o)
        BY <2>1, <2>2, <4>1 DEF Still
      <4>3. PICK S, T : S = Still(o) /\ T = Still(o)'
        OBVIOUS
      <4>4. T \in SUBSET S /\ S \in SUBSET Requests /\ r \in S /\ r \notin T
        BY <3>2, <4>2, <4>3 DEF Still
      <4>5. IsFiniteSet(S)
        BY <4>4, RequestsFinite, FS_Subset
      <4>6. Cardinality(T) + 1 <= Cardinality(S) /\ Cardinality(T) \in Nat /\ Cardinality(S) \in Nat
        BY <4>4, <4>5, PartLaws
      <4>7. late[o] + Cardinality(S) <= Cardinality(Requests)
        BY <3>1, <4>1, <4>3 DEF Bounded
      <4>8. late'[o] + Cardinality(T) <= Cardinality(Requests)
        BY <4>1, <4>6, <4>7, RequestsFinite
      <4> QED BY <3>3, <4>1, <4>3, <4>8 DEF Bounded
    <3> QED BY <3>4, <3>5
  <2> QED BY <1>1, <2>3, <2>4
<1> QED BY <1>3, <1>4, <1>5, <1>6 DEF RoundStep

LEMMA ThresholdStep ==
    ASSUME Base, Threshold, [Next]_vars
    PROVE  Threshold'
<1> USE DEF Base, TypeOK
<1>0. HomePays'
  BY HomePaysStep DEF Threshold
<1>1. ASSUME UNCHANGED req, UNCHANGED payer, moved \subseteq moved' PROVE AskedPayer'
  BY <1>1 DEF Threshold, AskedPayer
<1>2. ASSUME UNCHANGED <<req, payer, spend, budget, late>>, moved \subseteq moved' PROVE Threshold'
  <2>1. \A o \in Orgs \ moved' : Bounded(o)'
    BY <1>2 DEF Threshold, Bounded, Reached, Still
  <2> QED BY <1>0, <1>1, <1>2, <2>1 DEF Threshold
<1>3. CASE UNCHANGED vars
  BY <1>2, <1>3 DEF vars
<1>4. CASE RoundStep
  BY <1>0, <1>4, ThresholdRequest DEF Threshold
<1>5. ASSUME NEW d \in Debates, StartDebate(d) PROVE Threshold'
  <2>1. /\ UNCHANGED <<home, req, spend, budget, late, moved>> /\ payer[d] = "none" /\ \A e \in Debates : e # d => payer'[e] = payer[e]
    BY <1>5 DEF StartDebate
  <2>2. \A r \in Requests : req[r].at # "idle" => req[r].debate # d /\ payer'[req[r].debate] = payer[req[r].debate]
    BY <2>1, GatesAssumption
  <2>3. AskedPayer'
    BY <2>1, <2>2 DEF Threshold, AskedPayer
  <2>4. \A o \in Orgs : Still(o)' = Still(o) /\ (Reached(o)' <=> Reached(o))
    BY <2>1, <2>2 DEF Still, Reached
  <2>5. \A o \in Orgs \ moved' : Bounded(o)'
    BY <2>1, <2>4, BoundedQuiet DEF Threshold
  <2> QED BY <1>0, <2>3, <2>5 DEF Threshold
<1>6. ASSUME NEW d \in Debates, Score(d) PROVE Threshold'
  <2>1. payer[d] \in Orgs /\ Charge(d) /\ UNCHANGED <<home, payer, budget, req, late, moved>>
    BY <1>6 DEF Score
  <2>2. spend' \in [Orgs -> Nat] /\ \A o \in Orgs : spend'[o] = IF o = payer[d] THEN spend[o] + 1 ELSE spend[o]
    BY <2>1, ChargeLaws
  <2>3. ASSUME NEW o \in Orgs \ moved' PROVE Bounded(o)'
    <3>1. /\ spend[o] \in Nat /\ spend'[o] \in Nat /\ spend'[o] >= spend[o]
          /\ budget'[o] = budget[o] /\ (budget[o] = Unlimited \/ budget[o] \in Nat)
      <4>1. spend[o] \in Nat /\ (spend'[o] = spend[o] + 1 \/ spend'[o] = spend[o])
        BY <2>2, <2>3
      <4>2. budget'[o] = budget[o] /\ (budget[o] = Unlimited \/ budget[o] \in Nat)
        BY <2>1, <2>3, GatesAssumption
      <4> QED BY <4>1, <4>2
    <3>2. Reached(o) => Reached(o)'
      BY <3>1 DEF Reached
    <3>3. \A s \in Requests : req[s].cap = Unlimited \/ req[s].cap \in Nat
      BY GatesAssumption DEF Request
    <3>4. Still(o)' \subseteq Still(o)
      BY <2>1, <3>1, <3>3 DEF Still
    <3> QED BY <2>1, <2>3, <3>2, <3>4, BoundedQuiet DEF Threshold
  <2> QED BY <1>0, <1>1, <2>1, <2>3 DEF Threshold
<1>7. ASSUME NEW d \in Debates, UndoRounds(d) PROVE Threshold'
  <2>1. PICK n \in 0..rounds[d].accepted :
           spend' = [spend EXCEPT ![payer[d]] = Kept(payer[d], Active(d) - n)] /\ UNCHANGED <<home, payer, budget, req, late, moved>>
    BY <1>7 DEF UndoRounds
  <2>2. spend' = spend
    BY <2>1 DEF Kept
  <2> QED BY <1>2, <2>1, <2>2
<1>8. CASE NewMonth
  <2>1. UNCHANGED <<home, payer, budget, req, moved>> /\ \A o \in Orgs : late'[o] = 0
    BY <1>8 DEF NewMonth
  <2> QED BY <1>0, <1>1, <2>1, BoundedFresh DEF Threshold
<1>9. ASSUME NEW o \in Orgs, NEW cap \in Budgets \cup {Unlimited}, UpdateMonthlyBudget(o, cap) PROVE Threshold'
  <2>1. /\ UNCHANGED <<home, payer, spend, req, moved>> /\ late'[o] = 0
        /\ \A p \in Orgs : p # o => budget'[p] = budget[p] /\ late'[p] = late[p]
    BY <1>9 DEF UpdateMonthlyBudget, UpdateOrgMonthlyBudget
  <2>2. ASSUME NEW p \in Orgs \ moved', p # o PROVE Bounded(p)'
    <3>1. Still(p)' = Still(p) /\ (Reached(p)' <=> Reached(p)) /\ Bounded(p)
      BY <2>1, <2>2 DEF Still, Reached, Threshold
    <3> QED BY <2>1, <2>2, <3>1, BoundedQuiet
  <2> QED BY <1>0, <1>1, <2>1, <2>2, BoundedFresh DEF Threshold
<1>10. ASSUME NEW d \in Debates, NEW o \in Orgs, TransferProject(d, o) PROVE Threshold'
  BY <1>2, <1>10 DEF TransferProject
<1>11. ASSUME RoundsAge \/ \E d \in Debates, accepted \in BOOLEAN : Decide(d, accepted) PROVE Threshold'
  BY <1>2, <1>11 DEF RoundsAge, Decide
<1> QED BY <1>3, <1>4, <1>5, <1>6, <1>7, <1>8, <1>9, <1>10, <1>11 DEF Next

(* The budget is a threshold that stops new work: once an organization has *)
(* reached it, only requests that checkOrgBudget let through before, or    *)
(* will with the cap they have read, are charged to it in that month, one  *)
(* round each at most -- whatever is undone, decided, scored or moved to   *)
(* it, and also if the spend could not be read.                            *)
THEOREM BudgetStops == Spec => []ThresholdHolds
<1>1. ASSUME Init PROVE Threshold
  BY <1>1, GatesAssumption DEF Init, Idle, Threshold, HomePays, AskedPayer, Bounded, Reached
<1>2. Base /\ Threshold /\ [Next]_vars => Threshold'
  BY ThresholdStep
<1>3. ASSUME Base, Threshold PROVE ThresholdHolds
  <2>1. ASSUME NEW o \in Orgs \ moved PROVE late[o] <= Cardinality(Requests)
    <3>1. late[o] \in Nat /\ Bounded(o) /\ Cardinality(Requests) \in Nat
      BY <1>3, RequestsFinite DEF Base, TypeOK, Threshold
    <3>2. Still(o) \in SUBSET Requests
      BY DEF Still
    <3>3. Cardinality(Still(o)) \in Nat
      BY <3>2, PartLaws, RequestsFinite
    <3> QED BY <3>1, <3>3 DEF Bounded
  <2> QED BY <2>1 DEF ThresholdHolds
<1> QED BY <1>1, <1>2, <1>3, BaseAlways, PTL DEF Spec

-----------------------------------------------------------------------------
(* The caps of a client's rounds.                                          *)

(* The client's requests that have passed the counts.                      *)
Busy == {r \in Clients : req[r].at # "idle"}
BusyOn(d) == {r \in Busy : req[r].debate = d}

(* A count and the requests that may still add one to it.                  *)
Within(count, S, cap) == count + Cardinality(S) <= cap - 1 + Cardinality(Clients)

Capped ==
    CountsReadable =>
        /\ Within(today, Busy, DailyCap)
        /\ Staff = {} => \A d \in Debates : Within(Active(d), BusyOn(d), RoundCap)

LEMMA WithinLaws ==
    ASSUME NEW n \in Nat, NEW k \in Nat, NEW cap \in Nat \ {0}, NEW S \in SUBSET Clients, NEW T \in SUBSET Clients,
           \/ Within(n, S, cap) /\ T \subseteq S /\ k <= n
           \/ Within(n, S, cap) /\ T \subseteq S /\ k <= n + 1 /\ \E r \in S : r \notin T
           \/ k < cap
    PROVE  Within(k, T, cap)
<1>0. PICK s, t, c : s = Cardinality(S) /\ t = Cardinality(T) /\ c = Cardinality(Clients)
  OBVIOUS
<1>1. s \in Nat /\ t \in Nat /\ c \in Nat /\ s <= c /\ t <= c
  BY <1>0, PartLaws, RequestsFinite
<1>2. IsFiniteSet(S)
  BY FS_Subset, RequestsFinite
<1>3. T \subseteq S => t <= s /\ \A r \in S : r \notin T => t + 1 <= s
  BY <1>0, <1>2, PartLaws
<1>4. Within(n, S, cap) => n + s <= cap - 1 + c
  BY <1>0 DEF Within
<1>5. k + t <= cap - 1 + c
  <2>1. CASE Within(n, S, cap) /\ T \subseteq S /\ k <= n
    BY <1>1, <1>3, <1>4, <2>1
  <2>2. CASE Within(n, S, cap) /\ T \subseteq S /\ k <= n + 1 /\ \E r \in S : r \notin T
    BY <1>1, <1>3, <1>4, <2>2
  <2>3. CASE k < cap
    BY <1>1, <2>3
  <2> QED BY <2>1, <2>2, <2>3
<1> QED BY <1>0, <1>5 DEF Within

LEMMA ActiveLaws ==
    ASSUME Base, NEW d \in Debates
    PROVE  Active(d) \in Nat
BY DEF Base, TypeOK, Active

(* No request passes the counts and no round comes.                        *)
LEMMA CappedQuiet ==
    ASSUME Base, Base', Capped, today' <= today, \A d \in Debates : Active(d)' <= Active(d),
           \A r \in Clients : req'[r].at # "idle" => req[r].at # "idle" /\ req'[r].debate = req[r].debate
    PROVE  Capped'
<1>1. Busy \in SUBSET Clients /\ Busy' \in SUBSET Clients /\ Busy' \subseteq Busy
  BY DEF Busy
<1>2. today \in Nat /\ today' \in Nat /\ DailyCap \in Nat \ {0} /\ RoundCap \in Nat \ {0}
  BY GatesAssumption DEF Base, TypeOK
<1>3. CountsReadable => Within(today', Busy', DailyCap)
  BY <1>1, <1>2, WithinLaws DEF Capped
<1>4. ASSUME CountsReadable, Staff = {}, NEW d \in Debates
      PROVE  Within(Active(d)', BusyOn(d)', RoundCap)
  <2>1. Active(d) \in Nat /\ Active(d)' \in Nat /\ Active(d)' <= Active(d)
    BY ActiveLaws DEF Base, TypeOK, Active
  <2>2. BusyOn(d) \in SUBSET Clients /\ BusyOn(d)' \in SUBSET Clients /\ BusyOn(d)' \subseteq BusyOn(d)
    BY <1>1 DEF BusyOn, Busy
  <2>3. Within(Active(d), BusyOn(d), RoundCap)
    BY <1>4 DEF Capped
  <2> QED BY <1>2, <2>1, <2>2, <2>3, WithinLaws
<1> QED BY <1>3, <1>4 DEF Capped

LEMMA CappedLoad ==
    ASSUME Base, Base', Capped, NEW r \in Requests, NEW d \in Debates, LoadContext(r, d)
    PROVE  Capped'
<1>1. /\ UNCHANGED <<rounds, today>> /\ OtherRequests(r) /\ req'[r].debate = d
      /\ r \in Staff \/ ~CountsReadable \/ (Active(d) < RoundCap /\ today < DailyCap)
  BY LoadLaws DEF LoadContext, UnderRoundCap, UnderDailyCap
<1>2. CASE r \in Staff
  <2>1. \A s \in Clients : req'[s] = req[s]
    BY <1>1, <1>2, GatesAssumption DEF OtherRequests, Requests
  <2>2. today' <= today /\ \A e \in Debates : Active(e)' <= Active(e)
    BY <1>1 DEF Base, TypeOK, Active
  <2> QED BY <2>1, <2>2, CappedQuiet
<1>3. CASE ~CountsReadable
  BY <1>3 DEF Capped
<1>4. CASE r \in Clients /\ CountsReadable /\ Active(d) < RoundCap /\ today < DailyCap
  <2>0. today \in Nat /\ DailyCap \in Nat \ {0} /\ RoundCap \in Nat \ {0}
    BY GatesAssumption DEF Base, TypeOK
  <2>1. Within(today', Busy', DailyCap)
    <3>1. Busy' \in SUBSET Clients
      BY DEF Busy
    <3>2. today' \in Nat /\ today' < DailyCap
      BY <1>1, <1>4, <2>0
    <3> QED BY <2>0, <3>1, <3>2, WithinLaws
  <2>2. ASSUME Staff = {}, NEW e \in Debates PROVE Within(Active(e)', BusyOn(e)', RoundCap)
    <3>1. Active(e)' = Active(e) /\ Active(e) \in Nat
      BY <1>1, ActiveLaws DEF Active
    <3>2. BusyOn(e) \in SUBSET Clients /\ BusyOn(e)' \in SUBSET Clients
      BY DEF BusyOn, Busy
    <3>3. CASE e = d
      BY <1>4, <2>0, <3>1, <3>2, <3>3, WithinLaws
    <3>4. CASE e # d
      <4>1. BusyOn(e)' \subseteq BusyOn(e)
        BY <1>1, <3>4 DEF BusyOn, Busy, OtherRequests, Requests
      <4>2. Within(Active(e), BusyOn(e), RoundCap)
        BY <1>4, <2>2 DEF Capped
      <4> QED BY <2>0, <3>1, <3>2, <4>1, <4>2, WithinLaws
    <3> QED BY <3>3, <3>4
  <2> QED BY <2>1, <2>2 DEF Capped
<1> QED BY <1>1, <1>2, <1>3, <1>4 DEF Requests

LEMMA CappedInsert ==
    ASSUME Base, Base', Capped, NEW r \in Requests, InsertRound(r)
    PROVE  Capped'
<1>1. PICK d \in Debates : d = req[r].debate
  BY DEF Base, InsertRound
<1>2. /\ req[r].at = "refining" /\ ~rounds[d].review /\ rounds' = [rounds EXCEPT ![d].review = TRUE]
      /\ today' = IF r \in Clients THEN today + 1 ELSE today
      /\ Ends(r)
  BY <1>1, EndsLaws DEF InsertRound, Base
<1>3. OtherRequests(r) /\ req'[r].at = "idle"
  BY <1>2 DEF Ends
<1>4. today \in Nat /\ today' \in Nat /\ DailyCap \in Nat \ {0} /\ RoundCap \in Nat \ {0}
  BY GatesAssumption DEF Base, TypeOK
<1>5. CountsReadable => Within(today', Busy', DailyCap)
  <2>1. Busy \in SUBSET Clients /\ Busy' \in SUBSET Clients /\ Busy' \subseteq Busy
    BY <1>3 DEF Busy, OtherRequests, Requests
  <2>2. r \in Clients => r \in Busy /\ r \notin Busy'
    BY <1>2, <1>3 DEF Busy
  <2>3. CASE r \in Clients
    <3>1. today' <= today + 1
      BY <1>2, <1>4, <2>3
    <3> QED BY <1>4, <2>1, <2>2, <2>3, <3>1, WithinLaws DEF Capped
  <2>4. CASE r \notin Clients
    <3>1. today' <= today
      BY <1>2, <1>4, <2>4
    <3> QED BY <1>4, <2>1, <3>1, WithinLaws DEF Capped
  <2> QED BY <2>3, <2>4
<1>6. ASSUME CountsReadable, Staff = {}, NEW e \in Debates PROVE Within(Active(e)', BusyOn(e)', RoundCap)
  <2>1. Active(e) \in Nat /\ Active(e)' \in Nat
    BY ActiveLaws DEF Base, TypeOK, Active
  <2>2. BusyOn(e) \in SUBSET Clients /\ BusyOn(e)' \in SUBSET Clients /\ BusyOn(e)' \subseteq BusyOn(e)
    BY <1>3 DEF BusyOn, Busy, OtherRequests, Requests
  <2>3. Within(Active(e), BusyOn(e), RoundCap)
    BY <1>6 DEF Capped
  <2>4. CASE e = d
    <3>1. Active(e)' = Active(e) + 1
      BY <1>2, <2>4 DEF Base, TypeOK, Active
    <3>2. r \in BusyOn(e) /\ r \notin BusyOn(e)'
      BY <1>1, <1>2, <1>3, <1>6, <2>4 DEF BusyOn, Busy, Requests
    <3>3. Active(e)' <= Active(e) + 1
      BY <2>1, <3>1
    <3> QED BY <1>4, <2>1, <2>2, <2>3, <3>2, <3>3, WithinLaws
  <2>5. CASE e # d
    <3>1. Active(e)' <= Active(e)
      BY <1>2, <2>1, <2>5 DEF Base, TypeOK, Active
    <3> QED BY <1>4, <2>1, <2>2, <2>3, <3>1, WithinLaws
  <2> QED BY <2>4, <2>5
<1> QED BY <1>5, <1>6 DEF Capped

LEMMA CappedStep ==
    ASSUME Base, Capped, [Next]_vars
    PROVE  Capped'
<1>0. Base' /\ today \in Nat /\ \A d \in Debates : Active(d) \in Nat
  BY BaseStep, ActiveLaws DEF Base, TypeOK
<1>1. ASSUME UNCHANGED <<rounds, today>>, NEW r \in Requests, OtherRequests(r),
             req'[r].at # "idle" => req[r].at # "idle" /\ req'[r].debate = req[r].debate
      PROVE  Capped'
  <2>1. \A s \in Clients : req'[s].at # "idle" => req[s].at # "idle" /\ req'[s].debate = req[s].debate
    BY <1>1 DEF OtherRequests, Requests
  <2>2. today' <= today /\ \A d \in Debates : Active(d)' <= Active(d)
    BY <1>0, <1>1 DEF Active
  <2> QED BY <1>0, <2>1, <2>2, CappedQuiet
<1>2. ASSUME NEW r \in Requests,
             Reserve(r) \/ RoundFails(r) \/ \E readable \in BOOLEAN : CheckBudget(r, readable)
      PROVE  Capped'
  <2>1. UNCHANGED <<rounds, today>> /\ req[r].at # "idle"
    BY <1>2 DEF Reserve, RoundFails, CheckBudget
  <2>2. OtherRequests(r) /\ (req'[r].at # "idle" => req'[r].debate = req[r].debate)
    BY <1>2, ReserveLaws, CheckLaws, EndsLaws DEF Ends, RoundFails, Base
  <2> QED BY <1>1, <2>1, <2>2
<1>3. ASSUME UNCHANGED req, today' <= today, \A d \in Debates : Active(d)' <= Active(d) PROVE Capped'
  BY <1>0, <1>3, CappedQuiet
<1>4. ASSUME UNCHANGED <<req, rounds, today>> PROVE Capped'
  BY <1>0, <1>3, <1>4 DEF Active
<1>5. ASSUME NEW d \in Debates, NEW accepted \in BOOLEAN, Decide(d, accepted) PROVE Capped'
  <2>1. /\ UNCHANGED <<req, today>> /\ rounds[d].review
        /\ rounds' = [rounds EXCEPT ![d] = [accepted |-> rounds[d].accepted + (IF accepted THEN 1 ELSE 0), review |-> FALSE]]
    BY <1>5 DEF Decide, Base, TypeOK
  <2>2. \A e \in Debates : Active(e)' <= Active(e)
    BY <2>1 DEF Base, TypeOK, Active
  <2> QED BY <1>0, <1>3, <2>1, <2>2
<1>6. ASSUME NEW d \in Debates, UndoRounds(d) PROVE Capped'
  <2>1. PICK n \in 0..rounds[d].accepted :
           /\ rounds' = [rounds EXCEPT ![d] = [accepted |-> n, review |-> FALSE]]
           /\ \E t \in 0..(Active(d) - n) : t <= today /\ today' = today - t
           /\ UNCHANGED req
    BY <1>6 DEF UndoRounds
  <2>2. today' <= today
    BY <1>0, <2>1
  <2>3. \A e \in Debates : Active(e)' <= Active(e)
    BY <2>1 DEF Base, TypeOK, Active
  <2> QED BY <1>3, <2>1, <2>2, <2>3
<1>7. CASE RoundsAge
  BY <1>0, <1>3, <1>7 DEF RoundsAge, Active
<1>8. ASSUME \/ \E d \in Debates : StartDebate(d) \/ Score(d) \/ \E o \in Orgs : TransferProject(d, o)
             \/ \E o \in Orgs, cap \in Budgets \cup {Unlimited} : UpdateMonthlyBudget(o, cap)
             \/ NewMonth \/ UNCHANGED vars
      PROVE  UNCHANGED <<req, rounds, today>>
  BY <1>8 DEF StartDebate, Score, TransferProject, UpdateMonthlyBudget, NewMonth, vars
<1>9. CASE RoundStep
  BY <1>0, <1>2, <1>9, CappedLoad, CappedInsert DEF RoundStep
<1> QED BY <1>4, <1>5, <1>6, <1>7, <1>8, <1>9 DEF Next

(* Requests of a client that pass the counts of CreateRound together       *)
(* exceed the cap of a debate, and of 24 hours over all debates, by one    *)
(* less than their number at most: ClientRoundCap and ClientDailyRoundCap  *)
(* are read before the provider is called and not again.                   *)
THEOREM CapsHold == Spec => []CapsBounded
<1>1. ASSUME Init PROVE Capped
  <2>1. Busy = {} /\ \A d \in Debates : BusyOn(d) = {} /\ Active(d) = 0
    BY <1>1 DEF Init, Idle, Busy, BusyOn, Active, Requests
  <2>2. {} \in SUBSET Clients /\ 0 < DailyCap /\ 0 < RoundCap /\ today = 0
    BY <1>1, GatesAssumption DEF Init
  <2>3. Within(0, {}, DailyCap) /\ Within(0, {}, RoundCap)
    BY <2>2, WithinLaws, GatesAssumption
  <2> QED BY <2>1, <2>2, <2>3 DEF Capped
<1>2. Base /\ Capped /\ [Next]_vars => Capped'
  BY CappedStep
<1>3. ASSUME Base, Capped PROVE CapsBounded
  <2>1. \A S \in SUBSET Clients : Cardinality(S) \in Nat
    BY PartLaws, RequestsFinite
  <2>2. Cardinality(Busy) \in Nat /\ \A d \in Debates : Cardinality(BusyOn(d)) \in Nat /\ Active(d) \in Nat
    BY <1>3, <2>1, ActiveLaws DEF Busy, BusyOn
  <2>3. today \in Nat /\ Cardinality(Clients) \in Nat /\ DailyCap \in Nat /\ RoundCap \in Nat
    BY <1>3, RequestsFinite, GatesAssumption DEF Base, TypeOK
  <2> QED BY <1>3, <2>2, <2>3 DEF Capped, Within, CapsBounded
<1> QED BY <1>1, <1>2, <1>3, BaseAlways, PTL DEF Spec
=============================================================================
