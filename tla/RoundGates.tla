------------------------------- MODULE RoundGates -------------------------------
(***************************************************************************)
(* What a request for a refinement round must pass before it may call an   *)
(* AI provider (DebateHandler.CreateRound): a client's round caps and the  *)
(* organization's monthly budget.  Counts and spend are read before the    *)
(* reservation and not again; the charge lands when the answer is stored.  *)
(*                                                                         *)
(* The life of a round is the business of DebateRounds: here a debate is   *)
(* the number of its accepted rounds and whether one waits for review.     *)
(* Every round and every scoring costs one unit of the budget.             *)
(***************************************************************************)
EXTENDS Naturals, FiniteSets, Functions

CONSTANTS
    Orgs, Debates,
    Clients,       \* requests of one client user, who uses several at a time
    Staff,         \* requests of staff, whom the round caps do not bind
    RoundCap,      \* ClientRoundCap, 10 of a debate
    DailyCap,      \* ClientDailyRoundCap, 50 of a user in 24 hours
    CountsReadable, \* the database answers when it is asked for the counts
    Budgets,       \* caps an organization may set
    Unlimited,     \* monthly_budget_cents IS NULL
    MaxSpend,      \* bound: no more is spent in a month, by all together
    MaxMoves       \* bound: organizations that give projects away

Requests == Clients \cup Staff

ASSUME GatesAssumption ==
    /\ RoundCap \in Nat \ {0} /\ DailyCap \in Nat \ {0}
    /\ Budgets \subseteq Nat /\ Unlimited \notin Nat /\ MaxSpend \in Nat /\ MaxMoves \in Nat
    /\ IsFiniteSet(Clients) /\ IsFiniteSet(Staff) /\ Clients \cap Staff = {}
    /\ "none" \notin Orgs \cup Debates

VARIABLES
    home,    \* the organization that has the project of a debate's ticket
    payer,   \* feature_debates.org_id, or "none" before the debate starts
    budget,  \* organizations.monthly_budget_cents
    spend,   \* debate_spend of an organization in the current month
    rounds,  \* of each debate: accepted ones, and whether one is in review
    today,   \* rounds the client triggered in the last 24 hours
    req,     \* requests to CreateRound
    late,    \* rounds, not scorer calls, charged to an organization since it
             \* reached its budget
    moved    \* organizations from which a project was transferred away

vars == <<home, payer, budget, spend, rounds, today, req, late, moved>>

Stages == {"idle", "loaded", "cleared", "refining"}
Request == [at : Stages, debate : Debates \cup {"none"}, org : Orgs \cup {"none"},
            cap : Budgets \cup {Unlimited}]
Idle == [at |-> "idle", debate |-> "none", org |-> "none", cap |-> Unlimited]

Init ==
    /\ home \in [Debates -> Orgs]
    /\ payer = [d \in Debates |-> "none"]
    /\ budget = [o \in Orgs |-> Unlimited]
    /\ spend = [o \in Orgs |-> 0]
    /\ rounds = [d \in Debates |-> [accepted |-> 0, review |-> FALSE]]
    /\ today = 0
    /\ req = [r \in Requests |-> Idle]
    /\ late = [o \in Orgs |-> 0]
    /\ moved = {}

Reached(o) == budget[o] # Unlimited /\ spend[o] >= budget[o]

-----------------------------------------------------------------------------
(* A request, step by step.                                                *)

StartDebate(d) ==
    /\ payer[d] = "none"
    /\ payer' = [payer EXCEPT ![d] = home[d]]
    /\ UNCHANGED <<home, budget, spend, rounds, today, req, late, moved>>

(* CountActiveRoundsForDebate.                                             *)
Active(d) == rounds[d].accepted + IF rounds[d].review THEN 1 ELSE 0

UnderRoundCap(d) == Active(d) < RoundCap

(* Mutant: rounds of the debate are counted, not those of the user.        *)
UnderDailyCapOfDebate(d) == Active(d) < DailyCap
UnderDailyCap(d) == today < DailyCap

(* requireDebateContext, GetActiveDebate and the two counts: the           *)
(* organization is that of the project, its budget comes with it.  A count *)
(* that cannot be read does not stop the request.                          *)
LoadContext(r, d) ==
    /\ req[r].at = "idle" /\ payer[d] # "none"
    /\ r \in Staff \/ ~CountsReadable \/ (UnderRoundCap(d) /\ UnderDailyCap(d))
    /\ req' = [req EXCEPT ![r] = [at |-> "loaded", debate |-> d, org |-> home[d], cap |-> budget[home[d]]]]
    /\ UNCHANGED <<home, payer, budget, spend, rounds, today, late, moved>>

(* checkOrgBudget: an aggregate that cannot be read refuses the round.     *)
BudgetAllows(q, readable) == q.cap = Unlimited \/ (readable /\ spend[q.org] < q.cap)

CheckBudget(r, readable) ==
    /\ req[r].at = "loaded"
    /\ req' = [req EXCEPT ![r] = IF BudgetAllows(@, readable)
                                   THEN [@ EXCEPT !.at = "cleared", !.cap = Unlimited] ELSE Idle]
    /\ UNCHANGED <<home, payer, budget, spend, rounds, today, late, moved>>

(* One request of a debate calls the provider at a time; others are        *)
(* refused, but for one that takes over a stale reservation.               *)
Reserve(r) ==
    /\ req[r].at = "cleared"
    /\ LET busy == \E s \in Requests : req[s].at = "refining" /\ req[s].debate = req[r].debate IN
       \/ req' = [req EXCEPT ![r].at = "refining"]
       \/ busy /\ req' = [req EXCEPT ![r] = Idle]
    /\ UNCHANGED <<home, payer, budget, spend, rounds, today, late, moved>>

Spendable == FoldFunction(+, 0, spend) < MaxSpend

(* RecordDebateSpendTx: the organization stamped on the debate pays.       *)
Charge(d) == spend' = [spend EXCEPT ![payer[d]] = @ + 1]

(* InsertDebateRoundTx: a second suggestion in review is refused.          *)
InsertRound(r) ==
    LET d == req[r].debate IN
    /\ req[r].at = "refining"
    /\ ~rounds[d].review /\ Spendable
    /\ rounds' = [rounds EXCEPT ![d].review = TRUE]
    /\ today' = IF r \in Clients THEN today + 1 ELSE today
    /\ Charge(d)
    /\ late' = IF Reached(payer[d]) THEN [late EXCEPT ![payer[d]] = @ + 1] ELSE late
    /\ req' = [req EXCEPT ![r] = Idle]
    /\ UNCHANGED <<home, payer, budget, moved>>

(* The provider fails, its answer is too short, the text has changed or a  *)
(* suggestion waits: nothing is stored, nothing is charged.                *)
RoundFails(r) ==
    /\ req[r].at = "refining"
    /\ req' = [req EXCEPT ![r] = Idle]
    /\ UNCHANGED <<home, payer, budget, spend, rounds, today, late, moved>>

-----------------------------------------------------------------------------
(* What happens to rounds: a decision, undo, the scorer, the clock.        *)

Decide(d, accepted) ==
    /\ rounds[d].review
    /\ rounds' = [rounds EXCEPT ![d] = [accepted |-> @.accepted + (IF accepted THEN 1 ELSE 0), review |-> FALSE]]
    /\ UNCHANGED <<home, payer, budget, spend, today, req, late, moved>>

(* The retry sweep and the scorer are not asked for the budget.            *)
Score(d) ==
    /\ rounds[d].accepted > 0 /\ Spendable
    /\ Charge(d)
    /\ UNCHANGED <<home, payer, budget, rounds, today, req, late, moved>>

(* Mutant: charges go with the rounds.                                     *)
KeptRefund(o, n) == IF spend[o] > n THEN spend[o] - n ELSE 0
(* The ledger has no foreign key to the rounds.                            *)
Kept(o, n) == spend[o]

(* The rounds from one of the accepted on are deleted, and with them a     *)
(* suggestion in review and the client's own count of them.                *)
UndoRounds(d) ==
    \E n \in 0..rounds[d].accepted :
       LET gone == Active(d) - n IN
       /\ gone > 0
       /\ rounds' = [rounds EXCEPT ![d] = [accepted |-> n, review |-> FALSE]]
       /\ \E t \in 0..gone : t <= today /\ today' = today - t
       /\ spend' = [spend EXCEPT ![payer[d]] = Kept(payer[d], gone)]
       /\ UNCHANGED <<home, payer, budget, req, late, moved>>

(* Rounds of the client become older than 24 hours.                        *)
RoundsAge ==
    /\ today > 0
    /\ today' = today - 1
    /\ UNCHANGED <<home, payer, budget, spend, rounds, req, late, moved>>

(* CurrentUTCMonthRange moves on.                                          *)
NewMonth ==
    /\ \E o \in Orgs : spend[o] > 0
    /\ spend' = [o \in Orgs |-> 0] /\ late' = [o \in Orgs |-> 0]
    /\ UNCHANGED <<home, payer, budget, rounds, today, req, moved>>

-----------------------------------------------------------------------------
(* Settings.                                                               *)

(* One transaction under the lock of the organization's row.               *)
UpdateOrgMonthlyBudget(o, cap) == budget' = [budget EXCEPT ![o] = cap]

(* A new budget is a new threshold.                                        *)
UpdateMonthlyBudget(o, cap) ==
    /\ cap # budget[o]
    /\ UpdateOrgMonthlyBudget(o, cap)
    /\ late' = [late EXCEPT ![o] = 0]
    /\ UNCHANGED <<home, payer, spend, rounds, today, req, moved>>

(* DB.TransferProject moves the project and its ai_usage_entries.          *)
TransferProject(d, o) ==
    /\ home[d] # o /\ Cardinality(moved \cup {home[d]}) <= MaxMoves
    /\ home' = [home EXCEPT ![d] = o]
    /\ moved' = moved \cup {home[d]}
    /\ UNCHANGED <<payer, budget, spend, rounds, today, req, late>>

RoundStep == \E r \in Requests :
    \/ \E d \in Debates : LoadContext(r, d)
    \/ \E readable \in BOOLEAN : CheckBudget(r, readable)
    \/ Reserve(r) \/ InsertRound(r) \/ RoundFails(r)

Next ==
    \/ RoundStep
    \/ \E d \in Debates :
          \/ StartDebate(d) \/ Score(d) \/ UndoRounds(d)
          \/ \E accepted \in BOOLEAN : Decide(d, accepted)
          \/ \E o \in Orgs : TransferProject(d, o)
    \/ \E o \in Orgs, cap \in Budgets \cup {Unlimited} : UpdateMonthlyBudget(o, cap)
    \/ RoundsAge \/ NewMonth

Spec == Init /\ [][Next]_vars

-----------------------------------------------------------------------------
(* The type invariant; no organization is owed money by its ledger.        *)
TypeOK ==
    /\ home \in [Debates -> Orgs]
    /\ payer \in [Debates -> Orgs \cup {"none"}]
    /\ budget \in [Orgs -> Budgets \cup {Unlimited}]
    /\ spend \in [Orgs -> Nat] /\ late \in [Orgs -> Nat]
    /\ rounds \in [Debates -> [accepted : Nat, review : BOOLEAN]]
    /\ today \in Nat /\ moved \subseteq Orgs
    /\ req \in [Requests -> Request]

(* The budget is a threshold that stops new work: once an organization has *)
(* reached it, only requests already under way are charged to it in that   *)
(* month, one round each at most -- whatever is undone, however many       *)
(* debates are open, and also if the spend could not be read.  (Scorer     *)
(* calls, which the gate lets pass by design, add to the spend and are not *)
(* counted in late; an organization that gave a project away is left to    *)
(* ChargedWhereChecked.)                                                   *)
ThresholdHolds == \A o \in Orgs \ moved : late[o] <= Cardinality(Requests)

(* Requests of a client that pass the counts together exceed the cap of a  *)
(* debate, and of 24 hours over all debates, by one less than their number *)
(* at most: if the counts can be read and staff, whom no cap binds, add no *)
(* round to the debate.                                                    *)
CapsBounded ==
    CountsReadable =>
        /\ today <= DailyCap - 1 + Cardinality(Clients)
        /\ Staff = {} => \A d \in Debates : Active(d) <= RoundCap - 1 + Cardinality(Clients)

(* The organization whose budget a request was checked against is the one  *)
(* that pays for its round: cost attribution survives a transfer.          *)
ChargedWhereChecked ==
    \A r \in Requests : req[r].at \in {"cleared", "refining"} => req[r].org = payer[req[r].debate]
=============================================================================
