--------------------------- MODULE AgentDispatch ---------------------------
(***************************************************************************)
(* The orchestrator (src/cmd/orchestrator, src/internal/orchestrator): a   *)
(* process that polls for tickets armed for an agent, claims each by a     *)
(* status change, asks a model for a plan or runs an agent in a git        *)
(* worktree, and reports on the ticket.  Staff edit the same tickets at    *)
(* any time through src/internal/handlers/tickets.go.                      *)
(*                                                                         *)
(* A dispatcher works from the rows its listing returned: everything it    *)
(* decides about a ticket it decides from that snapshot, and every write   *)
(* it makes is unconditional.  A rolling deployment runs the old and the   *)
(* new pod side by side, and either may be killed between two statements.  *)
(***************************************************************************)
EXTENDS Naturals, Sequences, FiniteSets

CONSTANTS
    Tickets,      \* the tickets of the instance
    Dispatchers,  \* orchestrator processes alive at the same time
    Order,        \* the place of each ticket in the ORDER BY of ListAgentReady
    Titles,       \* ticket titles; a title gives the agent's branch its name
    Agents,       \* agent names a ticket may carry
    Supported,    \* those among them that runAgentCLI knows
    None,         \* SQL NULL
    MaxEdits,     \* bound: edits by staff
    MaxFaults     \* bound: failed database writes and killed processes

ASSUME DispatchAssumption ==
    /\ IsFiniteSet(Tickets) /\ IsFiniteSet(Dispatchers)
    /\ Order \in [Tickets -> Nat]
    /\ \A t, u \in Tickets : Order[t] = Order[u] => t = u
    /\ Titles # {} /\ Agents # {} /\ Supported \subseteq Agents
    /\ None \notin Titles \cup Agents \cup {"plan", "implement"}
    /\ MaxEdits \in Nat /\ MaxFaults \in Nat

(* "other" stands for backlog, review, done and cancelled.                 *)
Statuses == {"ready", "planning", "plan_review", "implementing", "testing", "other"}

VARIABLES
    ticket,   \* the row of each ticket
    work,     \* its worktree: branch checked out, uncommitted edits, commits not pushed
    disp,     \* each dispatcher: pc and the rows still to process, the current one first
    edits, faults,    \* how much of the bounds is used
    grants,   \* ghost: staff edits that left an agent mode on the ticket
    runs,     \* ghost: claims of the ticket that went through to an agent
    excuse,   \* ghost: something accounts for a ticket left in planning or implementing
    broken    \* ghost: a push of the ticket's commits failed or was cut off

vars == <<ticket, work, disp, edits, faults, grants, runs, excuse, broken>>

Claimed == [plan |-> "planning", implement |-> "implementing"]
Finished == [plan |-> "plan_review", implement |-> "testing"]

(* The rows ListAgentReady returns.                                        *)
Eligible(r) ==
    /\ r.live /\ ~r.archived
    /\ r.mode # None
    /\ r.status \in {"ready", "plan_review"}

Init ==
    /\ ticket \in [Tickets -> [status : {"ready"}, mode : {None}, agent : {None},
                               title : {CHOOSE x \in Titles : TRUE}, archived : {FALSE}, live : {TRUE}]]
    /\ work = [t \in Tickets |-> [branch |-> None, dirty |-> FALSE, ahead |-> FALSE]]
    /\ disp = [d \in Dispatchers |-> [pc |-> "idle", batch |-> <<>>]]
    /\ edits = 0 /\ faults = 0
    /\ grants = [t \in Tickets |-> 0]
    /\ runs = [t \in Tickets |-> 0]
    /\ excuse = [t \in Tickets |-> FALSE]
    /\ broken = [t \in Tickets |-> FALSE]

-----------------------------------------------------------------------------
(* What staff do to a ticket.                                              *)

Edit(t, row) ==
    /\ edits < MaxEdits
    /\ ticket[t].live
    /\ ticket' = [ticket EXCEPT ![t] = row]
    /\ edits' = edits + 1
    /\ grants' = [grants EXCEPT ![t] = IF row.mode # None THEN @ + 1 ELSE @]
    /\ UNCHANGED <<work, disp, faults, runs, broken>>

UpdateStatus(t, s) ==
    /\ Edit(t, [ticket[t] EXCEPT !.status = s])
    /\ excuse' = [excuse EXCEPT ![t] = TRUE]

UpdateAgentMode(t, m, a) ==
    /\ Edit(t, [ticket[t] EXCEPT !.mode = m, !.agent = a])
    /\ UNCHANGED excuse

UpdateTicket(t, title) ==
    /\ title # ticket[t].title
    /\ Edit(t, [ticket[t] EXCEPT !.title = title])
    /\ UNCHANGED excuse

ArchiveTicket(t) ==
    /\ Edit(t, [ticket[t] EXCEPT !.archived = TRUE])
    /\ UNCHANGED excuse

RestoreTicket(t) ==
    /\ ticket[t].archived
    /\ Edit(t, [ticket[t] EXCEPT !.archived = FALSE])
    /\ UNCHANGED excuse

DeleteTicket(t) ==
    /\ Edit(t, [ticket[t] EXCEPT !.live = FALSE])
    /\ UNCHANGED excuse

-----------------------------------------------------------------------------
(* The dispatcher.                                                         *)

Fault == faults < MaxFaults /\ faults' = faults + 1

(* The snapshot the dispatcher is working on.                              *)
Row(d) == Head(disp[d].batch)
At(d, pc) == disp[d].pc = pc
Goto(d, pc) == disp' = [disp EXCEPT ![d].pc = pc]

(* On to the next row, or back to the ticker.                              *)
NextRow(d) ==
    disp' = [disp EXCEPT ![d] =
               [pc |-> IF Len(@.batch) = 1 THEN "idle" ELSE "claim", batch |-> Tail(@.batch)]]

(* UPDATE tickets ... WHERE id: a row deleted meanwhile is matched by      *)
(* nothing and reported as no error.                                       *)
Write(t, row) ==
    ticket' = IF ticket[t].live THEN [ticket EXCEPT ![t] = row] ELSE ticket

(* Mutant: rows in plan_review are left out, so an approved plan waits.    *)
ListReadyOnly == {t \in Tickets : Eligible(ticket[t]) /\ ticket[t].status = "ready"}
ListAgentReady == {t \in Tickets : Eligible(ticket[t])}

(* The members of S, each once, by their places.                           *)
Sorted(S) ==
    {s \in [1..Cardinality(S) -> S] : \A i, j \in DOMAIN s : i < j => Order[s[i]] < Order[s[j]]}

(* One tick: the rows are listed once and then worked off one by one.      *)
ProcessTickets(d) ==
    LET Snapshot(t) == [id |-> t, mode |-> ticket[t].mode, agent |-> ticket[t].agent, title |-> ticket[t].title]
    IN  /\ At(d, "idle")
        /\ ListAgentReady # {}
        /\ \E ready \in Sorted(ListAgentReady) :
              disp' = [disp EXCEPT ![d] = [pc |-> "claim", batch |-> [i \in DOMAIN ready |-> Snapshot(ready[i])]]]
        /\ UNCHANGED <<ticket, work, edits, faults, grants, runs, excuse, broken>>

Claim(d) ==
    LET t == Row(d).id
    IN  /\ At(d, "claim")
        /\ Write(t, [ticket[t] EXCEPT !.status = Claimed[Row(d).mode]])
        /\ Goto(d, IF Row(d).mode = "plan" THEN "plan" ELSE "prepare")
        /\ runs' = [runs EXCEPT ![t] = @ + 1]
        /\ excuse' = [excuse EXCEPT ![t] = FALSE]
        /\ UNCHANGED <<work, edits, faults, grants, broken>>

ClaimFails(d) ==
    /\ At(d, "claim") /\ Fault
    /\ NextRow(d)
    /\ UNCHANGED <<ticket, work, edits, grants, runs, excuse, broken>>

(* Mutant: one early return forgets to report.                             *)
PostErrorSilent(d) ==
    /\ Goto(d, "clear")
    /\ UNCHANGED excuse
(* The error comment; clearing the mode is the step after it.              *)
PostError(d) ==
    /\ Goto(d, "clear")
    /\ excuse' = [excuse EXCEPT ![Row(d).id] = TRUE]

(* assembleContext and GenerateResponse: a plan, or an error.  The plan's  *)
(* comment and its usage entry may fail to be stored; the run goes on.     *)
GeneratePlan(d) ==
    /\ At(d, "plan")
    /\ \/ Goto(d, "status") /\ UNCHANGED excuse
       \/ PostError(d)
    /\ UNCHANGED <<ticket, work, edits, faults, grants, runs, broken>>

(* Context, organization, repository and worktree.  A worktree that exists *)
(* is reused as it is, whatever branch the new title asks for.             *)
CreateWorktree(t, title) ==
    work' = IF work[t].branch = None THEN [work EXCEPT ![t].branch = title] ELSE work

Prepare(d) ==
    /\ At(d, "prepare")
    /\ \/ /\ CreateWorktree(Row(d).id, Row(d).title)
          /\ Goto(d, "agent")
          /\ UNCHANGED excuse
       \/ PostError(d) /\ UNCHANGED work
    /\ UNCHANGED <<ticket, edits, faults, grants, runs, broken>>

(* The agent edits the worktree or not, and fails, is cut off after thirty *)
(* minutes, or succeeds; an agent the switch does not know fails at once.  *)
RunAgentCLI(d) ==
    LET t == Row(d).id
        agent == IF Row(d).agent = None THEN "claude" ELSE Row(d).agent
    IN  /\ At(d, "agent")
        /\ \/ /\ agent \in Supported
              /\ \E edited \in BOOLEAN : work' = [work EXCEPT ![t].dirty = @ \/ edited]
              /\ \/ Goto(d, "commit") /\ UNCHANGED excuse
                 \/ PostError(d)
           \/ agent \notin Supported /\ PostError(d) /\ UNCHANGED work
        /\ UNCHANGED <<ticket, edits, faults, grants, runs, broken>>

(* git add, diff, commit: with nothing staged there is nothing to push     *)
(* either, whatever earlier runs committed.                                *)
Commit(d) ==
    LET t == Row(d).id
    IN  /\ At(d, "commit")
        /\ \/ /\ work[t].dirty
              /\ work' = [work EXCEPT ![t].dirty = FALSE, ![t].ahead = TRUE]
              /\ Goto(d, "push") /\ UNCHANGED excuse
           \/ /\ ~work[t].dirty
              /\ Goto(d, "status") /\ UNCHANGED <<work, excuse>>
           \/ PostError(d) /\ UNCHANGED work
        /\ UNCHANGED <<ticket, edits, faults, grants, runs, broken>>

(* Mutant: a push that sends nothing is taken for a success.               *)
PushUnchecked(d, t) == work' = work /\ Goto(d, "status") /\ UNCHANGED <<excuse, broken>>
(* git push origin <branch of the snapshot's title>: the worktree's branch *)
(* must be of that name.                                                   *)
PushBranch(d, t) ==
    \/ /\ work[t].branch = Row(d).title
       /\ work' = [work EXCEPT ![t].ahead = FALSE]
       /\ broken' = [broken EXCEPT ![t] = FALSE]
       /\ Goto(d, "status") /\ UNCHANGED excuse
    \/ /\ PostError(d)
       /\ broken' = [broken EXCEPT ![t] = TRUE]
       /\ UNCHANGED work

Push(d) ==
    /\ At(d, "push")
    /\ PushBranch(d, Row(d).id)
    /\ UNCHANGED <<ticket, edits, faults, grants, runs>>

SetFinished(d) ==
    LET t == Row(d).id
    IN  /\ At(d, "status") /\ Goto(d, "clear")
        /\ \/ /\ Write(t, [ticket[t] EXCEPT !.status = Finished[Row(d).mode]])
              /\ UNCHANGED <<faults, excuse>>
           \/ /\ Fault
              /\ excuse' = [excuse EXCEPT ![t] = TRUE]
              /\ UNCHANGED ticket
        /\ UNCHANGED <<work, edits, grants, runs, broken>>

(* Mutant: the run ends without taking the ticket's mode away.             *)
ClearedKeepsMode(r, agent) == r
Cleared(r, agent) == [r EXCEPT !.mode = None, !.agent = agent]

(* The mode goes and the snapshot's agent comes back, whatever staff set   *)
(* while the run was under way.                                            *)
ClearAgentMode(d) ==
    LET t == Row(d).id
    IN  /\ At(d, "clear") /\ NextRow(d)
        /\ \/ Write(t, Cleared(ticket[t], Row(d).agent)) /\ UNCHANGED faults
           \/ Fault /\ UNCHANGED ticket
        /\ UNCHANGED <<work, edits, grants, runs, excuse, broken>>

(* The process is killed and another starts, with nothing in memory.       *)
Crash(d) ==
    /\ ~At(d, "idle") /\ Fault
    /\ disp' = [disp EXCEPT ![d] = [pc |-> "idle", batch |-> <<>>]]
    /\ excuse' = [excuse EXCEPT ![Row(d).id] = @ \/ ~At(d, "claim")]
    /\ broken' = [broken EXCEPT ![Row(d).id] = @ \/ At(d, "push")]
    /\ UNCHANGED <<ticket, work, edits, grants, runs>>

Step(d) ==
    \/ ProcessTickets(d) \/ Claim(d) \/ ClaimFails(d) \/ GeneratePlan(d) \/ Prepare(d)
    \/ RunAgentCLI(d) \/ Commit(d) \/ Push(d) \/ SetFinished(d) \/ ClearAgentMode(d)

Next ==
    \/ \E t \in Tickets :
          \/ \E s \in Statuses : UpdateStatus(t, s)
          \/ \E m \in {None, "plan", "implement"}, a \in Agents : UpdateAgentMode(t, m, a)
          \/ \E title \in Titles : UpdateTicket(t, title)
          \/ ArchiveTicket(t) \/ RestoreTicket(t) \/ DeleteTicket(t)
    \/ \E d \in Dispatchers : Step(d) \/ Crash(d)

Spec == Init /\ [][Next]_vars

(* The ticker fires every ten seconds and every call a step makes is bound *)
(* by a timeout, so an orchestrator that is not killed keeps going.        *)
FairSpec == Spec /\ \A d \in Dispatchers : WF_vars(Step(d))
-----------------------------------------------------------------------------
(* The type invariant; a dispatcher that is not idle has a row at hand.    *)
TypeOK ==
    /\ ticket \in [Tickets -> [status : Statuses, mode : {None, "plan", "implement"}, agent : Agents \cup {None},
                               title : Titles, archived : BOOLEAN, live : BOOLEAN]]
    /\ work \in [Tickets -> [branch : Titles \cup {None}, dirty : BOOLEAN, ahead : BOOLEAN]]
    /\ \A d \in Dispatchers :
          /\ disp[d].pc \in {"idle", "claim", "plan", "prepare", "agent", "commit", "push", "status", "clear"}
          /\ disp[d].pc = "idle" <=> disp[d].batch = <<>>
          /\ \A i \in DOMAIN disp[d].batch :
                /\ disp[d].batch[i].id \in Tickets
                /\ disp[d].batch[i].mode \in {"plan", "implement"}
    /\ edits \in 0..MaxEdits /\ faults \in 0..MaxFaults

(* A dispatcher that has claimed ticket t and has not finished with it.    *)
Busy(d, t) == disp[d].pc \notin {"idle", "claim"} /\ Row(d).id = t

(* No run without a cause: an agent is set to work on a ticket no more     *)
(* often than staff left it armed for one, once per process listing it,    *)
(* unless a write failed or a process was killed -- the status of a run    *)
(* and the mode that asked for it are taken back in two statements, and a  *)
(* ticket left in plan_review with its mode set is planned again.          *)
RunsAccounted ==
    \A t \in Tickets : runs[t] <= Cardinality(Dispatchers) * (grants[t] + faults)

(* A ticket is never left in planning or implementing without a reason a   *)
(* reader of the ticket or of the log can find: an error comment, a failed *)
(* write, a killed process, or staff who put it there.                     *)
LeftClaimed ==
    \A t \in Tickets :
        ticket[t].live /\ ticket[t].status \in {"planning", "implementing"} =>
            excuse[t] \/ \E d \in Dispatchers : Busy(d, t)

(* What an agent's run committed reaches the remote repository unless a    *)
(* push of it failed or was cut off: the commit and the push are two git   *)
(* commands, and the next run does not look at commits left behind.        *)
CommitsArePushed ==
    \A t \in Tickets :
        work[t].ahead => broken[t] \/ \E d \in Dispatchers : At(d, "push") /\ Row(d).id = t

(* A ticket armed for an agent does not wait for ever: it is claimed, or   *)
(* staff withdraw it.                                                      *)
ArmedIsServed == \A t \in Tickets : Eligible(ticket[t]) ~> ~Eligible(ticket[t])
=============================================================================
