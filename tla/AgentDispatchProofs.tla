------------------------- MODULE AgentDispatchProofs -------------------------
(***************************************************************************)
(* Proofs about AgentDispatch, for any number of tickets and orchestrator  *)
(* processes, whatever staff edit and whatever fails: why an agent runs,   *)
(* when a ticket is left claimed, what becomes of an agent's commits.      *)
(***************************************************************************)
EXTENDS AgentDispatch, FiniteSetTheorems, SequenceTheorems, TLAPS

Modes == {"plan", "implement"}
Stages == {"idle", "claim", "plan", "prepare", "agent", "commit", "push", "status", "clear"}
TicketRow == [status : Statuses, mode : Modes \cup {None}, agent : Agents \cup {None},
              title : Titles, archived : BOOLEAN, live : BOOLEAN]
Worktree == [branch : Titles \cup {None}, dirty : BOOLEAN, ahead : BOOLEAN]
Snapshots == [id : Tickets, mode : Modes, agent : Agents \cup {None}, title : Titles]

(* A dispatcher at work has rows, no ticket twice.                         *)
DispOK ==
    /\ disp \in [Dispatchers -> [pc : Stages, batch : Seq(Snapshots)]]
    /\ \A d \in Dispatchers :
          /\ At(d, "idle") <=> disp[d].batch = <<>>
          /\ \A i, j \in DOMAIN disp[d].batch : disp[d].batch[i].id = disp[d].batch[j].id => i = j

Typing ==
    /\ ticket \in [Tickets -> TicketRow]
    /\ work \in [Tickets -> Worktree]
    /\ DispOK
    /\ edits \in 0..MaxEdits /\ faults \in 0..MaxFaults
    /\ grants \in [Tickets -> Nat] /\ runs \in [Tickets -> Nat]
    /\ excuse \in [Tickets -> BOOLEAN] /\ broken \in [Tickets -> BOOLEAN]

(* Ticket t is among the rows d has yet to claim.                          *)
Pending(d, t) ==
    \E i \in DOMAIN disp[d].batch : disp[d].batch[i].id = t /\ (i > 1 \/ At(d, "claim"))

-----------------------------------------------------------------------------
(* The three ways a dispatcher moves: on within a row, to the next row,    *)
(* and out of memory.                                                      *)

\* A dispatcher that is not idle has a row at hand.
LEMMA RowType ==
  ASSUME DispOK, NEW d \in Dispatchers, ~At(d, "idle")
  PROVE  /\ disp[d].batch \in Seq(Snapshots) /\ disp[d].batch # <<>>
         /\ Len(disp[d].batch) \in Nat \ {0} /\ 1 \in DOMAIN disp[d].batch
         /\ Row(d) = disp[d].batch[1] /\ Row(d) \in Snapshots
<1>1. disp[d].batch \in Seq(Snapshots) /\ disp[d].batch # <<>>
  BY DEF DispOK
<1> QED
  BY <1>1, HeadTailProperties, EmptySeq, LenProperties, ElementOfSeq DEF Row

\* Within a row only the stage changes.
LEMMA GotoStep ==
  ASSUME DispOK, NEW d \in Dispatchers, ~At(d, "idle"),
         NEW pc \in Stages \ {"idle"}, Goto(d, pc)
  PROVE  /\ DispOK'
         /\ \A e \in Dispatchers : disp'[e].batch = disp[e].batch /\ Row(e)' = Row(e)
         /\ \A e \in Dispatchers : disp'[e].pc = IF e = d THEN pc ELSE disp[e].pc
<1>1. disp' = [disp EXCEPT ![d] = [pc |-> pc, batch |-> disp[d].batch]]
  <2>1. [disp[d] EXCEPT !.pc = pc] = [pc |-> pc, batch |-> disp[d].batch]
    BY DEF DispOK
  <2> QED
    BY <2>1 DEF Goto
<1>2. disp' \in [Dispatchers -> [pc : Stages, batch : Seq(Snapshots)]]
  BY <1>1 DEF DispOK
<1>3. \A e \in Dispatchers : disp'[e].batch = disp[e].batch /\ disp'[e].pc = IF e = d THEN pc ELSE disp[e].pc
  BY <1>1 DEF DispOK
<1> QED
  BY <1>2, <1>3 DEF DispOK, At, Row

\* On to the next row: nothing new is pending, and the row left is not at hand.
LEMMA NextRowStep ==
  ASSUME DispOK, NEW d \in Dispatchers, ~At(d, "idle"), NextRow(d)
  PROVE  /\ DispOK'
         /\ disp'[d].pc \in {"idle", "claim"}
         /\ \A e \in Dispatchers : e # d => disp'[e] = disp[e]
         /\ \A e \in Dispatchers : \A t : Pending(e, t)' => Pending(e, t)
<1> DEFINE b == disp[d].batch
           n == Len(b)
           q == [pc |-> IF n = 1 THEN "idle" ELSE "claim", batch |-> Tail(b)]
<1>1. b \in Seq(Snapshots) /\ b # <<>> /\ n \in Nat \ {0} /\ DOMAIN b = 1..n
  BY RowType, LenProperties
<1>2. /\ Tail(b) \in Seq(Snapshots) /\ Len(Tail(b)) = n - 1 /\ DOMAIN Tail(b) = 1..(n - 1)
      /\ \A i \in 1..(n - 1) : Tail(b)[i] = b[i + 1]
  BY <1>1, HeadTailProperties, LenProperties
<1>3. q \in [pc : Stages, batch : Seq(Snapshots)]
  BY <1>2 DEF Stages
<1>4. disp' = [disp EXCEPT ![d] = q]
  BY DEF NextRow
<1>5. /\ disp' \in [Dispatchers -> [pc : Stages, batch : Seq(Snapshots)]]
      /\ disp'[d] = q
      /\ \A e \in Dispatchers : e # d => disp'[e] = disp[e]
  BY <1>3, <1>4 DEF DispOK
<1>6. q.pc = "idle" <=> q.batch = <<>>
  <2>1. Tail(b) = <<>> <=> Len(Tail(b)) = 0
    BY <1>2, EmptySeq
  <2>2. q.pc = "idle" <=> n = 1
    OBVIOUS
  <2> QED
    BY <1>1, <1>2, <2>1, <2>2
<1>7. \A i, j \in DOMAIN b : b[i].id = b[j].id => i = j
  BY DEF DispOK
<1>8. \A i, j \in DOMAIN q.batch : q.batch[i].id = q.batch[j].id => i = j
  BY <1>1, <1>2, <1>7
<1>9. DispOK'
  <2> HIDE DEF q
  <2>1. ASSUME NEW e \in Dispatchers
        PROVE  /\ disp'[e].pc = "idle" <=> disp'[e].batch = <<>>
               /\ \A i, j \in DOMAIN disp'[e].batch :
                     disp'[e].batch[i].id = disp'[e].batch[j].id => i = j
    <3>1. CASE e = d
      BY <1>5, <1>6, <1>8, <3>1
    <3>2. CASE e # d
      BY <1>5, <3>2 DEF DispOK, At
    <3> QED
      BY <3>1, <3>2
  <2> QED
    BY <1>5, <2>1 DEF DispOK, At
<1>10. ASSUME NEW e \in Dispatchers, NEW t, Pending(e, t)' PROVE Pending(e, t)
  <2>1. CASE e # d
    BY <1>5, <1>10, <2>1 DEF Pending, At
  <2>2. CASE e = d
    <3>0. disp'[d].batch = Tail(b)
      BY <1>5
    <3>1. PICK i \in 1..(n - 1) : b[i + 1].id = t
      <4>1. PICK i \in DOMAIN Tail(b) : Tail(b)[i].id = t
        BY <1>10, <2>2, <3>0 DEF Pending
      <4> QED
        BY <1>2, <4>1
    <3>2. i + 1 \in DOMAIN b /\ i + 1 > 1
      BY <1>1
    <3> QED
      BY <2>2, <3>1, <3>2 DEF Pending
  <2> QED
    BY <2>1, <2>2
<1> QED
  BY <1>5, <1>9, <1>10

\* A killed process forgets its rows.
LEMMA CrashStep ==
  ASSUME DispOK, NEW d \in Dispatchers,
         disp' = [disp EXCEPT ![d] = [pc |-> "idle", batch |-> <<>>]]
  PROVE  /\ DispOK'
         /\ disp'[d].pc = "idle" /\ disp'[d].batch = <<>>
         /\ \A e \in Dispatchers : e # d => disp'[e] = disp[e]
<1>1. /\ disp' \in [Dispatchers -> [pc : Stages, batch : Seq(Snapshots)]]
      /\ disp'[d] = [pc |-> "idle", batch |-> <<>>]
      /\ \A e \in Dispatchers : e # d => disp'[e] = disp[e]
  BY EmptySeq DEF DispOK, Stages
<1> QED
  BY <1>1 DEF DispOK, At

\* The rows a tick lists are those of eligible tickets, each once.
LEMMA ListStep ==
  ASSUME Typing, NEW d \in Dispatchers, ProcessTickets(d)
  PROVE  /\ DispOK'
         /\ disp'[d].pc = "claim"
         /\ \A e \in Dispatchers : e # d => disp'[e] = disp[e]
         /\ \A i \in DOMAIN disp'[d].batch : disp'[d].batch[i].id \in ListAgentReady
<1> DEFINE Snapshot(t) == [id |-> t, mode |-> ticket[t].mode, agent |-> ticket[t].agent, title |-> ticket[t].title]
           n == Cardinality(ListAgentReady)
<1>1. PICK ready \in Sorted(ListAgentReady) :
        disp' = [disp EXCEPT ![d] = [pc |-> "claim", batch |-> [i \in DOMAIN ready |-> Snapshot(ready[i])]]]
  BY DEF ProcessTickets
<1> DEFINE b == [i \in 1..n |-> Snapshot(ready[i])]
<1>2. IsFiniteSet(ListAgentReady) /\ ListAgentReady # {} /\ ListAgentReady \subseteq Tickets
  BY DispatchAssumption, FS_Subset DEF ListAgentReady, ProcessTickets
<1>3. n \in Nat /\ n # 0
  BY <1>2, FS_CardinalityType, FS_EmptySet
<1>4. /\ ready \in [1..n -> ListAgentReady]
      /\ \A i, j \in 1..n : i < j => Order[ready[i]] < Order[ready[j]]
  BY DEF Sorted
<1>5. \A t \in ListAgentReady : Snapshot(t) \in Snapshots
  BY DEF ListAgentReady, Eligible, Typing, TicketRow, Snapshots
<1>6. b \in Seq(Snapshots) /\ DOMAIN b = 1..n /\ b # <<>>
  <2>1. b \in [1..n -> Snapshots]
    BY <1>4, <1>5
  <2>2. b \in Seq(Snapshots) /\ DOMAIN b = 1..n
    BY <1>3, <2>1, SeqDef
  <2>3. b # <<>>
    <3>1. 1 \in 1..n
      BY <1>3
    <3>2. 1 \in DOMAIN b
      BY <2>2, <3>1
    <3> HIDE DEF b
    <3> QED
      BY <3>2
  <2> QED
    BY <2>2, <2>3
<1>7. \A i \in 1..n : b[i].id = ready[i] /\ b[i].id \in ListAgentReady
  BY <1>4
<1>8. ASSUME NEW i \in 1..n, NEW j \in 1..n, b[i].id = b[j].id PROVE i = j
  <2>1. Order[ready[i]] \in Nat /\ Order[ready[j]] \in Nat /\ Order[ready[i]] = Order[ready[j]]
    <3>1. ready[i] \in Tickets /\ ready[j] \in Tickets /\ ready[i] = ready[j]
      BY <1>2, <1>4, <1>7, <1>8
    <3> QED
      BY <3>1, DispatchAssumption
  <2> QED
    BY <1>3, <1>4, <2>1
<1>9. disp' = [disp EXCEPT ![d] = [pc |-> "claim", batch |-> b]]
  BY <1>1, <1>4
<1>10. /\ disp' \in [Dispatchers -> [pc : Stages, batch : Seq(Snapshots)]]
       /\ disp'[d] = [pc |-> "claim", batch |-> b]
       /\ \A e \in Dispatchers : e # d => disp'[e] = disp[e]
  BY <1>6, <1>9 DEF Typing, DispOK, Stages
<1> HIDE DEF b
<1>11. ASSUME NEW e \in Dispatchers
       PROVE  /\ disp'[e].pc = "idle" <=> disp'[e].batch = <<>>
              /\ \A i, j \in DOMAIN disp'[e].batch :
                    disp'[e].batch[i].id = disp'[e].batch[j].id => i = j
  <2>1. CASE e = d
    <3>1. disp'[d].pc = "claim" /\ disp'[d].batch = b
      BY <1>10
    <3>2. \A i, j \in DOMAIN b : b[i].id = b[j].id => i = j
      BY <1>6, <1>8
    <3> QED
      BY <1>6, <2>1, <3>1, <3>2
  <2>2. CASE e # d
    BY <1>10, <2>2 DEF Typing, DispOK, At
  <2> QED
    BY <2>1, <2>2
<1> QED
  BY <1>6, <1>7, <1>10, <1>11 DEF DispOK, At

-----------------------------------------------------------------------------
(* The type invariant.                                                     *)

\* An edit by staff keeps the types, if the row it writes is one.
LEMMA EditTyping ==
  ASSUME Typing, NEW t \in Tickets, NEW row \in TicketRow, Edit(t, row),
         excuse' \in [Tickets -> BOOLEAN]
  PROVE  Typing'
<1>1. ticket' \in [Tickets -> TicketRow]
  BY DEF Edit, Typing
<1>2. grants' \in [Tickets -> Nat]
  BY DEF Edit, Typing
<1>3. edits' \in 0..MaxEdits
  BY DispatchAssumption DEF Edit, Typing
<1>4. DispOK'
  BY DEF Edit, Typing, DispOK, At
<1> QED
  BY <1>1, <1>2, <1>3, <1>4 DEF Edit, Typing

\* What staff do to a ticket keeps the types.
LEMMA StaffTyping ==
  ASSUME Typing, NEW t \in Tickets
  PROVE  /\ \A s \in Statuses : UpdateStatus(t, s) => Typing'
         /\ \A m \in Modes \cup {None}, a \in Agents : UpdateAgentMode(t, m, a) => Typing'
         /\ \A title \in Titles : UpdateTicket(t, title) => Typing'
         /\ ArchiveTicket(t) => Typing'
         /\ RestoreTicket(t) => Typing'
         /\ DeleteTicket(t) => Typing'
<1>1. ticket[t] \in TicketRow
  BY DEF Typing
<1>2. /\ \A s \in Statuses : [ticket[t] EXCEPT !.status = s] \in TicketRow
      /\ \A m \in Modes \cup {None}, a \in Agents : [ticket[t] EXCEPT !.mode = m, !.agent = a] \in TicketRow
      /\ \A title \in Titles : [ticket[t] EXCEPT !.title = title] \in TicketRow
      /\ \A x \in BOOLEAN : [ticket[t] EXCEPT !.archived = x] \in TicketRow
      /\ [ticket[t] EXCEPT !.live = FALSE] \in TicketRow
  BY <1>1 DEF TicketRow
<1>3. /\ [excuse EXCEPT ![t] = TRUE] \in [Tickets -> BOOLEAN]
      /\ excuse \in [Tickets -> BOOLEAN]
  BY DEF Typing
<1> QED
  BY <1>2, <1>3, EditTyping
     DEF UpdateStatus, UpdateAgentMode, UpdateTicket, ArchiveTicket, RestoreTicket, DeleteTicket

\* What a dispatcher does keeps the types.
LEMMA DispatcherTyping ==
  ASSUME Typing, NEW d \in Dispatchers, Step(d) \/ Crash(d)
  PROVE  Typing'
<1>d. DispOK
  BY DEF Typing
<1>r. ~At(d, "idle") => Row(d) \in Snapshots /\ Row(d).id \in Tickets /\ Row(d).mode \in Modes
  BY <1>d, RowType DEF Snapshots
<1>s. {"claim", "plan", "prepare", "agent", "commit", "push", "status", "clear"} \subseteq Stages \ {"idle"}
  BY DEF Stages
<1>p. ASSUME PostError(d), ~At(d, "idle") PROVE DispOK' /\ excuse' \in [Tickets -> BOOLEAN]
  BY <1>d, <1>p, <1>r, <1>s, GotoStep DEF PostError, Typing
<1>f. Fault => faults' \in 0..MaxFaults
  BY DispatchAssumption DEF Fault, Typing
<1>w. ASSUME NEW t \in Tickets, NEW row \in TicketRow, Write(t, row) PROVE ticket' \in [Tickets -> TicketRow]
  BY <1>w DEF Write, Typing
<1>x. ASSUME NEW t \in Tickets
      PROVE  /\ \A x \in BOOLEAN : [work EXCEPT ![t].dirty = x] \in [Tickets -> Worktree]
             /\ \A x \in BOOLEAN : [work EXCEPT ![t].ahead = x] \in [Tickets -> Worktree]
             /\ [work EXCEPT ![t].dirty = FALSE, ![t].ahead = TRUE] \in [Tickets -> Worktree]
             /\ work[t].dirty \in BOOLEAN
  <2>1. work \in [Tickets -> Worktree]
    BY DEF Typing
  <2>2. \A w \in Worktree, x \in BOOLEAN :
           [w EXCEPT !.dirty = x] \in Worktree /\ [w EXCEPT !.ahead = x] \in Worktree /\ w.dirty \in BOOLEAN
    BY DEF Worktree
  <2> HIDE DEF Worktree
  <2>3. [[work[t] EXCEPT !.dirty = FALSE] EXCEPT !.ahead = TRUE] \in Worktree
    BY <2>1, <2>2
  <2>4. [work EXCEPT ![t].dirty = FALSE, ![t].ahead = TRUE]
          = [work EXCEPT ![t] = [[work[t] EXCEPT !.dirty = FALSE] EXCEPT !.ahead = TRUE]]
    BY <2>1
  <2> QED
    BY <2>1, <2>2, <2>3, <2>4
<1>1. CASE ProcessTickets(d)
  BY <1>1, ListStep DEF ProcessTickets, Typing
<1>2. CASE Claim(d)
  <2>1. ~At(d, "idle")
    BY <1>2 DEF Claim, At
  <2>2. [ticket[Row(d).id] EXCEPT !.status = Claimed[Row(d).mode]] \in TicketRow
    <3>1. PICK x \in Statuses : x = Claimed[Row(d).mode]
      BY <1>r, <2>1 DEF Claimed, Modes, Statuses
    <3> QED
      BY <1>r, <2>1, <3>1 DEF Typing, TicketRow
  <2>3. ticket' \in [Tickets -> TicketRow]
    BY <1>2, <1>r, <1>w, <2>1, <2>2 DEF Claim
  <2>4. DispOK'
    BY <1>2, <1>d, <1>s, <2>1, GotoStep DEF Claim
  <2>5. runs' \in [Tickets -> Nat] /\ excuse' \in [Tickets -> BOOLEAN]
    BY <1>2, <1>r, <2>1 DEF Claim, Typing
  <2> QED
    BY <1>2, <2>3, <2>4, <2>5 DEF Claim, Typing
<1>3. CASE ClaimFails(d)
  <2>1. ~At(d, "idle")
    BY <1>3 DEF ClaimFails, At
  <2>2. DispOK'
    BY <1>3, <1>d, <2>1, NextRowStep DEF ClaimFails
  <2> QED
    BY <1>3, <1>f, <2>2 DEF ClaimFails, Typing
<1>4. CASE GeneratePlan(d)
  <2>1. ~At(d, "idle")
    BY <1>4 DEF GeneratePlan, At
  <2>2. DispOK' /\ excuse' \in [Tickets -> BOOLEAN]
    BY <1>4, <1>d, <1>p, <1>s, <2>1, GotoStep DEF GeneratePlan, Typing
  <2> QED
    BY <1>4, <2>2 DEF GeneratePlan, Typing
<1>5. CASE Prepare(d)
  <2>1. ~At(d, "idle")
    BY <1>5 DEF Prepare, At
  <2>2. DispOK' /\ excuse' \in [Tickets -> BOOLEAN]
    BY <1>5, <1>d, <1>p, <1>s, <2>1, GotoStep DEF Prepare, Typing
  <2>3. work' \in [Tickets -> Worktree]
    BY <1>5, <1>r, <2>1 DEF Prepare, CreateWorktree, Typing, Snapshots, Worktree
  <2> QED
    BY <1>5, <2>2, <2>3 DEF Prepare, Typing
<1>6. CASE RunAgentCLI(d)
  <2>1. ~At(d, "idle")
    BY <1>6 DEF RunAgentCLI, At
  <2>2. DispOK' /\ excuse' \in [Tickets -> BOOLEAN]
    BY <1>6, <1>d, <1>p, <1>s, <2>1, GotoStep DEF RunAgentCLI, Typing
  <2>3. work' \in [Tickets -> Worktree]
    <3>1. \A edited \in BOOLEAN : (work[Row(d).id].dirty \/ edited) \in BOOLEAN
      BY <1>r, <1>x, <2>1
    <3>2. \A edited \in BOOLEAN :
            [work EXCEPT ![Row(d).id].dirty = @ \/ edited] \in [Tickets -> Worktree]
      BY <1>r, <1>x, <2>1, <3>1, Zenon
    <3> QED
      BY <1>6, <3>2 DEF RunAgentCLI, Typing
  <2> QED
    BY <1>6, <2>2, <2>3 DEF RunAgentCLI, Typing
<1>7. CASE Commit(d)
  <2>1. ~At(d, "idle")
    BY <1>7 DEF Commit, At
  <2>2. DispOK' /\ excuse' \in [Tickets -> BOOLEAN]
    BY <1>7, <1>d, <1>p, <1>s, <2>1, GotoStep DEF Commit, Typing
  <2>3. work' \in [Tickets -> Worktree]
    <3>1. work' = work \/ work' = [work EXCEPT ![Row(d).id].dirty = FALSE, ![Row(d).id].ahead = TRUE]
      BY <1>7 DEF Commit
    <3>2. /\ [work EXCEPT ![Row(d).id].dirty = FALSE, ![Row(d).id].ahead = TRUE] \in [Tickets -> Worktree]
          /\ work \in [Tickets -> Worktree]
      BY <1>r, <1>x, <2>1, Zenon DEF Typing
    <3> QED
      BY <3>1, <3>2, Zenon
  <2> QED
    BY <1>7, <2>2, <2>3 DEF Commit, Typing
<1>8. CASE Push(d)
  <2>1. ~At(d, "idle")
    BY <1>8 DEF Push, At
  <2>2. DispOK' /\ excuse' \in [Tickets -> BOOLEAN]
    BY <1>8, <1>d, <1>p, <1>s, <2>1, GotoStep DEF Push, PushBranch, Typing
  <2>3. /\ work' \in [Tickets -> Worktree]
        /\ broken' \in [Tickets -> BOOLEAN]
    <3>1. work' = work \/ work' = [work EXCEPT ![Row(d).id].ahead = FALSE]
      BY <1>8 DEF Push, PushBranch
    <3>2. \E x \in BOOLEAN : broken' = [broken EXCEPT ![Row(d).id] = x]
      BY <1>8 DEF Push, PushBranch
    <3>3. /\ [work EXCEPT ![Row(d).id].ahead = FALSE] \in [Tickets -> Worktree]
          /\ work \in [Tickets -> Worktree]
      BY <1>r, <1>x, <2>1, Zenon DEF Typing
    <3>4. work' \in [Tickets -> Worktree]
      BY <3>1, <3>3, Zenon
    <3> QED
      BY <1>r, <2>1, <3>2, <3>4 DEF Typing
  <2> QED
    BY <1>8, <2>2, <2>3 DEF Push, Typing
<1>9. CASE SetFinished(d)
  <2>1. ~At(d, "idle")
    BY <1>9 DEF SetFinished, At
  <2>2. DispOK'
    BY <1>9, <1>d, <1>s, <2>1, GotoStep DEF SetFinished
  <2>3. [ticket[Row(d).id] EXCEPT !.status = Finished[Row(d).mode]] \in TicketRow
    <3>1. PICK x \in Statuses : x = Finished[Row(d).mode]
      BY <1>r, <2>1 DEF Finished, Modes, Statuses
    <3> QED
      BY <1>r, <2>1, <3>1 DEF Typing, TicketRow
  <2>4. ticket' \in [Tickets -> TicketRow]
    BY <1>9, <1>r, <1>w, <2>1, <2>3 DEF SetFinished, Typing
  <2>5. excuse' \in [Tickets -> BOOLEAN] /\ faults' \in 0..MaxFaults
    BY <1>9, <1>r, <1>f, <2>1 DEF SetFinished, Typing
  <2> QED
    BY <1>9, <2>2, <2>4, <2>5 DEF SetFinished, Typing
<1>10. CASE ClearAgentMode(d)
  <2>1. ~At(d, "idle")
    BY <1>10 DEF ClearAgentMode, At
  <2>2. DispOK'
    BY <1>10, <1>d, <2>1, NextRowStep DEF ClearAgentMode
  <2>3. Cleared(ticket[Row(d).id], Row(d).agent) \in TicketRow
    <3>1. \A r \in TicketRow, a \in Agents \cup {None} : Cleared(r, a) \in TicketRow
      <4>1. \A r \in TicketRow : [r EXCEPT !.mode = None] \in TicketRow
        BY DEF TicketRow
      <4>2. \A r \in TicketRow, a \in Agents \cup {None} : [r EXCEPT !.agent = a] \in TicketRow
        BY DEF TicketRow
      <4> SUFFICES ASSUME NEW r \in TicketRow, NEW a \in Agents \cup {None}
                   PROVE  Cleared(r, a) \in TicketRow
        OBVIOUS
      <4>3. PICK q \in TicketRow : q = [r EXCEPT !.mode = None]
        BY <4>1
      <4>4. Cleared(r, a) = [q EXCEPT !.agent = a]
        BY <4>3 DEF Cleared, TicketRow
      <4> QED
        BY <4>2, <4>4
    <3>2. ticket[Row(d).id] \in TicketRow /\ Row(d).agent \in Agents \cup {None}
      BY <1>r, <2>1 DEF Typing, Snapshots
    <3> QED
      BY <3>1, <3>2
  <2>4. ticket' \in [Tickets -> TicketRow]
    BY <1>10, <1>r, <1>w, <2>1, <2>3 DEF ClearAgentMode, Typing
  <2>5. faults' \in 0..MaxFaults
    BY <1>10, <1>f DEF ClearAgentMode, Typing
  <2> QED
    BY <1>10, <2>2, <2>4, <2>5 DEF ClearAgentMode, Typing
<1>11. CASE Crash(d)
  <2>1. DispOK' /\ excuse' \in [Tickets -> BOOLEAN] /\ broken' \in [Tickets -> BOOLEAN]
    BY <1>11, <1>d, <1>r, CrashStep DEF Crash, Typing, At
  <2> QED
    BY <1>11, <1>f, <2>1 DEF Crash, Typing
<1> QED
  BY <1>1, <1>2, <1>3, <1>4, <1>5, <1>6, <1>7, <1>8, <1>9, <1>10, <1>11 DEF Step

\* Rows, worktrees and dispatchers keep their shapes, and a tick never lists a
\* ticket twice.
LEMMA TypingHolds == Spec => []Typing
<1>1. Init => Typing
  <2> SUFFICES ASSUME Init PROVE Typing
    OBVIOUS
  <2>1. ticket \in [Tickets -> TicketRow]
    <3>1. (CHOOSE x \in Titles : TRUE) \in Titles
      BY DispatchAssumption
    <3> QED
      BY <3>1 DEF Init, TicketRow, Statuses
  <2>2. DispOK
    BY EmptySeq DEF Init, DispOK, Stages, At
  <2>3. edits \in 0..MaxEdits /\ faults \in 0..MaxFaults
    BY DispatchAssumption DEF Init
  <2> QED
    BY <2>1, <2>2, <2>3 DEF Init, Typing, Worktree
<1>2. Typing /\ [Next]_vars => Typing'
  <2> SUFFICES ASSUME Typing, [Next]_vars PROVE Typing'
    OBVIOUS
  <2>1. CASE UNCHANGED vars
    BY <2>1 DEF vars, Typing, DispOK, At
  <2>2. CASE Next
    BY <2>2, StaffTyping, DispatcherTyping DEF Next, Modes
  <2> QED
    BY <2>1, <2>2
<1> QED
  BY <1>1, <1>2, PTL DEF Spec

\* The type invariant of the model.
THEOREM TypeCorrect == Spec => []TypeOK
<1>1. Typing => TypeOK
  <2> SUFFICES ASSUME Typing PROVE TypeOK
    OBVIOUS
  <2>1. ASSUME NEW d \in Dispatchers, NEW i \in DOMAIN disp[d].batch
        PROVE  disp[d].batch[i].id \in Tickets /\ disp[d].batch[i].mode \in Modes
    <3>1. disp[d].batch \in Seq(Snapshots)
      BY DEF Typing, DispOK
    <3>2. disp[d].batch[i] \in Snapshots
      BY <2>1, <3>1, LenProperties, ElementOfSeq
    <3> QED
      BY <3>2 DEF Snapshots
  <2> QED
    BY <2>1 DEF Typing, TypeOK, DispOK, TicketRow, Worktree, Modes, Stages, At
<1> QED
  BY <1>1, TypingHolds, PTL

-----------------------------------------------------------------------------
(* What other dispatchers see of a step, and what the tickets see.         *)

\* A dispatcher's step leaves the others where they are.
LEMMA OthersStay ==
  ASSUME Typing, NEW d \in Dispatchers, Step(d) \/ Crash(d),
         NEW e \in Dispatchers, e # d
  PROVE  /\ disp'[e] = disp[e]
         /\ Row(e)' = Row(e)
         /\ \A pc : At(e, pc)' <=> At(e, pc)
         /\ \A t : (Busy(e, t)' <=> Busy(e, t)) /\ (Pending(e, t)' <=> Pending(e, t))
<1>1. \E q : disp' = [disp EXCEPT ![d] = q]
  BY DEF Step, Crash, ProcessTickets, Claim, ClaimFails, GeneratePlan, Prepare, RunAgentCLI,
         Commit, Push, PushBranch, PostError, SetFinished, ClearAgentMode, Goto, NextRow
<1>2. disp'[e] = disp[e]
  BY <1>1 DEF Typing, DispOK
<1> QED
  BY <1>2 DEF Row, At, Busy, Pending

\* Staff touch neither the dispatchers nor the worktrees.
LEMMA StaffStep ==
  ASSUME Typing, NEW t \in Tickets, NEW row, Edit(t, row)
  PROVE  /\ UNCHANGED <<work, disp, faults, runs, broken>>
         /\ \A e \in Dispatchers : \A u :
              /\ Busy(e, u)' <=> Busy(e, u)
              /\ Pending(e, u)' <=> Pending(e, u)
              /\ \A pc : At(e, pc)' <=> At(e, pc)
         /\ ticket[t].live
         /\ \A u \in Tickets : ticket'[u] = IF u = t THEN row ELSE ticket[u]
         /\ \A u \in Tickets : grants'[u] = IF u = t /\ row.mode # None THEN grants[u] + 1 ELSE grants[u]
BY DEF Edit, Typing, DispOK, Row, At, Busy, Pending

\* A run that goes on keeps its ticket and the rows still to be claimed.
LEMMA RunGoesOn ==
  ASSUME Typing, NEW d \in Dispatchers, ~At(d, "idle"), ~At(d, "claim"),
         NEW pc \in Stages \ {"idle", "claim"}, Goto(d, pc)
  PROVE  /\ \A t : (Busy(d, t)' <=> Busy(d, t)) /\ (Pending(d, t)' <=> Pending(d, t))
         /\ Busy(d, Row(d).id)
         /\ \A x : At(d, x)' <=> x = pc
<1>1. /\ disp'[d].batch = disp[d].batch /\ Row(d)' = Row(d) /\ disp'[d].pc = pc
  BY GotoStep DEF Typing
<1> QED
  BY <1>1 DEF Busy, Pending, At, Stages

-----------------------------------------------------------------------------
(* Commits.                                                                *)

\* What an agent's run committed reaches the remote repository, unless a push of
\* it failed or was cut off.  The property is inductive as it stands.
THEOREM CommittedIsPushed == Spec => []CommitsArePushed
<1>1. Init => CommitsArePushed
  BY DEF Init, CommitsArePushed
<1>2. Typing /\ CommitsArePushed /\ [Next]_vars => CommitsArePushed'
  <2> SUFFICES ASSUME Typing, CommitsArePushed, [Next]_vars,
                      NEW t \in Tickets, work'[t].ahead
               PROVE  broken'[t] \/ \E e \in Dispatchers : (At(e, "push") /\ Row(e).id = t)'
    BY DEF CommitsArePushed
  <2>1. work[t].ahead => broken[t] \/ \E e \in Dispatchers : At(e, "push") /\ Row(e).id = t
    BY DEF CommitsArePushed
  <2>2. CASE UNCHANGED <<work, disp, broken>>
    BY <2>1, <2>2 DEF At, Row
  <2>3. ASSUME NEW d \in Dispatchers, Step(d) \/ Crash(d)
        PROVE  broken'[t] \/ \E e \in Dispatchers : (At(e, "push") /\ Row(e).id = t)'
    <3>1. ASSUME work'[t].ahead => work[t].ahead, broken[t] => broken'[t], ~At(d, "push")
          PROVE  broken'[t] \/ \E e \in Dispatchers : (At(e, "push") /\ Row(e).id = t)'
      <4>1. CASE broken[t]
        BY <3>1, <4>1
      <4>2. CASE ~broken[t]
        <5>1. PICK e \in Dispatchers : At(e, "push") /\ Row(e).id = t
          BY <2>1, <3>1, <4>2
        <5>2. e # d
          BY <3>1, <5>1
        <5> QED
          BY <2>3, <5>1, <5>2, OthersStay
      <4> QED
        BY <4>1, <4>2
    <3>2. CASE /\ UNCHANGED <<work, broken>> /\ ~At(d, "push")
      BY <3>1, <3>2
    <3>3. CASE ProcessTickets(d) \/ Claim(d) \/ ClaimFails(d) \/ GeneratePlan(d) \/ SetFinished(d) \/ ClearAgentMode(d)
      BY <3>2, <3>3 DEF ProcessTickets, Claim, ClaimFails, GeneratePlan, SetFinished, ClearAgentMode, At
    <3>4. CASE Prepare(d) \/ RunAgentCLI(d)
      <4>1. work'[t].ahead => work[t].ahead
        <5>1. \/ work' = work
              \/ work' = [work EXCEPT ![Row(d).id].branch = Row(d).title]
              \/ \E x : work' = [work EXCEPT ![Row(d).id].dirty = x]
          BY <3>4 DEF Prepare, CreateWorktree, RunAgentCLI
        <5>2. work[t] \in Worktree /\ work \in [Tickets -> Worktree]
          BY DEF Typing
        <5>3. ASSUME NEW x PROVE [work EXCEPT ![Row(d).id].dirty = x][t].ahead = work[t].ahead
          BY <5>2 DEF Worktree
        <5>4. [work EXCEPT ![Row(d).id].branch = Row(d).title][t].ahead = work[t].ahead
          BY <5>2 DEF Worktree
        <5> QED
          BY <5>1, <5>3, <5>4
      <4>2. broken' = broken /\ ~At(d, "push")
        BY <3>4 DEF Prepare, RunAgentCLI, At
      <4> QED
        BY <3>1, <4>1, <4>2
    <3>5. CASE Commit(d)
      <4>1. broken' = broken /\ ~At(d, "push") /\ ~At(d, "idle")
        BY <3>5 DEF Commit, At
      <4>2. CASE work' = work
        BY <3>2, <4>1, <4>2
      <4>3. CASE work' # work
        <5>1. Goto(d, "push") /\ work' = [work EXCEPT ![Row(d).id].dirty = FALSE, ![Row(d).id].ahead = TRUE]
          BY <3>5, <4>3 DEF Commit
        <5>2. Row(d)' = Row(d) /\ At(d, "push")'
          BY <4>1, <5>1, GotoStep DEF Typing, Stages, At
        <5>3. t # Row(d).id => work'[t] = work[t]
          BY <5>1 DEF Typing
        <5> QED
          BY <3>1, <4>1, <5>2, <5>3
      <4> QED
        BY <4>2, <4>3
    <3>6. CASE Push(d)
      <4>1. Row(d).id \in Tickets
        BY <3>6, RowType DEF Push, At, Typing, Snapshots
      <4>2. CASE t = Row(d).id
        <5>1. ~work'[t].ahead \/ broken'[t]
          BY <3>6, <4>1, <4>2 DEF Push, PushBranch, Typing, Worktree
        <5> QED
          BY <5>1
      <4>3. CASE t # Row(d).id
        <5>1. work'[t] = work[t] /\ broken'[t] = broken[t]
          BY <3>6, <4>1, <4>3 DEF Push, PushBranch, Typing
        <5>2. CASE broken[t]
          BY <5>1, <5>2
        <5>3. CASE ~broken[t]
          <6>1. PICK e \in Dispatchers : At(e, "push") /\ Row(e).id = t
            BY <2>1, <5>1, <5>3
          <6>2. e # d
            BY <4>3, <6>1
          <6> QED
            BY <2>3, <6>1, <6>2, OthersStay
        <5> QED
          BY <5>2, <5>3
      <4> QED
        BY <4>2, <4>3
    <3>7. CASE Crash(d)
      <4>1. Row(d).id \in Tickets
        BY <3>7, RowType DEF Crash, Typing, Snapshots
      <4>2. work' = work /\ broken' = [broken EXCEPT ![Row(d).id] = @ \/ At(d, "push")]
        BY <3>7 DEF Crash
      <4>3. broken[t] => broken'[t]
        BY <4>1, <4>2 DEF Typing
      <4>4. CASE At(d, "push") /\ t = Row(d).id
        BY <4>1, <4>2, <4>4 DEF Typing
      <4>5. CASE ~(At(d, "push") /\ t = Row(d).id)
        <5>1. CASE broken[t]
          BY <4>3, <5>1
        <5>2. CASE ~broken[t]
          <6>1. PICK e \in Dispatchers : At(e, "push") /\ Row(e).id = t
            BY <2>1, <4>2, <5>2
          <6>2. e # d
            BY <4>5, <6>1
          <6> QED
            BY <2>3, <6>1, <6>2, OthersStay
        <5> QED
          BY <5>1, <5>2
      <4> QED
        BY <4>4, <4>5
    <3> QED
      BY <2>3, <3>3, <3>4, <3>5, <3>6, <3>7 DEF Step
  <2> QED
    BY <2>2, <2>3 DEF Next, Edit, UpdateStatus, UpdateAgentMode, UpdateTicket, ArchiveTicket,
                      RestoreTicket, DeleteTicket, vars
<1> QED
  BY <1>1, <1>2, TypingHolds, PTL DEF Spec

-----------------------------------------------------------------------------
(* Tickets left in planning or implementing.                               *)

Stuck(t) == ticket[t].live /\ ticket[t].status \in {"planning", "implementing"}

(* Somebody is on the ticket and has not yet reported on it.               *)
Working(d, t) == Busy(d, t) /\ ~At(d, "clear")

(* The strengthening of LeftClaimed: once a dispatcher has come to clearing*)
(* the agent mode it no longer accounts for the status.                    *)
LeftWorking == \A t \in Tickets : Stuck(t) => excuse[t] \/ \E d \in Dispatchers : Working(d, t)

\* One step of a dispatcher keeps LeftWorking.
LEMMA LeftWorkingStep ==
  ASSUME Typing, LeftWorking, NEW d \in Dispatchers, Step(d) \/ Crash(d)
  PROVE  LeftWorking'
<1> SUFFICES ASSUME NEW t \in Tickets, Stuck(t)'
             PROVE  excuse'[t] \/ \E e \in Dispatchers : Working(e, t)'
  BY DEF LeftWorking
<1>0. Stuck(t) => excuse[t] \/ \E e \in Dispatchers : Working(e, t)
  BY DEF LeftWorking
<1>r. ~At(d, "idle") => Row(d) \in Snapshots /\ Row(d).id \in Tickets
  BY RowType DEF Typing, Snapshots
<1>1. ASSUME Stuck(t), excuse[t] => excuse'[t],
             Working(d, t) => excuse'[t] \/ Working(d, t)'
      PROVE  excuse'[t] \/ \E e \in Dispatchers : Working(e, t)'
  <2>1. CASE excuse[t]
    BY <1>1, <2>1
  <2>2. CASE ~excuse[t]
    <3>1. PICK e \in Dispatchers : Working(e, t)
      BY <1>0, <1>1, <2>2
    <3>2. CASE e = d
      BY <1>1, <3>1, <3>2
    <3>3. CASE e # d
      BY <3>1, <3>3, OthersStay DEF Working
    <3> QED
      BY <3>2, <3>3
  <2> QED
    BY <2>1, <2>2
<1>2. ASSUME ticket' = ticket PROVE Stuck(t)
  BY <1>2 DEF Stuck
<1>3. CASE ProcessTickets(d)
  <2>1. ~Working(d, t) /\ ticket' = ticket /\ excuse' = excuse
    BY <1>3 DEF ProcessTickets, Working, Busy, At
  <2> QED
    BY <1>1, <1>2, <2>1
<1>4. CASE ClaimFails(d)
  <2>1. ~Working(d, t) /\ ticket' = ticket /\ excuse' = excuse
    BY <1>4 DEF ClaimFails, Working, Busy, At
  <2> QED
    BY <1>1, <1>2, <2>1
<1>5. CASE Claim(d)
  <2>1. ~At(d, "idle") /\ ~Working(d, t)
    BY <1>5 DEF Claim, At, Working, Busy
  <2>2. CASE t = Row(d).id
    <3>1. PICK pc \in {"plan", "prepare"} : Goto(d, pc)
      BY <1>5 DEF Claim
    <3>2. Working(d, t)'
      BY <2>1, <2>2, <3>1, GotoStep DEF Working, Busy, At, Typing, Stages
    <3> QED
      BY <3>2
  <2>3. CASE t # Row(d).id
    <3>1. ticket'[t] = ticket[t] /\ excuse'[t] = excuse[t]
      BY <1>5, <2>3 DEF Claim, Write, Typing
    <3> QED
      BY <1>1, <2>1, <3>1 DEF Stuck
  <2> QED
    BY <2>2, <2>3
<1>6. ASSUME ~At(d, "idle"), ~At(d, "claim"), ticket' = ticket,
             \/ PostError(d)
             \/ excuse' = excuse /\ \E pc \in Stages \ {"idle", "claim", "clear"} : Goto(d, pc)
      PROVE  excuse'[t] \/ \E e \in Dispatchers : Working(e, t)'
  <2>1. CASE PostError(d)
    <3>1. excuse' = [excuse EXCEPT ![Row(d).id] = TRUE]
      BY <2>1 DEF PostError
    <3>2. excuse[t] => excuse'[t]
      BY <3>1 DEF Typing
    <3>3. Working(d, t) => excuse'[t]
      BY <1>r, <1>6, <3>1 DEF Working, Busy, Typing
    <3> QED
      BY <1>1, <1>2, <1>6, <3>2, <3>3
  <2>2. CASE ~PostError(d)
    <3>1. PICK pc \in Stages \ {"idle", "claim", "clear"} : Goto(d, pc)
      BY <1>6, <2>2
    <3>2. Working(d, t) => Working(d, t)'
      BY <1>6, <3>1, RunGoesOn DEF Working
    <3> QED
      BY <1>1, <1>2, <1>6, <2>2, <3>2
  <2> QED
    BY <2>1, <2>2
<1>s. {"status", "agent", "commit", "push"} \subseteq Stages \ {"idle", "claim", "clear"}
  BY DEF Stages
<1>7. CASE GeneratePlan(d) \/ Prepare(d) \/ RunAgentCLI(d) \/ Commit(d) \/ Push(d)
  <2>1. ~At(d, "idle") /\ ~At(d, "claim") /\ ticket' = ticket
    BY <1>7 DEF GeneratePlan, Prepare, RunAgentCLI, Commit, Push, At
  <2>2. \/ PostError(d)
        \/ excuse' = excuse /\ \E pc \in {"status", "agent", "commit", "push"} : Goto(d, pc)
    BY <1>7 DEF GeneratePlan, Prepare, RunAgentCLI, Commit, Push, PushBranch
  <2> QED
    BY <1>6, <1>s, <2>1, <2>2
<1>8. CASE SetFinished(d)
  <2>1. ~At(d, "idle")
    BY <1>8 DEF SetFinished, At
  <2>2. CASE t = Row(d).id
    <3>1. CASE excuse'[t]
      BY <3>1
    <3>2. CASE ~excuse'[t]
      <4>1. Write(t, [ticket[t] EXCEPT !.status = Finished[Row(d).mode]])
        BY <1>8, <2>2, <3>2 DEF SetFinished, Typing
      <4>2. ticket[t] \in TicketRow /\ Row(d).mode \in Modes
        BY <1>r, <2>1 DEF Typing, Snapshots
      <4>3. ~Stuck(t)'
        BY <4>1, <4>2 DEF Write, Typing, Stuck, TicketRow, Finished, Modes
      <4> QED
        BY <4>3
    <3> QED
      BY <3>1, <3>2
  <2>3. CASE t # Row(d).id
    <3>1. ticket'[t] = ticket[t] /\ excuse'[t] = excuse[t]
      BY <1>8, <2>3 DEF SetFinished, Write, Typing
    <3>2. ~Working(d, t)
      BY <2>3 DEF Working, Busy
    <3> QED
      BY <1>1, <3>1, <3>2 DEF Stuck
  <2> QED
    BY <2>2, <2>3
<1>9. CASE ClearAgentMode(d)
  <2>1. ~Working(d, t) /\ excuse' = excuse
    BY <1>9 DEF ClearAgentMode, Working
  <2>2. Stuck(t)
    <3>1. \/ ticket' = ticket
          \/ ticket' = [ticket EXCEPT ![Row(d).id] = Cleared(ticket[Row(d).id], Row(d).agent)]
      BY <1>9 DEF ClearAgentMode, Write
    <3>2. ticket[t] \in TicketRow
      BY DEF Typing
    <3>3. /\ Cleared(ticket[t], Row(d).agent).live = ticket[t].live
          /\ Cleared(ticket[t], Row(d).agent).status = ticket[t].status
      BY <3>2 DEF Cleared, TicketRow
    <3> QED
      BY <3>1, <3>3 DEF Stuck, Typing
  <2> QED
    BY <1>1, <2>1, <2>2
<1>10. CASE Crash(d)
  <2>1. ~At(d, "idle") /\ ticket' = ticket
    BY <1>10 DEF Crash
  <2>2. excuse' = [excuse EXCEPT ![Row(d).id] = @ \/ ~At(d, "claim")]
    BY <1>10 DEF Crash
  <2>3. excuse[t] => excuse'[t]
    BY <1>r, <2>1, <2>2 DEF Typing
  <2>4. Working(d, t) => excuse'[t]
    BY <1>r, <2>1, <2>2 DEF Typing, Working, Busy, At
  <2> QED
    BY <1>1, <1>2, <2>1, <2>3, <2>4
<1> QED
  BY <1>3, <1>4, <1>5, <1>7, <1>8, <1>9, <1>10 DEF Step

\* A ticket is left in planning or implementing only with a reason on record:
\* an error comment, a failed write, a killed process, or staff who put it there.
THEOREM LeftWithReason == Spec => []LeftClaimed
<1>1. Init => LeftWorking
  BY DispatchAssumption DEF Init, LeftWorking, Stuck
<1>2. Typing /\ LeftWorking /\ [Next]_vars => LeftWorking'
  <2> SUFFICES ASSUME Typing, LeftWorking, [Next]_vars PROVE LeftWorking'
    OBVIOUS
  <2>1. CASE UNCHANGED vars
    BY <2>1 DEF vars, LeftWorking, Stuck, Working, Busy, At, Row
  <2>2. ASSUME NEW t \in Tickets, NEW row \in TicketRow, Edit(t, row),
               row.live => ticket[t].live,
               \/ row.status = ticket[t].status /\ excuse' = excuse
               \/ excuse' = [excuse EXCEPT ![t] = TRUE]
        PROVE  LeftWorking'
    <3> SUFFICES ASSUME NEW u \in Tickets, Stuck(u)'
                 PROVE  excuse'[u] \/ \E e \in Dispatchers : Working(e, u)'
      BY DEF LeftWorking
    <3>1. CASE u = t /\ excuse' = [excuse EXCEPT ![t] = TRUE]
      BY <3>1 DEF Typing
    <3>2. CASE ~(u = t /\ excuse' = [excuse EXCEPT ![t] = TRUE])
      <4>1. ticket'[u] = IF u = t THEN row ELSE ticket[u]
        BY <2>2, StaffStep
      <4>2. excuse'[u] = excuse[u]
        BY <2>2, <3>2 DEF Typing
      <4>3. Stuck(u)
        BY <2>2, <3>2, <4>1 DEF Stuck
      <4>4. \A e \in Dispatchers : Working(e, u)' <=> Working(e, u)
        BY <2>2, StaffStep DEF Working
      <4> QED
        BY <4>2, <4>3, <4>4 DEF LeftWorking
    <3> QED
      BY <3>1, <3>2
  <2>3. ASSUME NEW t \in Tickets, NEW s \in Statuses, UpdateStatus(t, s) PROVE LeftWorking'
    <3>1. [ticket[t] EXCEPT !.status = s] \in TicketRow /\ ([ticket[t] EXCEPT !.status = s].live => ticket[t].live)
      BY DEF Typing, TicketRow
    <3> QED
      BY <2>2, <2>3, <3>1 DEF UpdateStatus
  <2>4. ASSUME NEW t \in Tickets, NEW m \in Modes \cup {None}, NEW a \in Agents, UpdateAgentMode(t, m, a)
        PROVE  LeftWorking'
    <3>1. PICK q : q = [ticket[t] EXCEPT !.mode = m, !.agent = a]
      OBVIOUS
    <3>2. q \in TicketRow /\ q.live = ticket[t].live /\ q.status = ticket[t].status
      BY <3>1 DEF Typing, TicketRow
    <3> QED
      BY <2>2, <2>4, <3>1, <3>2 DEF UpdateAgentMode
  <2>5. ASSUME NEW t \in Tickets, NEW title \in Titles, UpdateTicket(t, title) PROVE LeftWorking'
    <3>1. PICK q : q = [ticket[t] EXCEPT !.title = title]
      OBVIOUS
    <3>2. q \in TicketRow /\ q.live = ticket[t].live /\ q.status = ticket[t].status
      BY <3>1 DEF Typing, TicketRow
    <3> QED
      BY <2>2, <2>5, <3>1, <3>2 DEF UpdateTicket
  <2>6. ASSUME NEW t \in Tickets, ArchiveTicket(t) \/ RestoreTicket(t) \/ DeleteTicket(t) PROVE LeftWorking'
    <3>1. PICK q : /\ Edit(t, q) /\ excuse' = excuse
                   /\ \/ \E x \in BOOLEAN : q = [ticket[t] EXCEPT !.archived = x]
                      \/ q = [ticket[t] EXCEPT !.live = FALSE]
      BY <2>6 DEF ArchiveTicket, RestoreTicket, DeleteTicket
    <3>2. q \in TicketRow /\ (q.live => ticket[t].live) /\ q.status = ticket[t].status
      BY <3>1 DEF Typing, TicketRow
    <3> QED
      BY <2>2, <3>1, <3>2
  <2> QED
    BY <2>1, <2>3, <2>4, <2>5, <2>6, LeftWorkingStep DEF Next, Modes
<1>3. LeftWorking => LeftClaimed
  BY DEF LeftWorking, LeftClaimed, Stuck, Working
<1> QED
  BY <1>1, <1>2, <1>3, TypingHolds, PTL DEF Spec

-----------------------------------------------------------------------------
(* Runs and what they are owed to.                                         *)

(* Dispatcher d may still run an agent on t for what staff asked so far:   *)
(* it has listed t, or will list it.                                       *)
Armed(t) == ticket[t].live /\ ticket[t].mode # None
Owes(d, t) == Pending(d, t) \/ (Armed(t) /\ ~Busy(d, t))
Owing(t) == {d \in Dispatchers : Owes(d, t)}

Budget(t) == Cardinality(Dispatchers) * (grants[t] + faults)

(* The strengthening of RunsAccounted: runs that are still to come count.  *)
RunsOwed == \A t \in Tickets : runs[t] + Cardinality(Owing(t)) <= Budget(t)

LEMMA OwingFinite ==
  ASSUME NEW t
  PROVE  /\ IsFiniteSet(Owing(t)) /\ Cardinality(Owing(t)) \in Nat
         /\ Cardinality(Dispatchers) \in Nat
         /\ Cardinality(Owing(t)) <= Cardinality(Dispatchers)
BY DispatchAssumption, FS_Subset, FS_CardinalityType DEF Owing

\* Dispatchers that owe less use no more of the budget; one more grant or fault
\* pays for all of them; a claim is paid by the dispatcher that makes it.
LEMMA BudgetStep ==
  ASSUME Typing, Typing', RunsOwed, NEW t \in Tickets,
         \/ /\ runs'[t] = runs[t] /\ grants'[t] = grants[t] /\ faults' = faults
            /\ Owing(t)' \subseteq Owing(t)
         \/ /\ runs'[t] = runs[t] /\ grants'[t] + faults' = grants[t] + faults + 1
         \/ /\ runs'[t] = runs[t] + 1 /\ grants'[t] = grants[t] /\ faults' = faults
            /\ \E d \in Owing(t) : Owing(t)' \subseteq Owing(t) \ {d}
  PROVE  runs'[t] + Cardinality(Owing(t))' <= Budget(t)'
<1> DEFINE D == Cardinality(Dispatchers)
           b == grants[t] + faults
           c == grants'[t] + faults'
<1>1. /\ D \in Nat /\ b \in Nat /\ c \in Nat /\ runs[t] \in Nat /\ runs'[t] \in Nat
      /\ Cardinality(Owing(t)) \in Nat /\ Cardinality(Owing(t)') \in Nat
      /\ Cardinality(Owing(t)') <= D
      /\ IsFiniteSet(Owing(t))
  <2>1. /\ IsFiniteSet(Owing(t)) /\ Cardinality(Owing(t)) \in Nat /\ D \in Nat
    BY OwingFinite
  <2>2. Owing(t)' \subseteq Dispatchers
    BY DEF Owing
  <2>3. Cardinality(Owing(t)') \in Nat /\ Cardinality(Owing(t)') <= D
    BY <2>2, DispatchAssumption, FS_Subset, FS_CardinalityType
  <2> QED
    BY <2>1, <2>3, DispatchAssumption DEF Typing
<1>2. runs[t] + Cardinality(Owing(t)) <= D * b
  BY DEF RunsOwed, Budget
<1>3. D * (b + 1) = D * b + D /\ D * b \in Nat
  BY <1>1
<1>4. Budget(t)' = D * c
  BY DEF Budget
<1>5. CASE /\ runs'[t] = runs[t] /\ grants'[t] = grants[t] /\ faults' = faults
           /\ Owing(t)' \subseteq Owing(t)
  <2>1. Cardinality(Owing(t)') <= Cardinality(Owing(t))
    BY <1>1, <1>5, FS_Subset
  <2>2. c = b
    BY <1>5
  <2> QED
    BY <1>1, <1>2, <1>4, <1>5, <2>1, <2>2
<1>6. CASE runs'[t] = runs[t] /\ grants'[t] + faults' = grants[t] + faults + 1
  <2>1. c = b + 1
    BY <1>6
  <2> HIDE DEF b, c
  <2> QED
    BY <1>1, <1>2, <1>3, <1>4, <1>6, <2>1
<1>7. CASE /\ runs'[t] = runs[t] + 1 /\ grants'[t] = grants[t] /\ faults' = faults
           /\ \E d \in Owing(t) : Owing(t)' \subseteq Owing(t) \ {d}
  <2>1. PICK d \in Owing(t) : Owing(t)' \subseteq Owing(t) \ {d}
    BY <1>7
  <2>2. /\ Cardinality(Owing(t) \ {d}) = Cardinality(Owing(t)) - 1
        /\ IsFiniteSet(Owing(t) \ {d})
    BY <1>1, FS_RemoveElement
  <2>3. Cardinality(Owing(t)') <= Cardinality(Owing(t)) - 1
    BY <2>1, <2>2, FS_Subset
  <2>4. c = b
    BY <1>7
  <2> QED
    BY <1>1, <1>2, <1>4, <1>7, <2>3, <2>4
<1> QED
  BY <1>5, <1>6, <1>7

\* A dispatcher that sets a ticket's status does not arm it.
LEMMA StatusOnly ==
  ASSUME Typing, NEW t \in Tickets, NEW u, NEW x,
         Write(u, [ticket[u] EXCEPT !.status = x])
  PROVE  Armed(t)' <=> Armed(t)
<1>1. ticket[t] \in TicketRow /\ ticket \in [Tickets -> TicketRow]
  BY DEF Typing
<1>2. PICK q : q = [ticket[u] EXCEPT !.status = x]
  OBVIOUS
<1>3. CASE u = t
  <2>1. q.live = ticket[t].live /\ q.mode = ticket[t].mode
    BY <1>1, <1>2, <1>3 DEF TicketRow
  <2>2. ticket'[t] = ticket[t] \/ ticket'[t] = q
    BY <1>1, <1>2, <1>3 DEF Write
  <2> QED
    BY <2>1, <2>2 DEF Armed
<1>4. CASE u # t
  <2>1. ticket'[t] = ticket[t]
    BY <1>1, <1>4 DEF Write
  <2> QED
    BY <2>1 DEF Armed
<1> QED
  BY <1>3, <1>4

\* One step of a dispatcher keeps the books.
LEMMA RunsOwedStep ==
  ASSUME Typing, Typing', RunsOwed, NEW d \in Dispatchers, Step(d) \/ Crash(d)
  PROVE  RunsOwed'
<1> SUFFICES ASSUME NEW t \in Tickets
             PROVE  runs'[t] + Cardinality(Owing(t))' <= Budget(t)'
  BY DEF RunsOwed
<1>g. grants' = grants /\ grants[t] \in Nat /\ faults \in Nat /\ runs \in [Tickets -> Nat]
  BY DispatchAssumption DEF Typing, Step, Crash, ProcessTickets, Claim, ClaimFails, GeneratePlan, Prepare,
     RunAgentCLI, Commit, Push, SetFinished, ClearAgentMode
<1>1. ASSUME runs' = runs, Fault PROVE runs'[t] + Cardinality(Owing(t))' <= Budget(t)'
  BY <1>1, <1>g, BudgetStep DEF Fault
<1>2. ASSUME runs' = runs, faults' = faults, Armed(t)' => Armed(t), Owes(d, t)' => Owes(d, t)
      PROVE  runs'[t] + Cardinality(Owing(t))' <= Budget(t)'
  <2>1. ASSUME NEW e \in Dispatchers, Owes(e, t)' PROVE Owes(e, t)
    <3>1. CASE e = d
      BY <1>2, <2>1, <3>1
    <3>2. CASE e # d
      BY <1>2, <2>1, <3>2, OthersStay DEF Owes
    <3> QED
      BY <3>1, <3>2
  <2>2. Owing(t)' \subseteq Owing(t)
    BY <2>1 DEF Owing
  <2> QED
    BY <1>2, <1>g, <2>2, BudgetStep
<1>3. CASE ProcessTickets(d)
  <2>1. ticket' = ticket /\ runs' = runs /\ faults' = faults
    BY <1>3 DEF ProcessTickets
  <2>2. ~Busy(d, t)
    BY <1>3 DEF ProcessTickets, Busy, At
  <2>3. Pending(d, t)' => Armed(t)
    <3>1. \A i \in DOMAIN disp'[d].batch : disp'[d].batch[i].id \in ListAgentReady
      BY <1>3, ListStep
    <3> QED
      BY <3>1 DEF Pending, ListAgentReady, Eligible, Armed
  <2>4. Armed(t)' <=> Armed(t)
    BY <2>1 DEF Armed
  <2> QED
    BY <1>2, <2>1, <2>2, <2>3, <2>4 DEF Owes
<1>4. CASE ClaimFails(d)
  BY <1>1, <1>4 DEF ClaimFails
<1>5. CASE GeneratePlan(d) \/ Prepare(d) \/ RunAgentCLI(d) \/ Commit(d) \/ Push(d)
  <2>1. /\ ~At(d, "idle") /\ ~At(d, "claim")
        /\ ticket' = ticket /\ runs' = runs /\ faults' = faults
    BY <1>5 DEF GeneratePlan, Prepare, RunAgentCLI, Commit, Push, At
  <2>2. PICK pc \in {"status", "agent", "commit", "push", "clear"} : Goto(d, pc)
    BY <1>5 DEF GeneratePlan, Prepare, RunAgentCLI, Commit, Push, PushBranch, PostError
  <2>3. (Busy(d, t)' <=> Busy(d, t)) /\ (Pending(d, t)' <=> Pending(d, t))
    BY <2>1, <2>2, RunGoesOn DEF Stages
  <2>4. Armed(t)' <=> Armed(t)
    BY <2>1 DEF Armed
  <2> QED
    BY <1>2, <2>1, <2>3, <2>4 DEF Owes
<1>6. CASE SetFinished(d)
  <2>1. CASE Fault
    BY <1>1, <1>6, <2>1 DEF SetFinished
  <2>2. CASE ~Fault
    <3>1. runs' = runs /\ faults' = faults /\ ~At(d, "idle") /\ ~At(d, "claim") /\ Goto(d, "clear")
      BY <1>6, <2>2 DEF SetFinished, At
    <3>2. (Busy(d, t)' <=> Busy(d, t)) /\ (Pending(d, t)' <=> Pending(d, t))
      BY <3>1, RunGoesOn DEF Stages
    <3>4. Armed(t)' <=> Armed(t)
      BY <1>6, <2>2, StatusOnly DEF SetFinished
    <3> QED
      BY <1>2, <3>1, <3>2, <3>4 DEF Owes
  <2> QED
    BY <2>1, <2>2
<1>7. CASE ClearAgentMode(d)
  <2>1. CASE Fault
    BY <1>1, <1>7, <2>1 DEF ClearAgentMode
  <2>2. CASE ~Fault
    <3>1. /\ runs' = runs /\ faults' = faults /\ ~At(d, "idle") /\ NextRow(d)
          /\ Write(Row(d).id, Cleared(ticket[Row(d).id], Row(d).agent))
      BY <1>7, <2>2 DEF ClearAgentMode, At
    <3>2. Pending(d, t)' => Pending(d, t)
      BY <3>1, NextRowStep DEF Typing
    <3>3. CASE t = Row(d).id
      <4>1. ~Armed(t)'
        BY <3>1, <3>3 DEF Write, Cleared, Armed, Typing, TicketRow
      <4> QED
        BY <1>2, <3>1, <3>2, <4>1 DEF Owes
    <3>4. CASE t # Row(d).id
      <4>1. Armed(t)' <=> Armed(t)
        BY <3>1, <3>4 DEF Write, Armed, Typing
      <4>2. ~Busy(d, t)
        BY <3>4 DEF Busy
      <4> QED
        BY <1>2, <3>1, <3>2, <4>1, <4>2 DEF Owes
    <3> QED
      BY <3>3, <3>4
  <2> QED
    BY <2>1, <2>2
<1>8. CASE Crash(d)
  BY <1>1, <1>8 DEF Crash
<1>9. CASE Claim(d)
  <2>1. /\ At(d, "claim") /\ ~At(d, "idle") /\ faults' = faults
        /\ runs' = [runs EXCEPT ![Row(d).id] = @ + 1]
    BY <1>9 DEF Claim, At
  <2>2. PICK pc \in {"plan", "prepare"} : Goto(d, pc)
    BY <1>9 DEF Claim
  <2>3. /\ disp'[d].batch = disp[d].batch /\ Row(d)' = Row(d) /\ disp'[d].pc = pc
    BY <2>1, <2>2, GotoStep DEF Typing, Stages
  <2>4. 1 \in DOMAIN disp[d].batch /\ Row(d) = disp[d].batch[1]
    BY <2>1, RowType DEF Typing
  <2>6. Armed(t)' <=> Armed(t)
    BY <1>9, StatusOnly DEF Claim
  <2>7. CASE t # Row(d).id
    <3>1. Pending(d, t)' => Pending(d, t)
      BY <2>3, <2>1 DEF Pending
    <3>2. ~Busy(d, t)
      BY <2>1 DEF Busy, At
    <3>3. runs'[t] = runs[t]
      BY <1>g, <2>1, <2>7
    <3>4. Owing(t)' \subseteq Owing(t)
      <4>1. ASSUME NEW e \in Dispatchers, Owes(e, t)' PROVE Owes(e, t)
        <5>1. CASE e = d
          BY <2>6, <3>1, <3>2, <4>1, <5>1 DEF Owes
        <5>2. CASE e # d
          BY <1>9, <2>6, <4>1, <5>2, OthersStay DEF Owes, Step
        <5> QED
          BY <5>1, <5>2
      <4> QED
        BY <4>1 DEF Owing
    <3> QED
      BY <1>g, <2>1, <3>3, <3>4, BudgetStep
  <2>8. CASE t = Row(d).id
    <3>1. Pending(d, t)
      BY <2>1, <2>4, <2>8 DEF Pending
    <3>2. ~Pending(d, t)' /\ Busy(d, t)'
      <4>1. Busy(d, t)'
        BY <2>3, <2>8 DEF Busy
      <4>2. ASSUME NEW i \in DOMAIN disp[d].batch, disp[d].batch[i].id = t PROVE i = 1
        BY <2>4, <2>8, <4>2 DEF Typing, DispOK
      <4> QED
        BY <2>3, <4>1, <4>2 DEF Pending, At
    <3>3. runs'[t] = runs[t] + 1
      BY <1>g, <2>1, <2>8
    <3>4. ASSUME NEW e \in Dispatchers, Owes(e, t)' PROVE Owes(e, t) /\ e # d
      <4>1. e # d
        BY <3>2, <3>4 DEF Owes
      <4> QED
        BY <1>9, <2>6, <3>4, <4>1, OthersStay DEF Owes, Step
    <3>5. Owing(t)' \subseteq Owing(t) \ {d} /\ d \in Owing(t)
      BY <3>1, <3>4 DEF Owing, Owes
    <3> QED
      BY <1>g, <2>1, <3>3, <3>5, BudgetStep
  <2> QED
    BY <2>7, <2>8
<1> QED
  BY <1>3, <1>4, <1>5, <1>6, <1>7, <1>8, <1>9 DEF Step

\* No run without a cause: an agent is set to work on a ticket no more often
\* than once per orchestrator process for each time staff armed it, and for each
\* failed write or killed process.
THEOREM RunsHaveCauses == Spec => []RunsAccounted
<1>1. Init => RunsOwed
  <2> SUFFICES ASSUME Init, NEW t \in Tickets
               PROVE  runs[t] + Cardinality(Owing(t)) <= Budget(t)
    BY DEF RunsOwed
  <2>1. Owing(t) = {}
    <3>1. ticket[t].mode = None
      BY DEF Init
    <3>2. \A d \in Dispatchers : disp[d].batch = <<>>
      BY DEF Init
    <3>3. \A d \in Dispatchers : ~Pending(d, t)
      BY <3>2 DEF Pending
    <3> QED
      BY <3>1, <3>3 DEF Owing, Owes, Armed
  <2>2. Cardinality(Dispatchers) * 0 = 0
    BY OwingFinite
  <2> QED
    BY <2>1, <2>2, FS_EmptySet DEF Init, Budget
<1>2. Typing /\ Typing' /\ RunsOwed /\ [Next]_vars => RunsOwed'
  <2> SUFFICES ASSUME Typing, Typing', RunsOwed, [Next]_vars PROVE RunsOwed'
    OBVIOUS
  <2>1. CASE UNCHANGED vars
    BY <2>1 DEF vars, RunsOwed, Owing, Owes, Pending, Armed, Busy, Row, At, Budget
  <2>2. ASSUME NEW t \in Tickets, NEW row, Edit(t, row) PROVE RunsOwed'
    <3> SUFFICES ASSUME NEW u \in Tickets
                 PROVE  runs'[u] + Cardinality(Owing(u))' <= Budget(u)'
      BY DEF RunsOwed
    <3>1. /\ runs' = runs /\ faults' = faults
          /\ grants[u] \in Nat /\ faults \in Nat
          /\ grants'[u] = IF u = t /\ row.mode # None THEN grants[u] + 1 ELSE grants[u]
      BY <2>2, StaffStep, DispatchAssumption DEF Typing
    <3>2. CASE u = t /\ row.mode # None
      <4>1. grants'[u] + faults' = grants[u] + faults + 1
        BY <3>1, <3>2
      <4> QED
        BY <3>1, <4>1, BudgetStep
    <3>3. CASE ~(u = t /\ row.mode # None)
      <4>1. Armed(u)' => Armed(u)
        BY <2>2, <3>3, StaffStep DEF Armed
      <4>2. Owing(u)' \subseteq Owing(u)
        BY <2>2, <4>1, StaffStep DEF Owing, Owes
      <4> QED
        BY <3>1, <3>3, <4>2, BudgetStep
    <3> QED
      BY <3>2, <3>3
  <2>3. CASE Next
    BY <2>2, <2>3, RunsOwedStep
       DEF Next, UpdateStatus, UpdateAgentMode, UpdateTicket, ArchiveTicket, RestoreTicket, DeleteTicket
  <2> QED
    BY <2>1, <2>3
<1>3. Typing /\ RunsOwed => RunsAccounted
  <2> SUFFICES ASSUME Typing, RunsOwed, NEW t \in Tickets PROVE runs[t] <= Budget(t)
    BY DEF RunsAccounted, Budget
  <2>1. runs[t] + Cardinality(Owing(t)) <= Budget(t)
    BY DEF RunsOwed
  <2>2. runs[t] \in Nat /\ Cardinality(Owing(t)) \in Nat /\ Budget(t) \in Nat
    <3>1. /\ runs[t] \in Nat /\ grants[t] \in Nat /\ faults \in Nat
          /\ Cardinality(Owing(t)) \in Nat /\ Cardinality(Dispatchers) \in Nat
      BY OwingFinite, DispatchAssumption DEF Typing
    <3>2. grants[t] + faults \in Nat
      BY <3>1
    <3>3. \A x, y \in Nat : x * y \in Nat
      OBVIOUS
    <3> QED
      BY <3>1, <3>2, <3>3 DEF Budget
  <2> QED
    BY <2>1, <2>2
<1> QED
  BY <1>1, <1>2, <1>3, TypingHolds, PTL DEF Spec

=============================================================================
