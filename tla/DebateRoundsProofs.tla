------------------------- MODULE DebateRoundsProofs -------------------------
(***************************************************************************)
(* Proofs about DebateRounds for every number of requests, debates, texts  *)
(* and rounds.                                                             *)
(***************************************************************************)
EXTENDS DebateRounds, WellFoundedInduction, SequenceTheorems, TLAPS

-----------------------------------------------------------------------------
(* The text before a round *)

\* If a round below n was accepted, there is a last one, and that is the one
\* LastAcceptedBefore chooses.
LEMMA LastAcceptedExists ==
  ASSUME NEW s, NEW n \in Nat, \E i \in 1..(n - 1) : Accepted(s, i)
  PROVE  /\ LastAcceptedBefore(s, n) \in 1..(n - 1)
         /\ Accepted(s, LastAcceptedBefore(s, n))
         /\ \A j \in (LastAcceptedBefore(s, n) + 1)..(n - 1) : ~Accepted(s, j)
<1> DEFINE Dist == {k \in Nat : n - 1 - k \in 1..(n - 1) /\ Accepted(s, n - 1 - k)}
<1>1. Dist \subseteq Nat /\ Dist # {}
  <2>1. PICK i \in 1..(n - 1) : Accepted(s, i)
    OBVIOUS
  <2>2. n - 1 - i \in Nat /\ n - 1 - (n - 1 - i) = i
    OBVIOUS
  <2>3. n - 1 - i \in Dist
    BY <2>1, <2>2
  <2> QED
    BY <2>3
<1>2. PICK k \in Dist : \A m \in Dist : ~ (<<m, k>> \in OpToRel(<, Nat))
  <2> HIDE DEF Dist
  <2> QED
    BY <1>1, WFMin, NatLessThanWellFounded
<1>3. \A m \in Dist : ~(m < k)
  BY <1>1, <1>2 DEF OpToRel
<1>4. n - 1 - k \in 1..(n - 1) /\ Accepted(s, n - 1 - k)
  BY <1>2
<1>5. ASSUME NEW j \in (n - 1 - k + 1)..(n - 1), Accepted(s, j)
      PROVE  FALSE
  <2>0. k \in Nat /\ n - 1 - k \in 1..(n - 1)
    BY <1>2
  <2> HIDE DEF Dist
  <2>1. n - 1 - j \in Nat /\ n - 1 - (n - 1 - j) = j /\ n - 1 - j < k /\ j \in 1..(n - 1)
    BY <2>0
  <2>2. n - 1 - j \in Dist
    BY <2>1, <1>5 DEF Dist
  <2> QED
    BY <2>1, <2>2, <1>3
<1>6. \E i \in 1..(n - 1) : Accepted(s, i) /\ \A j \in (i + 1)..(n - 1) : ~Accepted(s, j)
  BY <1>4, <1>5
<1> QED
  BY <1>6 DEF LastAcceptedBefore


\* What TextBefore is: the text of the last accepted round below n, or start.
LEMMA TextBeforeIs ==
  ASSUME NEW s, NEW start, NEW n \in Nat
  PROVE  \/ /\ \A i \in 1..(n - 1) : ~Accepted(s, i)
            /\ TextBefore(s, start, n) = start
         \/ \E i \in 1..(n - 1) :
              /\ Accepted(s, i)
              /\ \A j \in (i + 1)..(n - 1) : ~Accepted(s, j)
              /\ TextBefore(s, start, n) = s[i].text
<1>1. CASE \E i \in 1..(n - 1) : Accepted(s, i)
  BY <1>1, LastAcceptedExists DEF TextBefore
<1>2. CASE \A i \in 1..(n - 1) : ~Accepted(s, i)
  BY <1>2 DEF TextBefore
<1> QED
  BY <1>1, <1>2

\* It depends on the rounds below n only.
LEMMA TextBeforeLocal ==
  ASSUME NEW s, NEW u, NEW start, NEW n \in Nat,
         \A i \in 1..(n - 1) : Accepted(s, i) <=> Accepted(u, i),
         \A i \in 1..(n - 1) : Accepted(s, i) => s[i].text = u[i].text
  PROVE  TextBefore(s, start, n) = TextBefore(u, start, n)
<1>1. CASE \A i \in 1..(n - 1) : ~Accepted(s, i)
  <2>1. \A i \in 1..(n - 1) : ~Accepted(u, i)
    BY <1>1
  <2> QED
    BY <1>1, <2>1 DEF TextBefore
<1>2. CASE \E i \in 1..(n - 1) : Accepted(s, i)
  <2>1. PICK i \in 1..(n - 1) : /\ Accepted(s, i)
                                /\ \A j \in (i + 1)..(n - 1) : ~Accepted(s, j)
                                /\ TextBefore(s, start, n) = s[i].text
    BY <1>2, TextBeforeIs
  <2>2. PICK k \in 1..(n - 1) : /\ Accepted(u, k)
                                /\ \A j \in (k + 1)..(n - 1) : ~Accepted(u, j)
                                /\ TextBefore(u, start, n) = u[k].text
    BY <1>2, TextBeforeIs
  <2>3. ~(i < k) /\ ~(k < i)
    BY <2>1, <2>2
  <2>4. i = k
    BY <2>3
  <2> QED
    BY <2>1, <2>2, <2>4
<1> QED
  BY <1>1, <1>2

\* An undecided or rejected round n changes nothing, an accepted one everything.
LEMMA TextBeforeStep ==
  ASSUME NEW s, NEW start, NEW n \in Nat \ {0}
  PROVE  TextBefore(s, start, n + 1) =
           IF Accepted(s, n) THEN s[n].text ELSE TextBefore(s, start, n)
<1>1. CASE Accepted(s, n)
  <2>1. PICK i \in 1..n : /\ Accepted(s, i)
                          /\ \A j \in (i + 1)..n : ~Accepted(s, j)
                          /\ TextBefore(s, start, n + 1) = s[i].text
    BY <1>1, TextBeforeIs, n + 1 \in Nat, n + 1 - 1 = n
  <2>2. i = n
    BY <2>1, <1>1
  <2> QED
    BY <2>1, <2>2, <1>1
<1>2. CASE ~Accepted(s, n)
  <2>1. CASE \A i \in 1..(n - 1) : ~Accepted(s, i)
    <3>1. \A i \in 1..((n + 1) - 1) : ~Accepted(s, i)
      BY <2>1, <1>2
    <3> QED
      BY <2>1, <3>1, <1>2 DEF TextBefore
  <2>2. CASE \E i \in 1..(n - 1) : Accepted(s, i)
    <3>1. PICK i \in 1..(n - 1) : /\ Accepted(s, i)
                                  /\ \A j \in (i + 1)..(n - 1) : ~Accepted(s, j)
                                  /\ TextBefore(s, start, n) = s[i].text
      BY <2>2, TextBeforeIs
    <3>2. \E j \in 1..n : Accepted(s, j)
      BY <2>2
    <3>3. PICK k \in 1..n : /\ Accepted(s, k)
                            /\ \A j \in (k + 1)..n : ~Accepted(s, j)
                            /\ TextBefore(s, start, n + 1) = s[k].text
      BY <3>2, TextBeforeIs, n + 1 \in Nat, n + 1 - 1 = n
    <3>4. k # n
      BY <3>3, <1>2
    <3>5. ~(i < k) /\ ~(k < i)
      BY <3>1, <3>3, <3>4
    <3>6. i = k
      BY <3>5
    <3> QED
      BY <3>1, <3>3, <3>6, <1>2
  <2> QED
    BY <2>1, <2>2
<1> QED
  BY <1>1, <1>2

\* It is a text.
LEMMA TextBeforeType ==
  ASSUME NEW s \in Seq(Round), NEW start \in Texts, NEW n \in 1..(Len(s) + 1)
  PROVE  TextBefore(s, start, n) \in Texts
<1>1. CASE \A i \in 1..(n - 1) : ~Accepted(s, i)
  BY <1>1 DEF TextBefore
<1>2. CASE \E i \in 1..(n - 1) : Accepted(s, i)
  <2>1. PICK i \in 1..(n - 1) : TextBefore(s, start, n) = s[i].text
    BY <1>2, TextBeforeIs
  <2>2. s[i] \in Round
    BY <2>1, ElementOfSeq
  <2> QED
    BY <2>1, <2>2 DEF Round
<1> QED
  BY <1>1, <1>2

-----------------------------------------------------------------------------
(* The four ways a debate's rounds change keep the chain *)

\* CreateRound appends a round written from the current text.
LEMMA ChainAppend ==
  ASSUME NEW s \in Seq(Round), NEW start \in Texts, NEW cur \in Texts,
         NEW x \in Round, Chained(s, start, cur),
         x.input = cur, x.status = "in_review"
  PROVE  Chained(Append(s, x), start, cur)
<1> DEFINE u == Append(s, x)
<1>1. /\ u \in Seq(Round) /\ Len(u) = Len(s) + 1 /\ Len(s) \in Nat
      /\ \A i \in 1..Len(s) : u[i] = s[i]
      /\ u[Len(s) + 1] = x
      /\ DOMAIN u = 1..(Len(s) + 1) /\ DOMAIN s = 1..Len(s)
  OBVIOUS
<1> HIDE DEF u
<1>2. ASSUME NEW n \in 1..(Len(s) + 1)
      PROVE  TextBefore(u, start, n) = TextBefore(s, start, n)
  <2>1. \A i \in 1..(n - 1) : u[i] = s[i]
    BY <1>1
  <2>2. n \in Nat
    BY <1>1
  <2> QED
    BY <2>1, <2>2, TextBeforeLocal DEF Accepted
<1>3. cur = TextBefore(u, start, Len(s) + 1)
  BY <1>1, <1>2 DEF Chained
<1>4. TextBefore(u, start, Len(u) + 1) = cur
  <2>1. ~Accepted(u, Len(s) + 1)
    BY <1>1 DEF Accepted
  <2> QED
    BY <1>1, <1>3, <2>1, TextBeforeStep
<1>5. ASSUME NEW n \in DOMAIN u
      PROVE  u[n].input = TextBefore(u, start, n)
  <2>1. CASE n \in DOMAIN s
    BY <1>1, <1>2, <2>1 DEF Chained
  <2>2. CASE n = Len(s) + 1
    BY <1>1, <1>3, <2>2
  <2> QED
    BY <1>1, <2>1, <2>2
<1> QED
  BY <1>4, <1>5 DEF Chained, u

\* Deciding the last round: the chain's text is the shipped text if it was
\* accepted, and what it was if it was rejected.
LEMMA ChainDecide ==
  ASSUME NEW s \in Seq(Round), NEW u \in Seq(Round), NEW start \in Texts,
         NEW cur \in Texts, NEW new \in Texts, Chained(s, start, cur),
         s # << >>, Len(u) = Len(s),
         \A i \in 1..(Len(s) - 1) : u[i] = s[i],
         u[Len(s)].input = s[Len(s)].input,
         ~Accepted(s, Len(s)),
         new = IF Accepted(u, Len(s)) THEN u[Len(s)].text ELSE cur
  PROVE  Chained(u, start, new)
<1>1. /\ Len(s) \in Nat \ {0}
      /\ DOMAIN s = 1..Len(s) /\ DOMAIN u = 1..Len(s)
  BY EmptySeq, LenProperties
<1>2. ASSUME NEW n \in 1..Len(s)
      PROVE  TextBefore(u, start, n) = TextBefore(s, start, n)
  <2>1. \A i \in 1..(n - 1) : u[i] = s[i]
    BY <1>1
  <2> QED
    BY <1>1, <2>1, TextBeforeLocal DEF Accepted
<1>3. cur = TextBefore(s, start, Len(s))
  BY <1>1, TextBeforeStep DEF Chained
<1>4. new = TextBefore(u, start, Len(s) + 1)
  BY <1>1, <1>2, <1>3, TextBeforeStep
<1>5. \A n \in DOMAIN u : u[n].input = s[n].input
  BY <1>1
<1> QED
  BY <1>1, <1>2, <1>4, <1>5 DEF Chained

\* Undo cuts the rounds from number n on and recomputes the text.
LEMMA ChainUndo ==
  ASSUME NEW s \in Seq(Round), NEW start \in Texts, NEW cur \in Texts,
         NEW n \in DOMAIN s, Chained(s, start, cur)
  PROVE  Chained(SubSeq(s, 1, n - 1), start, TextBefore(s, start, n))
<1> DEFINE u == SubSeq(s, 1, n - 1)
<1>1. n \in 1..Len(s) /\ Len(s) \in Nat /\ DOMAIN s = 1..Len(s)
  BY LenProperties
<1>2. /\ Len(u) = n - 1 /\ DOMAIN u = 1..(n - 1)
      /\ \A i \in 1..(n - 1) : u[i] = s[i]
  BY <1>1
<1> HIDE DEF u
<1>3. ASSUME NEW k \in 1..n
      PROVE  TextBefore(u, start, k) = TextBefore(s, start, k)
  <2>1. \A i \in 1..(k - 1) : u[i] = s[i]
    BY <1>1, <1>2
  <2> QED
    BY <1>1, <2>1, TextBeforeLocal DEF Accepted
<1>4. TextBefore(u, start, Len(u) + 1) = TextBefore(s, start, n)
  BY <1>1, <1>2, <1>3
<1>5. \A k \in DOMAIN u : u[k].input = TextBefore(u, start, k)
  BY <1>1, <1>2, <1>3 DEF Chained
<1> QED
  BY <1>4, <1>5 DEF Chained, u

-----------------------------------------------------------------------------
(* Types *)

\* Replacing one debate's row and rounds, and one request, by well-typed ones.
LEMMA PutDebate ==
  ASSUME NEW f \in [Debates -> Row], NEW g \in [Debates -> Seq(Round)],
         \A c \in Debates : DebateTyped(f[c], g[c]),
         NEW d \in Debates, NEW x \in Row, NEW s \in Seq(Round), DebateTyped(x, s)
  PROVE  /\ [f EXCEPT ![d] = x] \in [Debates -> Row]
         /\ [g EXCEPT ![d] = s] \in [Debates -> Seq(Round)]
         /\ \A c \in Debates : DebateTyped([f EXCEPT ![d] = x][c], [g EXCEPT ![d] = s][c])
OBVIOUS

LEMMA PutRow ==
  ASSUME NEW f \in [Debates -> Row], NEW g \in [Debates -> Seq(Round)],
         \A c \in Debates : DebateTyped(f[c], g[c]),
         NEW d \in Debates, NEW x \in Row, DebateTyped(x, g[d])
  PROVE  /\ [f EXCEPT ![d] = x] \in [Debates -> Row]
         /\ \A c \in Debates : DebateTyped([f EXCEPT ![d] = x][c], g[c])
OBVIOUS

LEMMA PutRequest ==
  ASSUME NEW f \in [Requests -> Request], \A q \in Requests : RequestTyped(f[q]),
         NEW r \in Requests, NEW x \in Request, RequestTyped(x)
  PROVE  /\ [f EXCEPT ![r] = x] \in [Requests -> Request]
         /\ \A q \in Requests : RequestTyped([f EXCEPT ![r] = x][q])
OBVIOUS

RequestsTyped ==
  req \in [Requests -> Request] /\ \A r \in Requests : RequestTyped(req[r])

DebatesTyped ==
  /\ row \in [Debates -> Row]
  /\ rounds \in [Debates -> Seq(Round)]
  /\ \A d \in Debates : DebateTyped(row[d], rounds[d])

LEMMA TypedParts ==
  Typed <=> /\ description \in Texts /\ seedRaced \in [Debates -> BOOLEAN]
            /\ RequestsTyped /\ DebatesTyped
BY DEF Typed, TypeOK, RequestsTyped, DebatesTyped

LEMMA FinishTyped ==
  ASSUME RequestsTyped, NEW r \in Requests, Finish(r)
  PROVE  RequestsTyped'
<1>1. Idle \in Request /\ RequestTyped(Idle)
  BY DEF Idle, Request, RequestTyped, Steps, RoundSteps
<1> QED
  BY <1>1, PutRequest DEF RequestsTyped, Finish

\* A request moves to a step that needs no more than it has.
LEMMA GotoTyped ==
  ASSUME RequestsTyped, NEW r \in Requests, NEW step \in Steps, Goto(r, step),
         RequestTyped([req[r] EXCEPT !.pc = step])
  PROVE  RequestsTyped'
<1>1. [req[r] EXCEPT !.pc = step] \in Request
  BY DEF RequestsTyped, Request
<1> QED
  BY <1>1, PutRequest DEF RequestsTyped, Goto

\* A request starts an operation with a record of its own.
LEMMA BeginTyped ==
  ASSUME RequestsTyped, NEW r \in Requests, NEW x \in Request, RequestTyped(x),
         req' = [req EXCEPT ![r] = x]
  PROVE  RequestsTyped'
BY PutRequest DEF RequestsTyped

\* One debate's row changes, its rounds do not.
LEMMA RowTyped ==
  ASSUME DebatesTyped, NEW d \in Debates, NEW x \in Row, DebateTyped(x, rounds[d]),
         row' = [row EXCEPT ![d] = x], rounds' = rounds
  PROVE  DebatesTyped'
BY PutRow DEF DebatesTyped

\* One debate's row and rounds change.
LEMMA DebateTypedStep ==
  ASSUME DebatesTyped, NEW d \in Debates, NEW x \in Row, NEW s \in Seq(Round),
         DebateTyped(x, s),
         row' = [row EXCEPT ![d] = x], rounds' = [rounds EXCEPT ![d] = s]
  PROVE  DebatesTyped'
BY PutDebate DEF DebatesTyped

LEMMA TypedInit == Init => Typed
<1> SUFFICES ASSUME Init PROVE Typed
  OBVIOUS
<1>1. NoRow \in Row /\ DebateTyped(NoRow, << >>)
  BY DEF NoRow, Row, Status, DebateTyped
<1>2. Idle \in Request /\ RequestTyped(Idle)
  BY DEF Idle, Request, RequestTyped, Steps, RoundSteps
<1>3. << >> \in Seq(Round)
  BY EmptySeq
<1> QED
  BY <1>1, <1>2, <1>3 DEF Init, Typed, TypeOK

-----------------------------------------------------------------------------
\* One step per action.  "x" is the new row or request record.
LEMMA TypedNext ==
  ASSUME Typed, [Next]_vars
  PROVE  Typed'
<1>0. /\ description \in Texts /\ seedRaced \in [Debates -> BOOLEAN]
      /\ RequestsTyped /\ DebatesTyped
  BY TypedParts
<1> SUFFICES /\ description' \in Texts /\ seedRaced' \in [Debates -> BOOLEAN]
             /\ RequestsTyped' /\ DebatesTyped'
  BY DEF Typed, TypeOK, RequestsTyped, DebatesTyped
<1>u. ASSUME UNCHANGED <<row, rounds>> PROVE DebatesTyped'
  BY <1>0, <1>u DEF DebatesTyped
<1>v. ASSUME UNCHANGED req PROVE RequestsTyped'
  BY <1>0, <1>v DEF RequestsTyped
<1>1. ASSUME NEW r \in Requests, StartDebate(r)
      PROVE  RequestsTyped'
  <2> DEFINE x == [Idle EXCEPT !.pc = "insert1", !.snap = description]
  <2>1. x \in Request /\ RequestTyped(x)
    BY <1>0 DEF Idle, Request, RequestTyped, Steps, RoundSteps
  <2> QED
    BY <1>0, <1>1, <2>1, BeginTyped DEF StartDebate
<1>2. ASSUME NEW r \in Requests, NEW d \in Debates, InsertDebate(r, d)
      PROVE  RequestsTyped' /\ DebatesTyped'
  <2> DEFINE x == NewRow(req[r].snap)
  <2>1. req[r].snap \in Texts
    BY <1>0, <1>2 DEF RequestsTyped, RequestTyped, InsertDebate, At, RoundSteps
  <2>2. x \in Row /\ DebateTyped(x, rounds[d])
    BY <2>1 DEF NewRow, NoRow, Row, Status, DebateTyped
  <2>3. row' = [row EXCEPT ![d] = x] /\ rounds' = rounds /\ Finish(r)
    BY <1>2 DEF InsertDebate
  <2> QED
    BY <1>0, <2>2, <2>3, RowTyped, FinishTyped
<1>3. ASSUME NEW r \in Requests, InsertConflicts(r)
      PROVE  RequestsTyped'
  BY <1>0, <1>3, GotoTyped
     DEF InsertConflicts, At, Steps, RoundSteps, RequestTyped, RequestsTyped, Request
<1>4. ASSUME NEW r \in Requests, FindActive(r)
      PROVE  RequestsTyped'
  BY <1>0, <1>4, GotoTyped, FinishTyped
     DEF FindActive, At, Steps, RoundSteps, RequestTyped, RequestsTyped, Request
<1>5. ASSUME NEW r \in Requests, NEW d \in Debates, Reserve(r, d)
      PROVE  RequestsTyped' /\ DebatesTyped'
  <2> DEFINE x == [row[d] EXCEPT !.inFlight = r, !.aged = FALSE]
             q == [Idle EXCEPT !.pc = "refining", !.debate = d, !.snap = row[d].current]
  <2>1. row[d] \in Row /\ DebateTyped(row[d], rounds[d]) /\ row[d].status = "active"
    BY <1>0, <1>5 DEF DebatesTyped, Reserve, IsActive
  <2>2. x \in Row /\ DebateTyped(x, rounds[d])
    BY <2>1 DEF Row, DebateTyped
  <2>3. q \in Request /\ RequestTyped(q)
    BY <2>1 DEF Idle, Request, RequestTyped, Steps, RoundSteps, DebateTyped
  <2>4. row' = [row EXCEPT ![d] = x] /\ rounds' = rounds
    BY <1>5 DEF Reserve
  <2>5. req' = [req EXCEPT ![r] = q]
    BY <1>5 DEF Reserve
  <2> QED
    BY <1>0, <2>2, <2>3, <2>4, <2>5, RowTyped, BeginTyped
<1>6. ASSUME NEW r \in Requests, RefineReturns(r) \/ RefineFails(r) \/ InsertFails(r)
      PROVE  RequestsTyped'
  BY <1>0, <1>6, GotoTyped
     DEF RefineReturns, RefineFails, InsertFails, At, Steps, RoundSteps, RequestTyped,
         RequestsTyped, Request
<1>7. ASSUME NEW r \in Requests, NEW t \in Texts, InsertRound(r, t)
      PROVE  RequestsTyped' /\ DebatesTyped'
  <2> DEFINE d == req[r].debate
             x == [row[d] EXCEPT !.inFlight = None, !.aged = FALSE]
             y == [input |-> req[r].snap, text |-> t, status |-> "in_review"]
  <2>1. d \in Debates /\ req[r].snap \in Texts
    BY <1>0, <1>7 DEF RequestsTyped, RequestTyped, InsertRound, At, RoundSteps
  <2>2. /\ row[d] \in Row /\ rounds[d] \in Seq(Round) /\ row[d].status = "active"
        /\ DebateTyped(row[d], rounds[d])
    BY <1>0, <1>7, <2>1 DEF DebatesTyped, InsertRound, MayInsert, IsActive
  <2>3. y \in Round
    BY <2>1 DEF Round
  <2>4. Append(rounds[d], y) \in Seq(Round)
    BY <2>2, <2>3, AppendProperties
  <2>5. x \in Row /\ DebateTyped(x, Append(rounds[d], y))
    BY <2>2 DEF Row, DebateTyped
  <2>6. /\ row' = [row EXCEPT ![d] = x]
        /\ rounds' = [rounds EXCEPT ![d] = Append(rounds[d], y)]
        /\ Finish(r)
    BY <1>7, <2>1 DEF InsertRound, ClearReservation
  <2> HIDE DEF d, x, y
  <2>7. DebatesTyped'
    BY <1>0, <2>1, <2>4, <2>5, <2>6, DebateTypedStep
  <2> QED
    BY <1>0, <2>6, <2>7, FinishTyped
<1>8. ASSUME NEW r \in Requests, ClearInFlight(r)
      PROVE  RequestsTyped' /\ DebatesTyped'
  <2> DEFINE d == req[r].debate
             x == [row[d] EXCEPT !.inFlight = None, !.aged = FALSE]
  <2>1. d \in Debates
    BY <1>0, <1>8 DEF RequestsTyped, RequestTyped, ClearInFlight, At, RoundSteps
  <2>2. x \in Row /\ DebateTyped(x, rounds[d])
    <3>1. row[d] \in Row /\ DebateTyped(row[d], rounds[d])
      BY <1>0, <2>1 DEF DebatesTyped
    <3> QED
      BY <3>1 DEF Row, DebateTyped
  <2>3. row' = [row EXCEPT ![d] = x] /\ rounds' = rounds /\ Finish(r)
    BY <1>8 DEF ClearInFlight, ClearReservation
  <2> QED
    BY <1>0, <2>1, <2>2, <2>3, RowTyped, FinishTyped
<1>9. ASSUME NEW r \in Requests,
             ReplyExhausted(r) \/ Crash(r) \/ SeedRefused(r) \/ UpdateTicket(r)
      PROVE  RequestsTyped'
  BY <1>0, <1>9, FinishTyped DEF ReplyExhausted, Crash, SeedRefused, UpdateTicket
<1>10. ASSUME NEW d \in Debates, ReservationAges(d) \/ AbandonDebate(d)
       PROVE  DebatesTyped'
  <2>1. row[d] \in Row /\ DebateTyped(row[d], rounds[d]) /\ row[d].status = "active"
    BY <1>0, <1>10 DEF DebatesTyped, ReservationAges, AbandonDebate, IsActive
  <2>2. CASE ReservationAges(d)
    <3> DEFINE x == [row[d] EXCEPT !.aged = TRUE]
    <3>1. x \in Row /\ DebateTyped(x, rounds[d])
      BY <2>1 DEF Row, DebateTyped
    <3> QED
      BY <1>0, <2>2, <3>1, RowTyped DEF ReservationAges
  <2>3. CASE AbandonDebate(d)
    <3> DEFINE x == [row[d] EXCEPT !.status = "abandoned", !.inFlight = None, !.aged = FALSE]
    <3>1. x \in Row /\ DebateTyped(x, rounds[d])
      BY <2>1 DEF Row, Status, DebateTyped
    <3>2. row' = [row EXCEPT ![d] = x] /\ rounds' = rounds
      BY <2>3 DEF AbandonDebate
    <3> QED
      BY <1>0, <3>1, <3>2, RowTyped
  <2> QED
    BY <1>10, <2>2, <2>3
<1>11. ASSUME NEW d \in Debates, NEW i \in DOMAIN rounds[d], NEW t \in Texts,
              AcceptRound(d, i, t)
       PROVE  DebatesTyped'
  <2> DEFINE y == [rounds[d][i] EXCEPT !.status = "accepted", !.text = t]
             s == [rounds[d] EXCEPT ![i] = y]
             x == [row[d] EXCEPT !.current = t]
  <2>1. /\ row[d] \in Row /\ rounds[d] \in Seq(Round)
        /\ DebateTyped(row[d], rounds[d]) /\ row[d].status = "active"
    BY <1>0, <1>11 DEF DebatesTyped, AcceptRound, IsActive
  <2>2. y \in Round
    <3>1. rounds[d][i] \in Round
      BY <2>1, ElementOfSeq, LenProperties
    <3> QED
      BY <3>1 DEF Round
  <2>3. s \in Seq(Round)
    BY <2>1, <2>2, ExceptSeq, LenProperties
  <2>4. x \in Row /\ DebateTyped(x, s)
    BY <2>1 DEF Row, DebateTyped
  <2>5. row' = [row EXCEPT ![d] = x] /\ rounds' = [rounds EXCEPT ![d] = s]
    BY <1>11 DEF AcceptRound, Decided
  <2> HIDE DEF x, s
  <2> QED
    BY <1>0, <2>3, <2>4, <2>5, DebateTypedStep
<1>12. ASSUME NEW d \in Debates, NEW i \in DOMAIN rounds[d], RejectRound(d, i)
       PROVE  DebatesTyped'
  <2> DEFINE y == [rounds[d][i] EXCEPT !.status = "rejected", !.text = rounds[d][i].text]
             s == [rounds[d] EXCEPT ![i] = y]
  <2>1. /\ row[d] \in Row /\ rounds[d] \in Seq(Round)
        /\ DebateTyped(row[d], rounds[d]) /\ row[d].status = "active"
    BY <1>0, <1>12 DEF DebatesTyped, RejectRound, IsActive
  <2>2. rounds[d][i] \in Round
    BY <2>1, ElementOfSeq, LenProperties
  <2>3. y \in Round
    BY <2>2 DEF Round
  <2>4. s \in Seq(Round)
    BY <2>1, <2>3, ExceptSeq, LenProperties
  <2>5. DebateTyped(row[d], s)
    BY <2>1 DEF DebateTyped
  <2>6. row' = [row EXCEPT ![d] = row[d]] /\ rounds' = [rounds EXCEPT ![d] = s]
    BY <1>0, <1>12 DEF RejectRound, Decided, DebatesTyped
  <2> HIDE DEF s
  <2> QED
    BY <1>0, <2>1, <2>4, <2>5, <2>6, DebateTypedStep
<1>13. ASSUME NEW d \in Debates, NEW i \in DOMAIN rounds[d], UndoRounds(d, i)
       PROVE  DebatesTyped'
  <2> DEFINE s == SubSeq(rounds[d], 1, i - 1)
             t == TextBefore(rounds[d], row[d].seed, i)
             x == [row[d] EXCEPT !.current = t]
  <2>1. /\ row[d] \in Row /\ rounds[d] \in Seq(Round) /\ DOMAIN rounds[d] = 1..Len(rounds[d])
        /\ DebateTyped(row[d], rounds[d]) /\ row[d].status = "active"
    BY <1>0, <1>13, LenProperties DEF DebatesTyped, UndoRounds, IsActive
  <2>2. t \in Texts
    BY <2>1, TextBeforeType DEF DebateTyped
  <2>3. s \in Seq(Round)
    BY <2>1, SubSeqProperties, LenProperties
  <2>4. x \in Row /\ DebateTyped(x, s)
    BY <2>1, <2>2 DEF Row, DebateTyped
  <2>5. row' = [row EXCEPT ![d] = x] /\ rounds' = [rounds EXCEPT ![d] = s]
    BY <1>13 DEF UndoRounds
  <2> HIDE DEF x, s
  <2> QED
    BY <1>0, <2>3, <2>4, <2>5, DebateTypedStep
<1>14. ASSUME NEW d \in Debates, ApproveDebate(d)
       PROVE  DebatesTyped' /\ description' \in Texts
  <2> DEFINE x == [row[d] EXCEPT !.status = "approved", !.approved = row[d].current]
  <2>1. row[d] \in Row /\ DebateTyped(row[d], rounds[d]) /\ row[d].status = "active"
    BY <1>0, <1>14 DEF DebatesTyped, ApproveDebate, IsActive
  <2>2. x \in Row /\ DebateTyped(x, rounds[d]) /\ row[d].current \in Texts
    BY <2>1 DEF Row, Status, DebateTyped
  <2>3. row' = [row EXCEPT ![d] = x] /\ rounds' = rounds /\ description' = row[d].current
    BY <1>14 DEF ApproveDebate
  <2> QED
    BY <1>0, <2>2, <2>3, RowTyped
<1>15. ASSUME NEW r \in Requests, NEW d \in Debates, EditSeed(r, d)
       PROVE  RequestsTyped'
  <2> DEFINE q == [Idle EXCEPT !.pc = "seeding", !.debate = d, !.verdict = (rounds[d] = << >>)]
  <2>1. q \in Request /\ RequestTyped(q)
    BY DEF Idle, Request, RequestTyped, Steps, RoundSteps
  <2>2. req' = [req EXCEPT ![r] = q]
    BY <1>15 DEF EditSeed
  <2> QED
    BY <1>0, <2>1, <2>2, BeginTyped
<1>16. ASSUME NEW r \in Requests, NEW t \in Texts, UpdateDebateSeed(r, t)
       PROVE  RequestsTyped' /\ DebatesTyped' /\ seedRaced' \in [Debates -> BOOLEAN]
  <2> DEFINE d == req[r].debate
             x == [row[d] EXCEPT !.seed = t, !.current = t]
  <2>1. d \in Debates
    BY <1>0, <1>16 DEF RequestsTyped, RequestTyped, UpdateDebateSeed, At
  <2>2. row[d] \in Row /\ DebateTyped(row[d], rounds[d]) /\ row[d].status = "active"
    BY <1>0, <1>16, <2>1 DEF DebatesTyped, UpdateDebateSeed, MayEditSeed, IsActive
  <2>3. x \in Row /\ DebateTyped(x, rounds[d])
    BY <2>2 DEF Row, DebateTyped
  <2>4. row' = [row EXCEPT ![d] = x] /\ rounds' = rounds /\ Finish(r)
    BY <1>16 DEF UpdateDebateSeed
  <2>5. seedRaced' \in [Debates -> BOOLEAN]
    BY <1>0, <1>16, <2>1 DEF UpdateDebateSeed
  <2> QED
    BY <1>0, <2>1, <2>3, <2>4, <2>5, RowTyped, FinishTyped
<1>17. ASSUME NEW r \in Requests, NEW t \in Texts, EditTicket(r, t)
       PROVE  RequestsTyped'
  <2> DEFINE q == [Idle EXCEPT !.pc = "editing", !.snap = description, !.draft = t]
  <2>1. q \in Request /\ RequestTyped(q)
    BY <1>0 DEF Idle, Request, RequestTyped, Steps, RoundSteps
  <2>2. req' = [req EXCEPT ![r] = q]
    BY <1>17 DEF EditTicket
  <2> QED
    BY <1>0, <2>1, <2>2, BeginTyped
<1>18. ASSUME NEW r \in Requests, StartUpdate(r)
       PROVE  RequestsTyped'
  <2> DEFINE q == [req[r] EXCEPT !.pc = "updating", !.verdict = NoneActive]
  <2>1. req[r] \in Request /\ RequestTyped(req[r]) /\ req[r].pc = "editing"
    BY <1>0, <1>18 DEF RequestsTyped, StartUpdate, At
  <2>2. q \in Request /\ RequestTyped(q)
    BY <2>1 DEF Request, RequestTyped, Steps, RoundSteps, NoneActive
  <2>3. req' = [req EXCEPT ![r] = q] \/ Finish(r)
    BY <1>18 DEF StartUpdate
  <2> QED
    BY <1>0, <2>2, <2>3, BeginTyped, FinishTyped
<1>19. ASSUME NEW r \in Requests, UpdateTicket(r)
       PROVE  description' \in Texts
  BY <1>0, <1>19 DEF UpdateTicket, RequestsTyped, RequestTyped, At
<1> HIDE DEF RequestsTyped, DebatesTyped
<1>20. CASE UNCHANGED vars
  BY <1>0, <1>20, <1>u, <1>v DEF vars
<1>21. ASSUME NEW r \in Requests, StartStep(r)
       PROVE  /\ description' \in Texts /\ seedRaced' \in [Debates -> BOOLEAN]
              /\ RequestsTyped' /\ DebatesTyped'
  BY <1>0, <1>21, <1>u, <1>1, <1>2, <1>3, <1>4, <1>9
     DEF StartStep, StartDebate, InsertDebate, InsertConflicts, FindActive, ReplyExhausted
<1>22. ASSUME NEW r \in Requests, RoundStep(r)
       PROVE  /\ description' \in Texts /\ seedRaced' \in [Debates -> BOOLEAN]
              /\ RequestsTyped' /\ DebatesTyped'
  BY <1>0, <1>22, <1>u, <1>6, <1>7, <1>8
     DEF RoundStep, RefineReturns, RefineFails, InsertRound, InsertFails, ClearInFlight
<1>23. ASSUME NEW r \in Requests, EditStep(r)
       PROVE  /\ description' \in Texts /\ seedRaced' \in [Debates -> BOOLEAN]
              /\ RequestsTyped' /\ DebatesTyped'
  BY <1>0, <1>23, <1>u, <1>9, <1>15, <1>16, <1>17, <1>18, <1>19
     DEF EditStep, EditSeed, UpdateDebateSeed, SeedRefused, EditTicket, StartUpdate,
         UpdateTicket
<1>24. ASSUME NEW d \in Debates, Decide(d)
       PROVE  /\ description' \in Texts /\ seedRaced' \in [Debates -> BOOLEAN]
              /\ RequestsTyped' /\ DebatesTyped'
  BY <1>0, <1>24, <1>v, <1>10, <1>11, <1>12, <1>13, <1>14
     DEF Decide, AcceptRound, RejectRound, UndoRounds, ApproveDebate, AbandonDebate
<1>25. ASSUME NEW r \in Requests, Crash(r)
       PROVE  /\ description' \in Texts /\ seedRaced' \in [Debates -> BOOLEAN]
              /\ RequestsTyped' /\ DebatesTyped'
  BY <1>0, <1>25, <1>u, <1>9 DEF Crash
<1>26. ASSUME NEW r \in Requests, NEW d \in Debates, Reserve(r, d)
       PROVE  /\ description' \in Texts /\ seedRaced' \in [Debates -> BOOLEAN]
              /\ RequestsTyped' /\ DebatesTyped'
  BY <1>0, <1>26, <1>5 DEF Reserve
<1>27. ASSUME NEW d \in Debates, ReservationAges(d)
       PROVE  /\ description' \in Texts /\ seedRaced' \in [Debates -> BOOLEAN]
              /\ RequestsTyped' /\ DebatesTyped'
  BY <1>0, <1>27, <1>v, <1>10 DEF ReservationAges
<1> QED
  BY <1>20, <1>21, <1>22, <1>23, <1>24, <1>25, <1>26, <1>27 DEF Next

\* The type invariant holds in every reachable state.
THEOREM TypeCorrect == Spec => []TypeOK
<1>1. Spec => []Typed
  BY TypedInit, TypedNext, PTL DEF Spec
<1>2. Typed => TypeOK
  BY DEF Typed
<1> QED
  BY <1>1, <1>2, PTL

-----------------------------------------------------------------------------
(* Terminal debates *)

Unmoved(d) ==
  /\ rounds'[d] = rounds[d]
  /\ \A f \in {"status", "seed", "current", "original", "approved"} : row'[d][f] = row[d][f]

\* A step changes a debate that is neither new nor active in its reservation only.
LEMMA FrozenStep ==
  ASSUME Typed, [Next]_vars, NEW d \in Debates, row[d].status \in {"approved", "abandoned"}
  PROVE  Unmoved(d)
<1>0. /\ row \in [Debates -> Row] /\ rounds \in [Debates -> Seq(Round)] /\ ~IsActive(d)
      /\ row[d].status # "none"
  BY DEF Typed, TypeOK, IsActive
<1>1. ASSUME UNCHANGED <<row, rounds>> PROVE Unmoved(d)
  BY <1>1 DEF Unmoved
<1>2. ASSUME NEW c \in Debates, ClearReservation(c), rounds'[d] = rounds[d] PROVE Unmoved(d)
  BY <1>0, <1>2 DEF ClearReservation, Unmoved, Row
<1>3. ASSUME NEW c \in Debates, c # d, NEW x, NEW s, row' = [row EXCEPT ![c] = x],
             rounds' = [rounds EXCEPT ![c] = s]
      PROVE  Unmoved(d)
  BY <1>0, <1>3 DEF Unmoved
<1>4. ASSUME NEW c \in Debates, c # d, NEW x, row' = [row EXCEPT ![c] = x], rounds' = rounds
      PROVE  Unmoved(d)
  BY <1>0, <1>4 DEF Unmoved
<1>5. ASSUME NEW r \in Requests, StartStep(r) PROVE Unmoved(d)
  BY <1>0, <1>1, <1>4, <1>5 DEF StartStep, StartDebate, InsertDebate, InsertConflicts,
    FindActive, ReplyExhausted
<1>6. ASSUME NEW r \in Requests, RoundStep(r) PROVE Unmoved(d)
  <2>1. req[r].pc \in RoundSteps => req[r].debate \in Debates
    BY DEF Typed, RequestTyped
  <2>2. ASSUME NEW t \in Texts, InsertRound(r, t) PROVE Unmoved(d)
    <3>1. req[r].debate \in Debates /\ req[r].debate # d
      BY <1>0, <2>1, <2>2 DEF InsertRound, MayInsert, At, RoundSteps, IsActive
    <3> QED
      BY <1>3, <2>2, <3>1 DEF InsertRound, ClearReservation
  <2>3. CASE ClearInFlight(r)
    BY <1>2, <2>1, <2>3 DEF ClearInFlight, At, RoundSteps
  <2> QED
    BY <1>1, <1>6, <2>2, <2>3 DEF RoundStep, RefineReturns, RefineFails, InsertFails
<1>7. ASSUME NEW r \in Requests, EditStep(r) PROVE Unmoved(d)
  <2>1. ASSUME NEW t \in Texts, UpdateDebateSeed(r, t) PROVE Unmoved(d)
    <3>1. req[r].debate \in Debates /\ req[r].debate # d
      BY <1>0, <2>1 DEF UpdateDebateSeed, MayEditSeed, At, Typed, RequestTyped, IsActive
    <3> QED
      BY <1>4, <2>1, <3>1 DEF UpdateDebateSeed
  <2> QED
    BY <1>1, <1>7, <2>1 DEF EditStep, EditSeed, SeedRefused, EditTicket, StartUpdate,
      UpdateTicket
<1>8. ASSUME NEW c \in Debates, Decide(c) PROVE Unmoved(d)
  <2>1. c # d
    BY <1>0, <1>8 DEF Decide, AcceptRound, RejectRound, UndoRounds, ApproveDebate,
      AbandonDebate, IsActive
  <2>2. CASE ApproveDebate(c) \/ AbandonDebate(c)
    BY <1>4, <2>1, <2>2 DEF ApproveDebate, AbandonDebate
  <2>3. ASSUME NEW i \in DOMAIN rounds[c], NEW t \in Texts,
               AcceptRound(c, i, t) \/ RejectRound(c, i) \/ UndoRounds(c, i)
        PROVE  Unmoved(d)
    BY <1>0, <2>1, <2>3 DEF AcceptRound, RejectRound, UndoRounds, Decided, Unmoved
  <2>4. description \in Texts
    BY DEF Typed, TypeOK
  <2> QED
    BY <1>8, <2>2, <2>3, <2>4 DEF Decide
<1>9. ASSUME NEW r \in Requests, NEW c \in Debates, Reserve(r, c) PROVE Unmoved(d)
  <2>1. c # d
    BY <1>0, <1>9 DEF Reserve
  <2> QED
    BY <1>4, <1>9, <2>1 DEF Reserve
<1>10. ASSUME NEW c \in Debates, ReservationAges(c) PROVE Unmoved(d)
  <2>1. c # d
    BY <1>0, <1>10 DEF ReservationAges
  <2> QED
    BY <1>4, <1>10, <2>1 DEF ReservationAges
<1> QED
  BY <1>1, <1>5, <1>6, <1>7, <1>8, <1>9, <1>10 DEF Next, vars, Crash

\* Nothing under way when a debate was approved or abandoned changes it later.
THEOREM DecidedForGood == Spec => TerminalFrozen
<1>1. Spec => []Typed
  BY TypedInit, TypedNext, PTL DEF Spec
<1>2. Typed /\ [Next]_vars =>
        [\A d \in Debates : row[d].status \in {"approved", "abandoned"} =>
           /\ rounds'[d] = rounds[d]
           /\ \A f \in {"status", "seed", "current", "original", "approved"} :
                row'[d][f] = row[d][f]]_vars
  BY FrozenStep DEF Unmoved
<1> QED
  BY <1>1, <1>2, PTL DEF Spec, TerminalFrozen

-----------------------------------------------------------------------------
(* The round in review *)

LEMMA InReviewNext ==
  ASSUME Typed, InReviewIsLast, [Next]_vars
  PROVE  InReviewIsLast'
<1>0. rounds \in [Debates -> Seq(Round)]
  BY DEF Typed, TypeOK
<1> DEFINE Last(s) == \A i \in DOMAIN s : s[i].status = "in_review" => i = Len(s)
<1>1. \A d \in Debates : Last(rounds[d])
  BY DEF InReviewIsLast, InReview
<1>2. ASSUME NEW d \in Debates, NEW s, Last(s), rounds' = [rounds EXCEPT ![d] = s]
      PROVE  InReviewIsLast'
  BY <1>0, <1>1, <1>2 DEF InReviewIsLast, InReview
<1>3. ASSUME UNCHANGED rounds PROVE InReviewIsLast'
  BY <1>3 DEF InReviewIsLast, InReview
<1>4. ASSUME NEW r \in Requests, NEW t \in Texts, InsertRound(r, t)
      PROVE  InReviewIsLast'
  <2> DEFINE d == req[r].debate
             y == [input |-> req[r].snap, text |-> t, status |-> "in_review"]
  <2>1. d \in Debates /\ req[r].snap \in Texts
    BY <1>4 DEF InsertRound, At, RoundSteps, Typed, RequestTyped
  <2>2. rounds[d] \in Seq(Round) /\ y \in Round
    BY <1>0, <2>1 DEF Round
  <2>3. \A i \in DOMAIN rounds[d] : rounds[d][i].status # "in_review"
    BY <1>4 DEF InsertRound, MayInsert, InReview
  <2>4. rounds' = [rounds EXCEPT ![d] = Append(rounds[d], y)]
    BY <1>4 DEF InsertRound
  <2> HIDE DEF d, y
  <2>5. Last(Append(rounds[d], y))
    <3>1. /\ DOMAIN Append(rounds[d], y) = 1..(Len(rounds[d]) + 1)
          /\ DOMAIN rounds[d] = 1..Len(rounds[d]) /\ Len(rounds[d]) \in Nat
          /\ Len(Append(rounds[d], y)) = Len(rounds[d]) + 1
          /\ \A i \in 1..Len(rounds[d]) : Append(rounds[d], y)[i] = rounds[d][i]
      BY <2>2, AppendProperties, LenProperties
    <3> QED
      BY <2>3, <3>1
  <2> QED
    BY <1>2, <2>1, <2>4, <2>5
<1>5. ASSUME NEW d \in Debates, NEW i \in InReview(d), NEW v \in {"accepted", "rejected"},
             NEW t, Decided(d, i, v, t)
      PROVE  InReviewIsLast'
  <2> DEFINE y == [rounds[d][i] EXCEPT !.status = v, !.text = t]
  <2>1. /\ rounds[d] \in Seq(Round) /\ i \in 1..Len(rounds[d])
        /\ DOMAIN rounds[d] = 1..Len(rounds[d])
    BY <1>0, LenProperties DEF InReview
  <2>2. rounds[d][i] \in Round
    BY <2>1, ElementOfSeq
  <2>3. y.status # "in_review"
    BY <2>2 DEF Round
  <2>4. rounds' = [rounds EXCEPT ![d] = [rounds[d] EXCEPT ![i] = y]]
    BY <1>5 DEF Decided
  <2> HIDE DEF y
  <2>5. /\ DOMAIN [rounds[d] EXCEPT ![i] = y] = DOMAIN rounds[d]
        /\ Len([rounds[d] EXCEPT ![i] = y]) = Len(rounds[d])
        /\ \A j \in DOMAIN rounds[d] :
             [rounds[d] EXCEPT ![i] = y][j] = IF j = i THEN y ELSE rounds[d][j]
    BY <2>1
  <2>6. Last([rounds[d] EXCEPT ![i] = y])
    BY <1>1, <2>3, <2>5
  <2> QED
    BY <1>2, <2>4, <2>6
<1>6. ASSUME NEW d \in Debates, NEW i \in DOMAIN rounds[d], UndoRounds(d, i)
      PROVE  InReviewIsLast'
  <2>1. /\ rounds[d] \in Seq(Round) /\ i \in 1..Len(rounds[d]) /\ Len(rounds[d]) \in Nat
        /\ DOMAIN rounds[d] = 1..Len(rounds[d])
    BY <1>0, LenProperties
  <2>2. /\ Len(SubSeq(rounds[d], 1, i - 1)) = i - 1
        /\ DOMAIN SubSeq(rounds[d], 1, i - 1) = 1..(i - 1)
        /\ \A j \in 1..(i - 1) : SubSeq(rounds[d], 1, i - 1)[j] = rounds[d][j]
    BY <2>1
  <2>3. Last(SubSeq(rounds[d], 1, i - 1))
    BY <1>1, <2>1, <2>2
  <2> QED
    BY <1>2, <1>6, <2>3 DEF UndoRounds
<1>7. ASSUME NEW r \in Requests, RoundStep(r) PROVE InReviewIsLast'
  BY <1>3, <1>4, <1>7 DEF RoundStep, RefineReturns, RefineFails, InsertFails, ClearInFlight
<1>8. ASSUME NEW d \in Debates, Decide(d) PROVE InReviewIsLast'
  BY <1>3, <1>5, <1>6, <1>8 DEF Decide, AcceptRound, RejectRound, ApproveDebate, AbandonDebate
<1> HIDE DEF Last
<1> QED
  BY <1>3, <1>7, <1>8 DEF Next, vars, StartStep, StartDebate, InsertDebate, InsertConflicts,
     FindActive, ReplyExhausted, EditStep, EditSeed, UpdateDebateSeed, SeedRefused,
     EditTicket, StartUpdate, UpdateTicket, Crash, Reserve, ReservationAges

\* Undo, late answers and repeated accepts never leave a suggestion buried
\* under later rounds.
THEOREM OnlyLastInReview == Spec => []InReviewIsLast
<1>1. Init => InReviewIsLast
  BY DEF Init, InReviewIsLast, InReview
<1>2. Spec => []Typed
  BY TypedInit, TypedNext, PTL DEF Spec
<1> QED
  BY <1>1, <1>2, InReviewNext, PTL DEF Spec

-----------------------------------------------------------------------------
(* The accepted-text chain *)

LEMMA ChainEmpty ==
  ASSUME NEW start
  PROVE  Chained(<< >>, start, start)
<1>1. TextBefore(<< >>, start, Len(<< >>) + 1) = start
  BY DEF TextBefore
<1> QED
  BY <1>1 DEF Chained

LEMMA TextChainNext ==
  ASSUME Typed, InReviewIsLast, TextChain, [Next]_vars
  PROVE  TextChain'
<1>0. /\ row \in [Debates -> Row] /\ rounds \in [Debates -> Seq(Round)]
      /\ seedRaced \in [Debates -> BOOLEAN]
      /\ \A d \in Debates : DebateTyped(row[d], rounds[d])
  BY DEF Typed, TypeOK
<1> DEFINE Ok(d) == ~seedRaced[d] => Chained(rounds[d], row[d].seed, row[d].current)
<1>a. \A d \in Debates : Ok(d)
  BY DEF TextChain
<1>b. ASSUME NEW d \in Debates, NEW x, NEW s, seedRaced' = seedRaced,
             row' = [row EXCEPT ![d] = x], rounds' = [rounds EXCEPT ![d] = s],
             ~seedRaced[d] => Chained(s, x.seed, x.current)
      PROVE  TextChain'
  BY <1>0, <1>a, <1>b DEF TextChain
<1>c. ASSUME NEW d \in Debates, NEW x, row' = [row EXCEPT ![d] = x],
             x.seed = row[d].seed, x.current = row[d].current,
             UNCHANGED <<rounds, seedRaced>>
      PROVE  TextChain'
  BY <1>0, <1>a, <1>c DEF TextChain
<1>d. ASSUME UNCHANGED <<row, rounds, seedRaced>> PROVE TextChain'
  BY <1>d DEF TextChain
<1>e. ASSUME NEW d \in Debates, ClearReservation(d), UNCHANGED <<rounds, seedRaced>>
      PROVE  TextChain'
  <2> DEFINE x == [row[d] EXCEPT !.inFlight = None, !.aged = FALSE]
  <2>1. row' = [row EXCEPT ![d] = x]
    BY <1>e DEF ClearReservation
  <2>2. x.seed = row[d].seed /\ x.current = row[d].current
    BY <1>0 DEF Row
  <2> QED
    BY <1>c, <1>e, <2>1, <2>2
<1> HIDE DEF Ok
<1>1. ASSUME NEW r \in Requests, NEW d \in Debates, InsertDebate(r, d) PROVE TextChain'
  <2> DEFINE x == NewRow(req[r].snap)
  <2>1. rounds[d] = << >> /\ rounds' = [rounds EXCEPT ![d] = << >>] /\ seedRaced' = seedRaced
    BY <1>0, <1>1 DEF InsertDebate, DebateTyped
  <2>2. row' = [row EXCEPT ![d] = x]
    BY <1>1 DEF InsertDebate
  <2>3. x.seed = x.current
    BY DEF NewRow, NoRow
  <2> HIDE DEF x
  <2> QED
    BY <1>b, <2>1, <2>2, <2>3, ChainEmpty
<1>2. ASSUME NEW r \in Requests, NEW t \in Texts, InsertRound(r, t) PROVE TextChain'
  <2> DEFINE d == req[r].debate
             x == [row[d] EXCEPT !.inFlight = None, !.aged = FALSE]
             y == [input |-> req[r].snap, text |-> t, status |-> "in_review"]
  <2>1. d \in Debates /\ req[r].snap \in Texts
    BY <1>2 DEF InsertRound, At, RoundSteps, Typed, RequestTyped
  <2>2. /\ rounds[d] \in Seq(Round) /\ y \in Round /\ y.status = "in_review"
        /\ y.input = row[d].current /\ row[d].seed \in Texts /\ row[d].current \in Texts
    BY <1>0, <1>2, <2>1 DEF Round, InsertRound, MayInsert, IsActive, DebateTyped
  <2>3. x.seed = row[d].seed /\ x.current = row[d].current
    BY <1>0, <2>1 DEF Row
  <2>4. /\ rounds' = [rounds EXCEPT ![d] = Append(rounds[d], y)]
        /\ row' = [row EXCEPT ![d] = x] /\ seedRaced' = seedRaced
    BY <1>2 DEF InsertRound, ClearReservation
  <2>5. ~seedRaced[d] => Chained(rounds[d], row[d].seed, row[d].current)
    BY <1>a, <2>1 DEF Ok
  <2> HIDE DEF d, x, y
  <2>6. ~seedRaced[d] => Chained(Append(rounds[d], y), x.seed, x.current)
    BY <2>2, <2>3, <2>5, ChainAppend
  <2> QED
    BY <1>b, <2>1, <2>4, <2>6
<1>3. ASSUME NEW d \in Debates, NEW i \in DOMAIN rounds[d], NEW t \in Texts,
             AcceptRound(d, i, t)
      PROVE  TextChain'
  <2> DEFINE y == [rounds[d][i] EXCEPT !.status = "accepted", !.text = t]
             s == [rounds[d] EXCEPT ![i] = y]
             x == [row[d] EXCEPT !.current = t]
  <2>1. /\ rounds[d] \in Seq(Round) /\ i = Len(rounds[d]) /\ i \in 1..Len(rounds[d])
        /\ rounds[d][i] \in Round /\ rounds[d][i].status = "in_review"
        /\ row[d].seed \in Texts /\ row[d].current \in Texts
    <3>1. i \in InReview(d) /\ IsActive(d)
      BY <1>3 DEF AcceptRound
    <3>2. rounds[d] \in Seq(Round) /\ DOMAIN rounds[d] = 1..Len(rounds[d])
      BY <1>0, LenProperties
    <3>3. rounds[d][i] \in Round
      BY <3>2, ElementOfSeq
    <3> QED
      BY <1>0, <3>1, <3>2, <3>3 DEF InReviewIsLast, InReview, DebateTyped, IsActive
  <2>2. y \in Round /\ y.status = "accepted" /\ y.text = t /\ y.input = rounds[d][i].input
    BY <2>1 DEF Round
  <2>3. x.seed = row[d].seed /\ x.current = t
    BY <1>0 DEF Row
  <2>4. /\ rounds' = [rounds EXCEPT ![d] = s] /\ row' = [row EXCEPT ![d] = x]
        /\ seedRaced' = seedRaced
    BY <1>3 DEF AcceptRound, Decided
  <2> HIDE DEF x, y
  <2>5. /\ s \in Seq(Round) /\ Len(s) = Len(rounds[d]) /\ rounds[d] # << >>
        /\ \A j \in 1..(Len(rounds[d]) - 1) : s[j] = rounds[d][j]
        /\ s[Len(rounds[d])] = y
    BY <2>1, <2>2, ExceptSeq, EmptySeq
  <2> HIDE DEF s
  <2>6. Accepted(s, Len(rounds[d])) /\ ~Accepted(rounds[d], Len(rounds[d]))
    BY <2>1, <2>2, <2>5 DEF Accepted
  <2>7. ~seedRaced[d] => Chained(s, row[d].seed, t)
    BY <1>a, <2>1, <2>2, <2>5, <2>6, ChainDecide DEF Ok
  <2> QED
    BY <1>b, <2>3, <2>4, <2>7
<1>4. ASSUME NEW d \in Debates, NEW i \in DOMAIN rounds[d], RejectRound(d, i)
      PROVE  TextChain'
  <2> DEFINE y == [rounds[d][i] EXCEPT !.status = "rejected", !.text = rounds[d][i].text]
             s == [rounds[d] EXCEPT ![i] = y]
  <2>1. /\ rounds[d] \in Seq(Round) /\ i = Len(rounds[d]) /\ i \in 1..Len(rounds[d])
        /\ rounds[d][i] \in Round /\ rounds[d][i].status = "in_review"
        /\ row[d].seed \in Texts /\ row[d].current \in Texts
    <3>1. i \in InReview(d) /\ IsActive(d)
      BY <1>4 DEF RejectRound
    <3>2. rounds[d] \in Seq(Round) /\ DOMAIN rounds[d] = 1..Len(rounds[d])
      BY <1>0, LenProperties
    <3>3. rounds[d][i] \in Round
      BY <3>2, ElementOfSeq
    <3> QED
      BY <1>0, <3>1, <3>2, <3>3 DEF InReviewIsLast, InReview, DebateTyped, IsActive
  <2>2. y \in Round /\ y.status = "rejected" /\ y.input = rounds[d][i].input
    BY <2>1 DEF Round
  <2>3. /\ rounds' = [rounds EXCEPT ![d] = s] /\ row' = [row EXCEPT ![d] = row[d]]
        /\ seedRaced' = seedRaced
    BY <1>0, <1>4 DEF RejectRound, Decided
  <2> HIDE DEF y
  <2>4. /\ s \in Seq(Round) /\ Len(s) = Len(rounds[d]) /\ rounds[d] # << >>
        /\ \A j \in 1..(Len(rounds[d]) - 1) : s[j] = rounds[d][j]
        /\ s[Len(rounds[d])] = y
    BY <2>1, <2>2, ExceptSeq, EmptySeq
  <2> HIDE DEF s
  <2>5. ~Accepted(s, Len(rounds[d])) /\ ~Accepted(rounds[d], Len(rounds[d]))
    BY <2>1, <2>2, <2>4 DEF Accepted
  <2>6. ~seedRaced[d] => Chained(s, row[d].seed, row[d].current)
    BY <1>a, <2>1, <2>2, <2>4, <2>5, ChainDecide DEF Ok
  <2> QED
    BY <1>b, <2>3, <2>6
<1>5. ASSUME NEW d \in Debates, NEW i \in DOMAIN rounds[d], UndoRounds(d, i)
      PROVE  TextChain'
  <2> DEFINE t == TextBefore(rounds[d], row[d].seed, i)
             s == SubSeq(rounds[d], 1, i - 1)
             x == [row[d] EXCEPT !.current = t]
  <2>1. /\ rounds[d] \in Seq(Round) /\ row[d].seed \in Texts /\ row[d].current \in Texts
        /\ x.seed = row[d].seed /\ x.current = t
    BY <1>0, <1>5 DEF UndoRounds, IsActive, DebateTyped, Row
  <2>2. ~seedRaced[d] => Chained(s, row[d].seed, t)
    BY <1>a, <2>1, ChainUndo DEF Ok
  <2>3. /\ rounds' = [rounds EXCEPT ![d] = s] /\ row' = [row EXCEPT ![d] = x]
        /\ seedRaced' = seedRaced
    BY <1>5 DEF UndoRounds
  <2> HIDE DEF x, s, t
  <2> QED
    BY <1>b, <2>1, <2>2, <2>3
<1>6. ASSUME NEW r \in Requests, NEW t \in Texts, UpdateDebateSeed(r, t)
      PROVE  TextChain'
  <2> DEFINE d == req[r].debate
             x == [row[d] EXCEPT !.seed = t, !.current = t]
  <2>1. d \in Debates
    BY <1>6 DEF UpdateDebateSeed, At, Typed, RequestTyped
  <2>2. x.seed = t /\ x.current = t
    BY <1>0, <2>1 DEF Row
  <2>3. /\ row' = [row EXCEPT ![d] = x] /\ rounds' = rounds
        /\ seedRaced' = [seedRaced EXCEPT ![d] = @ \/ rounds[d] # << >>]
    BY <1>6 DEF UpdateDebateSeed
  <2> HIDE DEF x, d
  <2>4. ~seedRaced'[d] => Chained(rounds'[d], row'[d].seed, row'[d].current)
    BY <1>0, <2>1, <2>2, <2>3, ChainEmpty
  <2>5. ASSUME NEW c \in Debates, c # d
        PROVE  ~seedRaced'[c] => Chained(rounds'[c], row'[c].seed, row'[c].current)
    BY <1>0, <1>a, <2>3, <2>5 DEF Ok
  <2> QED
    BY <2>4, <2>5 DEF TextChain
<1>7. ASSUME NEW d \in Debates, ApproveDebate(d) \/ AbandonDebate(d) \/ ReservationAges(d)
      PROVE  TextChain'
  <2>1. row[d] \in Row
    BY <1>0
  <2>2. CASE ApproveDebate(d)
    <3> DEFINE x == [row[d] EXCEPT !.status = "approved", !.approved = row[d].current]
    <3>1. x.seed = row[d].seed /\ x.current = row[d].current
      BY <2>1 DEF Row
    <3> QED
      BY <1>c, <2>2, <3>1 DEF ApproveDebate
  <2>3. CASE AbandonDebate(d)
    <3> DEFINE x == [row[d] EXCEPT !.status = "abandoned", !.inFlight = None, !.aged = FALSE]
    <3>1. x.seed = row[d].seed /\ x.current = row[d].current
      BY <2>1 DEF Row
    <3>2. row' = [row EXCEPT ![d] = x] /\ UNCHANGED <<rounds, seedRaced>>
      BY <2>3 DEF AbandonDebate
    <3> QED
      BY <1>c, <3>1, <3>2
  <2>4. CASE ReservationAges(d)
    <3> DEFINE x == [row[d] EXCEPT !.aged = TRUE]
    <3>1. x.seed = row[d].seed /\ x.current = row[d].current
      BY <2>1 DEF Row
    <3> QED
      BY <1>c, <2>4, <3>1 DEF ReservationAges
  <2> QED
    BY <1>7, <2>2, <2>3, <2>4
<1>8. ASSUME NEW r \in Requests, NEW d \in Debates, Reserve(r, d) PROVE TextChain'
  <2> DEFINE x == [row[d] EXCEPT !.inFlight = r, !.aged = FALSE]
  <2>1. x.seed = row[d].seed /\ x.current = row[d].current
    BY <1>0 DEF Row
  <2>2. row' = [row EXCEPT ![d] = x] /\ UNCHANGED <<rounds, seedRaced>>
    BY <1>8 DEF Reserve
  <2> QED
    BY <1>c, <2>1, <2>2
<1>9. ASSUME NEW r \in Requests, StartStep(r) PROVE TextChain'
  BY <1>d, <1>1, <1>9 DEF StartStep, StartDebate, InsertConflicts, FindActive, ReplyExhausted
<1>10. ASSUME NEW r \in Requests, RoundStep(r) PROVE TextChain'
  <2>1. req[r].pc \in RoundSteps => req[r].debate \in Debates
    BY DEF Typed, RequestTyped
  <2> QED
    BY <1>d, <1>e, <1>2, <1>10, <2>1 DEF RoundStep, RefineReturns, RefineFails, InsertFails,
      ClearInFlight, At, RoundSteps
<1>11. ASSUME NEW r \in Requests, EditStep(r) PROVE TextChain'
  BY <1>d, <1>6, <1>11 DEF EditStep, EditSeed, SeedRefused, EditTicket, StartUpdate,
    UpdateTicket
<1>12. ASSUME NEW d \in Debates, Decide(d) PROVE TextChain'
  BY <1>3, <1>4, <1>5, <1>7, <1>12 DEF Decide
<1> QED
  BY <1>d, <1>7, <1>8, <1>9, <1>10, <1>11, <1>12 DEF Next, vars, Crash

\* Every round was written from the accepted text below it, and current_text
\* is the accepted text now: no AI answer to a replaced text gets in.
THEOREM AcceptedTextChain == Spec => []TextChain
<1>1. Init => InReviewIsLast /\ TextChain
  BY ChainEmpty DEF Init, InReviewIsLast, InReview, TextChain, NoRow
<1>2. Spec => []Typed
  BY TypedInit, TypedNext, PTL DEF Spec
<1> QED
  BY <1>1, <1>2, InReviewNext, TextChainNext, PTL DEF Spec

-----------------------------------------------------------------------------
(* What an approved debate put on the ticket *)

ApprovedIsCurrent ==
  \A d \in Debates : row[d].status = "approved" => row[d].approved = row[d].current

LEMMA ApprovedNext ==
  ASSUME Typed, ApprovedIsCurrent, [Next]_vars
  PROVE  ApprovedIsCurrent'
<1> SUFFICES ASSUME NEW d \in Debates, row'[d].status = "approved"
             PROVE  row'[d].approved = row'[d].current
  BY DEF ApprovedIsCurrent
<1>0. row \in [Debates -> Row]
  BY DEF Typed, TypeOK
<1>1. CASE row[d].status = "approved"
  BY <1>1, FrozenStep DEF Unmoved, ApprovedIsCurrent
<1>2. CASE row[d].status # "approved"
  <2>1. ASSUME NEW c \in Debates, NEW x, row' = [row EXCEPT ![c] = x],
               x.status = "approved" => x.status = row[c].status
        PROVE  FALSE
    BY <1>0, <1>2, <2>1
  <2>2. ASSUME UNCHANGED row PROVE FALSE
    BY <1>2, <2>2
  <2>3. ASSUME NEW c \in Debates, ClearReservation(c) PROVE FALSE
    BY <1>0, <1>2, <2>3 DEF ClearReservation, Row
  <2>4. ASSUME NEW r \in Requests, StartStep(r) PROVE FALSE
    BY <2>1, <2>2, <2>4 DEF StartStep, StartDebate, InsertDebate, InsertConflicts, FindActive,
      ReplyExhausted, NewRow, NoRow
  <2>5. ASSUME NEW r \in Requests, RoundStep(r) PROVE FALSE
    <3>1. req[r].pc \in RoundSteps => req[r].debate \in Debates
      BY DEF Typed, RequestTyped
    <3> QED
      BY <2>2, <2>3, <2>5, <3>1 DEF RoundStep, RefineReturns, RefineFails, InsertRound,
        InsertFails, ClearInFlight, At, RoundSteps
  <2>6. ASSUME NEW r \in Requests, EditStep(r) PROVE FALSE
    <3>1. ASSUME NEW t \in Texts, UpdateDebateSeed(r, t) PROVE FALSE
      <4>1. req[r].debate \in Debates
        BY <3>1 DEF UpdateDebateSeed, At, Typed, RequestTyped
      <4> QED
        BY <1>0, <1>2, <3>1, <4>1 DEF UpdateDebateSeed, Row
    <3> QED
      BY <2>2, <2>6, <3>1 DEF EditStep, EditSeed, SeedRefused, EditTicket, StartUpdate,
        UpdateTicket
  <2>7. ASSUME NEW c \in Debates, AbandonDebate(c) PROVE FALSE
    BY <1>0, <1>2, <2>7 DEF AbandonDebate, Row
  <2>8. ASSUME NEW c \in Debates, NEW i \in DOMAIN rounds[c], NEW t \in Texts,
               AcceptRound(c, i, t) \/ RejectRound(c, i) \/ UndoRounds(c, i)
        PROVE  FALSE
    BY <1>0, <1>2, <2>8 DEF AcceptRound, RejectRound, UndoRounds, Row
  <2>9. ASSUME NEW c \in Debates, ApproveDebate(c)
        PROVE  row'[d].approved = row'[d].current
    <3> DEFINE x == [row[c] EXCEPT !.status = "approved", !.approved = row[c].current]
    <3>1. row' = [row EXCEPT ![c] = x]
      BY <2>9 DEF ApproveDebate
    <3>2. x.approved = x.current
      BY <1>0 DEF Row
    <3> HIDE DEF x
    <3> QED
      BY <1>0, <1>2, <3>1, <3>2
  <2>10. ASSUME NEW c \in Debates, Decide(c) PROVE row'[d].approved = row'[d].current
    <3>1. description \in Texts
      BY DEF Typed, TypeOK
    <3> QED
      BY <2>7, <2>8, <2>9, <2>10, <3>1 DEF Decide
  <2>11. ASSUME NEW r \in Requests, NEW c \in Debates, Reserve(r, c) PROVE FALSE
    BY <1>0, <1>2, <2>11 DEF Reserve, Row
  <2>12. ASSUME NEW c \in Debates, ReservationAges(c) PROVE FALSE
    BY <1>0, <1>2, <2>12 DEF ReservationAges, Row
  <2> QED
    BY <2>2, <2>4, <2>5, <2>6, <2>10, <2>11, <2>12 DEF Next, vars, Crash
<1> QED
  BY <1>1, <1>2

\* What approving put on the ticket is the last text somebody accepted.
THEOREM ApprovedTextAccepted == Spec => []ApprovedWasAccepted
<1>1. Init => ApprovedIsCurrent /\ InReviewIsLast /\ TextChain
  BY ChainEmpty DEF Init, ApprovedIsCurrent, InReviewIsLast, InReview, TextChain, NoRow
<1>2. Spec => []Typed
  BY TypedInit, TypedNext, PTL DEF Spec
<1>3. ApprovedIsCurrent /\ TextChain => ApprovedWasAccepted
  BY DEF ApprovedIsCurrent, TextChain, ApprovedWasAccepted, Chained
<1> QED
  BY <1>1, <1>2, <1>3, ApprovedNext, InReviewNext, TextChainNext, PTL DEF Spec

-----------------------------------------------------------------------------
(* Reservations *)

Calling(r, d) == req[r].pc \in RoundSteps /\ req[r].debate = d

\* While somebody is calling the AI for an active debate, the reservation is
\* theirs and young; ids that no row has yet are nobody's.
Owned ==
  \A r \in Requests, d \in Debates : Calling(r, d) =>
    /\ row[d].status # "none"
    /\ IsActive(d) => row[d].inFlight = r /\ ~row[d].aged

LEMMA OwnedNext ==
  ASSUME Typed, Owned, ~Stalls, [Next]_vars
  PROVE  Owned'
<1>0. /\ row \in [Debates -> Row] /\ req \in [Requests -> Request]
      /\ \A r \in Requests : RequestTyped(req[r])
  BY DEF Typed, TypeOK
<1>a. ASSUME UNCHANGED row,
             \A q \in Requests, c \in Debates : Calling(q, c)' => Calling(q, c)
      PROVE  Owned'
  BY <1>a DEF Owned, IsActive
<1>b. ASSUME NEW r \in Requests, NEW x, req' = [req EXCEPT ![r] = x], x.pc \notin RoundSteps
      PROVE  \A q \in Requests, c \in Debates : Calling(q, c)' => q # r /\ Calling(q, c)
  BY <1>0, <1>b DEF Calling
<1>c. ASSUME NEW r \in Requests, Finish(r)
      PROVE  \A q \in Requests, c \in Debates : Calling(q, c)' => q # r /\ Calling(q, c)
  BY <1>b, <1>c DEF Finish, Idle, RoundSteps
<1>d. ASSUME UNCHANGED req
      PROVE  \A q \in Requests, c \in Debates : Calling(q, c)' => Calling(q, c)
  BY <1>d DEF Calling
<1>e. ASSUME NEW d \in Debates, NEW x, row' = [row EXCEPT ![d] = x], row[d].status # "none",
             x.status # "none", x.status = "active" => row[d].status = "active",
             x.inFlight = row[d].inFlight, x.aged = row[d].aged,
             \A q \in Requests, c \in Debates : Calling(q, c)' => Calling(q, c)
      PROVE  Owned'
  BY <1>0, <1>e DEF Owned, IsActive
<1>1. ASSUME NEW r \in Requests, StartDebate(r) PROVE Owned'
  <2> DEFINE x == [Idle EXCEPT !.pc = "insert1", !.snap = description]
  <2>1. x.pc \notin RoundSteps /\ req' = [req EXCEPT ![r] = x] /\ UNCHANGED row
    BY <1>1 DEF StartDebate, Idle, RoundSteps
  <2> HIDE DEF x
  <2> QED
    BY <1>a, <1>b, <2>1
<1>2. ASSUME NEW r \in Requests, NEW d \in Debates, InsertDebate(r, d) PROVE Owned'
  <2>1. \A q \in Requests : ~Calling(q, d)
    BY <1>2 DEF InsertDebate, Owned
  <2> QED
    BY <1>0, <1>2, <1>c, <2>1 DEF InsertDebate, Owned, IsActive
<1>3. ASSUME NEW r \in Requests, NEW step \in Steps \ RoundSteps, Goto(r, step),
             UNCHANGED row
      PROVE  Owned'
  <2>1. [req[r] EXCEPT !.pc = step].pc \notin RoundSteps
    BY <1>0, <1>3 DEF Request
  <2> QED
    BY <1>3, <1>a, <1>b, <2>1 DEF Goto
<1>4. ASSUME NEW r \in Requests, Finish(r), UNCHANGED row
      PROVE  Owned'
  BY <1>4, <1>a, <1>c
<1>5. ASSUME NEW r \in Requests, StartStep(r) PROVE Owned'
  BY <1>1, <1>2, <1>3, <1>4, <1>5 DEF StartStep, InsertConflicts, FindActive, ReplyExhausted,
    Steps, RoundSteps
<1>6. ASSUME NEW r \in Requests, NEW d \in Debates, Reserve(r, d) PROVE Owned'
  <2> DEFINE x == [row[d] EXCEPT !.inFlight = r, !.aged = FALSE]
             y == [Idle EXCEPT !.pc = "refining", !.debate = d, !.snap = row[d].current]
  <2>1. /\ x.status = "active" /\ x.inFlight = r /\ x.aged = FALSE
        /\ row' = [row EXCEPT ![d] = x]
    BY <1>0, <1>6 DEF Reserve, IsActive, Row
  <2>2. y.debate = d /\ req' = [req EXCEPT ![r] = y]
    BY <1>6 DEF Reserve, Idle
  <2> HIDE DEF x, y
  <2>3. \A q \in Requests : ~Calling(q, d)
    BY <1>6, NoneAssumption DEF Reserve, MayReserve, Owned
  <2>4. \A q \in Requests, c \in Debates : Calling(q, c)' =>
           (q = r /\ c = d) \/ (q # r /\ c # d /\ Calling(q, c))
    BY <1>0, <2>2, <2>3 DEF Calling
  <2>5. \A c \in Debates : c # d => row'[c] = row[c]
    BY <1>0, <2>1
  <2>6. row'[d] = x
    BY <1>0, <2>1
  <2> QED
    BY <2>1, <2>4, <2>5, <2>6 DEF Owned, IsActive
<1>7. ASSUME NEW r \in Requests, RefineReturns(r) \/ RefineFails(r) \/ InsertFails(r)
      PROVE  Owned'
  <2>1. UNCHANGED row
    BY <1>7 DEF RefineReturns, RefineFails, InsertFails
  <2>2. req[r].pc \in RoundSteps /\ \E step \in RoundSteps : Goto(r, step)
    BY <1>7 DEF RefineReturns, RefineFails, InsertFails, At, RoundSteps
  <2>3. \A q \in Requests, c \in Debates : Calling(q, c)' => Calling(q, c)
    BY <1>0, <2>2 DEF Goto, Calling, Request
  <2> QED
    BY <1>a, <2>1, <2>3
<1>8. ASSUME NEW r \in Requests, NEW d \in Debates, Calling(r, d), ClearReservation(d),
             Finish(r)
      PROVE  Owned'
  <2> DEFINE x == [row[d] EXCEPT !.inFlight = None, !.aged = FALSE]
  <2>1. d \in Debates /\ Calling(r, d)
    BY <1>8
  <2>2. row' = [row EXCEPT ![d] = x] /\ x.status = row[d].status
    BY <1>0, <1>8, <2>1 DEF ClearReservation, Row
  <2> HIDE DEF x
  <2>3. row[d].status # "none" /\ (row[d].status = "active" => row[d].inFlight = r)
    BY <2>1 DEF Owned, IsActive
  <2>4. \A q \in Requests : Calling(q, d)' => x.status # "active"
    BY <1>8, <1>c, <2>1, <2>2, <2>3 DEF Owned, IsActive
  <2>5. \A c \in Debates : c # d => row'[c] = row[c]
    BY <1>0, <2>2
  <2>6. row'[d] = x
    BY <1>0, <2>1, <2>2
  <2> QED
    BY <1>8, <1>c, <2>2, <2>3, <2>4, <2>5, <2>6 DEF Owned, IsActive
<1>9. ASSUME NEW r \in Requests, RoundStep(r) PROVE Owned'
  <2>1. req[r].pc \in RoundSteps => req[r].debate \in Debates /\ Calling(r, req[r].debate)
    BY <1>0 DEF RequestTyped, Calling
  <2> QED
    BY <1>7, <1>8, <1>9, <2>1 DEF RoundStep, InsertRound, ClearInFlight, At, RoundSteps
<1>10. ASSUME NEW d \in Debates, ReservationAges(d) PROVE Owned'
  <2>1. \A q \in Requests : ~Calling(q, d)
    BY <1>10, NoneAssumption DEF ReservationAges, HolderIn, Owned, Calling
  <2>2. \A c \in Debates : c # d => row'[c] = row[c]
    BY <1>0, <1>10 DEF ReservationAges
  <2>3. \A q \in Requests, c \in Debates : Calling(q, c)' => Calling(q, c)
    BY <1>d, <1>10 DEF ReservationAges
  <2> QED
    BY <2>1, <2>2, <2>3 DEF Owned, IsActive
<1>11. ASSUME NEW d \in Debates, AbandonDebate(d) PROVE Owned'
  <2> DEFINE x == [row[d] EXCEPT !.status = "abandoned", !.inFlight = None, !.aged = FALSE]
  <2>1. x.status = "abandoned" /\ row' = [row EXCEPT ![d] = x]
    BY <1>0, <1>11 DEF AbandonDebate, Row
  <2> HIDE DEF x
  <2>2. \A q \in Requests, c \in Debates : Calling(q, c)' => Calling(q, c)
    BY <1>d, <1>11 DEF AbandonDebate
  <2> QED
    BY <1>0, <2>1, <2>2 DEF Owned, IsActive
<1>12. ASSUME NEW d \in Debates, NEW i \in DOMAIN rounds[d], NEW t \in Texts,
              AcceptRound(d, i, t) \/ RejectRound(d, i) \/ UndoRounds(d, i)
       PROVE  Owned'
  <2>1. row[d].status = "active" /\ row[d] \in Row /\ UNCHANGED req
    BY <1>0, <1>12 DEF AcceptRound, RejectRound, UndoRounds, IsActive
  <2>2. \A u : /\ [row[d] EXCEPT !.current = u].status = "active"
               /\ [row[d] EXCEPT !.current = u].inFlight = row[d].inFlight
               /\ [row[d] EXCEPT !.current = u].aged = row[d].aged
    BY <2>1 DEF Row
  <2>3. UNCHANGED row \/ \E u : row' = [row EXCEPT ![d] = [row[d] EXCEPT !.current = u]]
    BY <1>12 DEF AcceptRound, RejectRound, UndoRounds
  <2>4. \A q \in Requests, c \in Debates : Calling(q, c)' => Calling(q, c)
    BY <1>d, <2>1
  <2>5. ASSUME NEW u, row' = [row EXCEPT ![d] = [row[d] EXCEPT !.current = u]]
        PROVE  Owned'
    BY <1>e, <2>1, <2>2, <2>4, <2>5
  <2> QED
    BY <1>a, <2>3, <2>4, <2>5
<1>13. ASSUME NEW d \in Debates, ApproveDebate(d) PROVE Owned'
  <2> DEFINE x == [row[d] EXCEPT !.status = "approved", !.approved = row[d].current]
  <2>1. /\ row' = [row EXCEPT ![d] = x] /\ UNCHANGED req /\ row[d].status = "active"
        /\ x.status = "approved" /\ x.inFlight = row[d].inFlight /\ x.aged = row[d].aged
    BY <1>0, <1>13 DEF ApproveDebate, Row, IsActive
  <2> HIDE DEF x
  <2> QED
    BY <1>d, <1>e, <2>1
<1>14. ASSUME NEW d \in Debates, Decide(d) PROVE Owned'
  <2>1. description \in Texts
    BY DEF Typed, TypeOK
  <2> QED
    BY <1>11, <1>12, <1>13, <1>14, <2>1 DEF Decide
<1>15. ASSUME NEW r \in Requests, NEW d \in Debates, EditSeed(r, d) PROVE Owned'
  <2> DEFINE x == [Idle EXCEPT !.pc = "seeding", !.debate = d, !.verdict = (rounds[d] = << >>)]
  <2>1. x.pc \notin RoundSteps /\ req' = [req EXCEPT ![r] = x] /\ UNCHANGED row
    BY <1>15 DEF EditSeed, Idle, RoundSteps
  <2> HIDE DEF x
  <2> QED
    BY <1>a, <1>b, <2>1
<1>16. ASSUME NEW r \in Requests, NEW t \in Texts, UpdateDebateSeed(r, t) PROVE Owned'
  <2> DEFINE d == req[r].debate
             x == [row[d] EXCEPT !.seed = t, !.current = t]
  <2>1. d \in Debates /\ row[d].status = "active"
    BY <1>0, <1>16 DEF UpdateDebateSeed, MayEditSeed, At, RequestTyped, IsActive
  <2>2. /\ row' = [row EXCEPT ![d] = x] /\ Finish(r)
        /\ x.status = "active" /\ x.inFlight = row[d].inFlight /\ x.aged = row[d].aged
    BY <1>0, <1>16, <2>1 DEF UpdateDebateSeed, Row
  <2> HIDE DEF x, d
  <2> QED
    BY <1>c, <1>e, <2>1, <2>2
<1>17. ASSUME NEW r \in Requests, NEW t \in Texts, EditTicket(r, t) PROVE Owned'
  <2> DEFINE x == [Idle EXCEPT !.pc = "editing", !.snap = description, !.draft = t]
  <2>1. x.pc \notin RoundSteps /\ req' = [req EXCEPT ![r] = x] /\ UNCHANGED row
    BY <1>17 DEF EditTicket, Idle, RoundSteps
  <2> HIDE DEF x
  <2> QED
    BY <1>a, <1>b, <2>1
<1>18. ASSUME NEW r \in Requests, StartUpdate(r) PROVE Owned'
  <2> DEFINE x == [req[r] EXCEPT !.pc = "updating", !.verdict = NoneActive]
  <2>1. x.pc \notin RoundSteps /\ UNCHANGED row
        /\ (req' = [req EXCEPT ![r] = x] \/ Finish(r))
    BY <1>0, <1>18 DEF StartUpdate, Request, RoundSteps
  <2> HIDE DEF x
  <2> QED
    BY <1>4, <1>a, <1>b, <2>1
<1>19. ASSUME NEW r \in Requests, EditStep(r) PROVE Owned'
  BY <1>4, <1>15, <1>16, <1>17, <1>18, <1>19 DEF EditStep, SeedRefused, UpdateTicket
<1>20. CASE UNCHANGED vars
  BY <1>20, <1>a, <1>d DEF vars
<1> QED
  BY <1>4, <1>5, <1>6, <1>9, <1>10, <1>14, <1>19, <1>20 DEF Next, Crash

\* When no request outlives its reservation, whoever is calling the AI owns it.
THEOREM ReservationIsMine ==
  ASSUME ~Stalls
  PROVE  Spec => []CallerHoldsReservation
<1>1. Init => Owned
  BY DEF Init, Owned, Calling, Idle, RoundSteps
<1>2. Spec => []Typed
  BY TypedInit, TypedNext, PTL DEF Spec
<1>3. Typed /\ Owned => CallerHoldsReservation
  BY DEF Typed, RequestTyped, Owned, Calling, CallerHoldsReservation
<1>4. Typed /\ Owned /\ [Next]_vars => Owned'
  BY OwnedNext
<1> QED
  BY <1>1, <1>2, <1>3, <1>4, PTL DEF Spec

-----------------------------------------------------------------------------
(* The description *)

\* While a debate is active only its approval and an UPDATE that began before
\* it change the description.
THEOREM DescriptionLockHolds == Spec => DescriptionGuarded
<1> DEFINE Allowed ==
      \/ NoneActive
      \/ \E d \in Debates : IsActive(d) /\ row'[d].status = "approved"
      \/ \E r \in Requests : At(r, "updating") /\ req[r].verdict /\ req'[r].pc = "idle"
<1>1. Typed /\ [Next]_vars => [description' # description => Allowed]_vars
  <2> SUFFICES ASSUME Typed, [Next]_vars, description' # description
               PROVE  Allowed
    OBVIOUS
  <2>0. row \in [Debates -> Row] /\ req \in [Requests -> Request]
    BY DEF Typed, TypeOK
  <2>1. ASSUME NEW d \in Debates, ApproveDebate(d)
        PROVE  Allowed
    BY <2>0, <2>1 DEF ApproveDebate, Row
  <2>2. ASSUME NEW r \in Requests, UpdateTicket(r)
        PROVE  Allowed
    <3>1. req[r].verdict
      BY <2>2 DEF UpdateTicket
    <3>2. At(r, "updating") /\ req'[r].pc = "idle"
      BY <2>0, <2>2 DEF UpdateTicket, Finish, Idle
    <3> QED
      BY <3>1, <3>2
  <2> HIDE DEF Allowed
  <2>3. ASSUME NEW r \in Requests, EditStep(r)
        PROVE  Allowed
    BY <2>2, <2>3 DEF EditStep, EditSeed, UpdateDebateSeed, SeedRefused, EditTicket, StartUpdate
  <2>4. ASSUME NEW d \in Debates, Decide(d)
        PROVE  Allowed
    BY <2>1, <2>4 DEF Decide, AcceptRound, RejectRound, UndoRounds, AbandonDebate
  <2> QED
    BY <2>3, <2>4 DEF Next, vars, StartStep, StartDebate, InsertDebate, InsertConflicts,
      FindActive, ReplyExhausted, RoundStep, RefineReturns, RefineFails, InsertRound,
      InsertFails, ClearInFlight, Crash, Reserve, ReservationAges
<1>2. Spec => []Typed
  BY TypedInit, TypedNext, PTL DEF Spec
<1> QED
  BY <1>1, <1>2, PTL DEF Spec, DescriptionGuarded

-----------------------------------------------------------------------------
(* What readers see: the trail of texts *)

LEMMA TrailIs ==
  ASSUME NEW s \in Seq(Round), NEW start \in Texts
  PROVE  /\ Len(s) \in Nat
         /\ TrailOf(s, start) \in Seq(Texts)
         /\ Len(TrailOf(s, start)) = Len(s) + 1
         /\ \A n \in 1..(Len(s) + 1) : TrailOf(s, start)[n] = TextBefore(s, start, n)
<1>1. Len(s) \in Nat
  BY LenProperties
<1>2. TrailOf(s, start) \in [1..(Len(s) + 1) -> Texts]
  BY TextBeforeType DEF TrailOf
<1>3. Len(s) + 1 \in Nat
  BY <1>1
<1>4. TrailOf(s, start) \in Seq(Texts) /\ Len(TrailOf(s, start)) = Len(s) + 1
  BY <1>2, <1>3
<1> QED
  BY <1>1, <1>4 DEF TrailOf

LEMMA TrailEmpty ==
  ASSUME NEW start \in Texts
  PROVE  TrailOf(<< >>, start) = <<start>>
<1> DEFINE t == TrailOf(<< >>, start)
<1>1. << >> \in Seq(Round) /\ Len(<< >>) = 0
  OBVIOUS
<1>2. /\ t \in Seq(Texts) /\ Len(t) = Len(<< >>) + 1
      /\ \A n \in 1..(Len(<< >>) + 1) : t[n] = TextBefore(<< >>, start, n)
  BY <1>1, TrailIs
<1>3. TextBefore(<< >>, start, 1) = start
  BY DEF TextBefore
<1> HIDE DEF t
<1>4. Len(t) = 1 /\ t[1] = start
  BY <1>1, <1>2, <1>3
<1>5. <<start>> \in Seq(Texts) /\ Len(<<start>>) = 1 /\ <<start>>[1] = start
  OBVIOUS
<1>6. \A i \in 1..Len(t) : t[i] = <<start>>[i]
  BY <1>4, <1>5
<1>7. t = <<start>>
  BY <1>2, <1>4, <1>5, <1>6, SeqEqual
<1> QED
  BY <1>7 DEF t

\* A suggestion leaves the text as it is.
LEMMA TrailAppend ==
  ASSUME NEW s \in Seq(Round), NEW start \in Texts, NEW x \in Round, x.status = "in_review"
  PROVE  TrailOf(Append(s, x), start)
           = Append(TrailOf(s, start), TrailOf(s, start)[Len(TrailOf(s, start))])
<1> DEFINE u == Append(s, x)
           t == TrailOf(s, start)
           v == TrailOf(u, start)
<1>1. /\ u \in Seq(Round) /\ Len(u) = Len(s) + 1
      /\ \A i \in 1..Len(s) : u[i] = s[i]
      /\ u[Len(s) + 1] = x
  OBVIOUS
<1> HIDE DEF u
<1>2. /\ Len(s) \in Nat /\ t \in Seq(Texts) /\ Len(t) = Len(s) + 1
      /\ \A n \in 1..(Len(s) + 1) : t[n] = TextBefore(s, start, n)
  BY TrailIs
<1>3. /\ v \in Seq(Texts) /\ Len(v) = Len(s) + 2
      /\ \A n \in 1..(Len(s) + 2) : v[n] = TextBefore(u, start, n)
  BY <1>1, <1>2, TrailIs
<1>4. ASSUME NEW n \in 1..(Len(s) + 1)
      PROVE  v[n] = t[n]
  <2>1. \A i \in 1..(n - 1) : u[i] = s[i]
    BY <1>1, <1>2
  <2>2. n \in Nat
    BY <1>2
  <2>3. TextBefore(u, start, n) = TextBefore(s, start, n)
    BY <2>1, <2>2, TextBeforeLocal DEF Accepted
  <2> QED
    BY <1>2, <1>3, <2>3
<1>5. v[Len(s) + 2] = t[Len(s) + 1]
  <2>1. ~Accepted(u, Len(s) + 1)
    BY <1>1 DEF Accepted
  <2>2. TextBefore(u, start, Len(s) + 2) = TextBefore(u, start, Len(s) + 1)
    BY <1>2, <2>1, TextBeforeStep, Len(s) + 1 \in Nat \ {0}, (Len(s) + 1) + 1 = Len(s) + 2
  <2> QED
    BY <1>2, <1>3, <1>4, <2>2
<1> DEFINE w == Append(t, t[Len(t)])
<1>6. /\ w \in Seq(Texts) /\ Len(w) = Len(s) + 2
      /\ \A n \in 1..(Len(s) + 1) : w[n] = t[n]
      /\ w[Len(s) + 2] = t[Len(s) + 1]
  <2> HIDE DEF t
  <2>1. t[Len(t)] \in Texts
    BY <1>2
  <2> QED
    BY <1>2, <2>1
<1> HIDE DEF t, v, w
<1>7. \A n \in 1..Len(v) : v[n] = w[n]
  BY <1>2, <1>3, <1>4, <1>5, <1>6
<1>8. v = w
  BY <1>3, <1>6, <1>7, SeqEqual
<1> QED
  BY <1>8 DEF t, u, v, w

\* Deciding the last round puts its text there if it is accepted.
LEMMA TrailDecide ==
  ASSUME NEW s \in Seq(Round), NEW u \in Seq(Round), NEW start \in Texts,
         s # << >>, Len(u) = Len(s),
         \A i \in 1..(Len(s) - 1) : u[i] = s[i],
         ~Accepted(s, Len(s))
  PROVE  /\ Len(TrailOf(s, start)) > 1
         /\ TrailOf(s, start)[Len(TrailOf(s, start))]
              = TrailOf(s, start)[Len(TrailOf(s, start)) - 1]
         /\ TrailOf(u, start) =
              IF Accepted(u, Len(s))
                THEN [TrailOf(s, start) EXCEPT ![Len(TrailOf(s, start))] = u[Len(s)].text]
                ELSE TrailOf(s, start)
<1> DEFINE t == TrailOf(s, start)
           v == TrailOf(u, start)
<1>1. Len(s) \in Nat \ {0}
  BY EmptySeq, LenProperties
<1>2. /\ t \in Seq(Texts) /\ Len(t) = Len(s) + 1
      /\ \A n \in 1..(Len(s) + 1) : t[n] = TextBefore(s, start, n)
  BY TrailIs
<1>3. /\ v \in Seq(Texts) /\ Len(v) = Len(s) + 1
      /\ \A n \in 1..(Len(s) + 1) : v[n] = TextBefore(u, start, n)
  BY TrailIs
<1>4. ASSUME NEW n \in 1..Len(s)
      PROVE  v[n] = t[n]
  <2>1. \A i \in 1..(n - 1) : u[i] = s[i]
    BY <1>1
  <2>2. TextBefore(u, start, n) = TextBefore(s, start, n)
    BY <1>1, <2>1, TextBeforeLocal DEF Accepted
  <2> QED
    BY <1>1, <1>2, <1>3, <2>2
<1>5. t[Len(s) + 1] = t[Len(s)]
  BY <1>1, <1>2, TextBeforeStep
<1>6. v[Len(s) + 1] = IF Accepted(u, Len(s)) THEN u[Len(s)].text ELSE t[Len(s) + 1]
  <2>1. TextBefore(u, start, Len(s) + 1) =
          IF Accepted(u, Len(s)) THEN u[Len(s)].text ELSE TextBefore(u, start, Len(s))
    BY <1>1, TextBeforeStep
  <2>2. /\ v[Len(s)] = TextBefore(u, start, Len(s)) /\ v[Len(s)] = t[Len(s)]
        /\ v[Len(s) + 1] = TextBefore(u, start, Len(s) + 1)
    BY <1>1, <1>3, <1>4
  <2> HIDE DEF t, v
  <2> QED
    BY <1>5, <2>1, <2>2
<1> HIDE DEF t, v
<1>7. v[Len(s) + 1] \in Texts
  BY <1>1, <1>3
<1>8. CASE Accepted(u, Len(s))
  <2> DEFINE w == [t EXCEPT ![Len(t)] = u[Len(s)].text]
  <2>1. u[Len(s)].text \in Texts
    BY <1>6, <1>7, <1>8
  <2>2. /\ w \in Seq(Texts) /\ Len(w) = Len(s) + 1
        /\ \A n \in 1..Len(s) : w[n] = t[n]
        /\ w[Len(s) + 1] = u[Len(s)].text
    BY <1>1, <1>2, <2>1
  <2> HIDE DEF w
  <2>3. \A n \in 1..Len(v) : v[n] = w[n]
    BY <1>1, <1>3, <1>4, <1>6, <1>8, <2>2
  <2>4. v = w
    BY <1>3, <2>2, <2>3, SeqEqual
  <2> QED
    BY <1>1, <1>2, <1>5, <1>8, <2>4 DEF t, v, w
<1>9. CASE ~Accepted(u, Len(s))
  <2>1. \A n \in 1..Len(v) : v[n] = t[n]
    BY <1>1, <1>3, <1>4, <1>6, <1>9
  <2>2. v = t
    BY <1>2, <1>3, <2>1, SeqEqual
  <2> QED
    BY <1>1, <1>2, <1>5, <1>9, <2>2 DEF t, v
<1> QED
  BY <1>8, <1>9

\* Undo goes back along it.
LEMMA TrailUndo ==
  ASSUME NEW s \in Seq(Round), NEW start \in Texts, NEW n \in DOMAIN s
  PROVE  /\ n \in 1..(Len(TrailOf(s, start)) - 1)
         /\ TrailOf(SubSeq(s, 1, n - 1), start) = SubSeq(TrailOf(s, start), 1, n)
<1> DEFINE u == SubSeq(s, 1, n - 1)
           t == TrailOf(s, start)
           v == TrailOf(u, start)
<1>1. n \in 1..Len(s) /\ Len(s) \in Nat
  BY LenProperties
<1>2. /\ u \in Seq(Round) /\ Len(u) = n - 1
      /\ \A i \in 1..(n - 1) : u[i] = s[i]
  BY <1>1
<1> HIDE DEF u
<1>3. /\ t \in Seq(Texts) /\ Len(t) = Len(s) + 1
      /\ \A k \in 1..(Len(s) + 1) : t[k] = TextBefore(s, start, k)
  BY TrailIs
<1>4. /\ v \in Seq(Texts) /\ Len(v) = n
      /\ \A k \in 1..n : v[k] = TextBefore(u, start, k)
  BY <1>1, <1>2, TrailIs
<1>5. ASSUME NEW k \in 1..n
      PROVE  v[k] = t[k]
  <2>1. \A i \in 1..(k - 1) : u[i] = s[i]
    BY <1>1, <1>2
  <2>2. TextBefore(u, start, k) = TextBefore(s, start, k)
    BY <1>1, <2>1, TextBeforeLocal DEF Accepted
  <2> QED
    BY <1>1, <1>3, <1>4, <2>2
<1> HIDE DEF t, v
<1> DEFINE w == SubSeq(t, 1, n)
<1>6. w \in Seq(Texts) /\ Len(w) = n /\ \A k \in 1..n : w[k] = t[k]
  BY <1>1, <1>3
<1> HIDE DEF w
<1>7. v = w
  BY <1>4, <1>5, <1>6, SeqEqual
<1> QED
  BY <1>1, <1>3, <1>7 DEF t, u, v, w

-----------------------------------------------------------------------------
(* What readers see of a step *)

\* An id that no row has yet lost no race.
UnracedIds == \A d \in Debates : row[d].status = "none" => ~seedRaced[d]

LEMMA UnracedNext ==
  ASSUME Typed, UnracedIds, [Next]_vars
  PROVE  UnracedIds'
<1>0. /\ row \in [Debates -> Row] /\ seedRaced \in [Debates -> BOOLEAN]
  BY DEF Typed, TypeOK
<1>1. ASSUME UNCHANGED seedRaced,
             \A d \in Debates : row'[d].status = "none" => row[d].status = "none"
      PROVE  UnracedIds'
  BY <1>1 DEF UnracedIds
<1>2. ASSUME NEW r \in Requests, StartStep(r) PROVE UnracedIds'
  BY <1>0, <1>1, <1>2 DEF StartStep, StartDebate, InsertDebate, InsertConflicts, FindActive,
    ReplyExhausted, NewRow, NoRow
<1>3. ASSUME NEW r \in Requests, RoundStep(r) PROVE UnracedIds'
  <2>1. req[r].pc \in RoundSteps => req[r].debate \in Debates
    BY DEF Typed, RequestTyped
  <2>2. ASSUME NEW d \in Debates, ClearReservation(d), UNCHANGED seedRaced PROVE UnracedIds'
    BY <1>0, <1>1, <2>2 DEF ClearReservation, Row
  <2> QED
    BY <1>1, <1>3, <2>1, <2>2 DEF RoundStep, RefineReturns, RefineFails, InsertRound,
      InsertFails, ClearInFlight, At, RoundSteps
<1>4. ASSUME NEW r \in Requests, EditStep(r) PROVE UnracedIds'
  <2>1. ASSUME NEW t \in Texts, UpdateDebateSeed(r, t) PROVE UnracedIds'
    <3>1. req[r].debate \in Debates /\ row[req[r].debate].status = "active"
      BY <2>1 DEF UpdateDebateSeed, MayEditSeed, At, Typed, RequestTyped, IsActive
    <3> QED
      BY <1>0, <2>1, <3>1 DEF UpdateDebateSeed, UnracedIds, Row
  <2> QED
    BY <1>1, <1>4, <2>1 DEF EditStep, EditSeed, SeedRefused, EditTicket, StartUpdate,
      UpdateTicket
<1>5. ASSUME NEW d \in Debates, Decide(d) PROVE UnracedIds'
  BY <1>0, <1>1, <1>5 DEF Decide, AcceptRound, RejectRound, UndoRounds, ApproveDebate,
    AbandonDebate, Row, IsActive
<1>6. ASSUME NEW r \in Requests, NEW d \in Debates, Reserve(r, d) PROVE UnracedIds'
  BY <1>0, <1>1, <1>6 DEF Reserve, Row
<1>7. ASSUME NEW d \in Debates, ReservationAges(d) PROVE UnracedIds'
  BY <1>0, <1>1, <1>7 DEF ReservationAges, Row
<1> QED
  BY <1>1, <1>2, <1>3, <1>4, <1>5, <1>6, <1>7 DEF Next, vars, Crash

SeenOf(x) == IF x.status = "approved" THEN x.approved ELSE None

TrailFor(x, s, raced) ==
  IF x.status = "none" \/ raced THEN << >> ELSE TrailOf(s, x.seed)

Becomes(d, x, s, raced) ==
  /\ row' = [row EXCEPT ![d] = x]
  /\ rounds' = [rounds EXCEPT ![d] = s]
  /\ seedRaced' = [seedRaced EXCEPT ![d] = raced]

\* Nothing a reader sees changes,
LEMMA Unseen ==
  ASSUME UNCHANGED <<description, rounds, seedRaced>>,
         \A d \in Debates : \A f \in {"status", "seed", "approved"} : row'[d][f] = row[d][f]
  PROVE  UNCHANGED <<description, Stage, Trail, Published>>
<1>1. \A d \in Debates : /\ row'[d].status = row[d].status
                         /\ row'[d].seed = row[d].seed
                         /\ row'[d].approved = row[d].approved
  OBVIOUS
<1>2. Stage' = Stage
  BY <1>1 DEF Stage
<1>3. Published' = Published
  BY <1>1 DEF Published
<1>4. Trail' = Trail
  BY <1>1 DEF Trail
<1> QED
  BY <1>2, <1>3, <1>4

\* or that of one debate does.
LEMMA SeenChange ==
  ASSUME Typed, NEW d \in Debates, NEW x, NEW s, NEW b, Becomes(d, x, s, b)
  PROVE  /\ Stage' = [Stage EXCEPT ![d] = x.status]
         /\ Trail' = [Trail EXCEPT ![d] = TrailFor(x, s, b)]
         /\ Published' = [Published EXCEPT ![d] = SeenOf(x)]
<1>0. /\ row \in [Debates -> Row] /\ rounds \in [Debates -> Seq(Round)]
      /\ seedRaced \in [Debates -> BOOLEAN]
  BY DEF Typed, TypeOK
<1>1. /\ row'[d] = x /\ rounds'[d] = s /\ seedRaced'[d] = b
      /\ \A c \in Debates \ {d} : /\ row'[c] = row[c] /\ rounds'[c] = rounds[c]
                                  /\ seedRaced'[c] = seedRaced[c]
  BY <1>0 DEF Becomes
<1>2. Stage' = [Stage EXCEPT ![d] = x.status]
  <2>1. /\ Stage = [c \in Debates |-> row[c].status]
        /\ Stage' = [c \in Debates |-> row'[c].status]
    BY DEF Stage
  <2> QED
    BY <1>1, <2>1
<1>3. Published' = [Published EXCEPT ![d] = SeenOf(x)]
  <2>1. \A c \in Debates \ {d} : SeenOf(row'[c]) = SeenOf(row[c])
    BY <1>1
  <2>2. /\ Published = [c \in Debates |-> SeenOf(row[c])]
        /\ Published' = [c \in Debates |-> SeenOf(row'[c])]
    BY DEF Published, SeenOf
  <2> QED
    BY <1>1, <2>1, <2>2
<1>4. Trail' = [Trail EXCEPT ![d] = TrailFor(x, s, b)]
  <2>1. \A c \in Debates \ {d} : TrailFor(row'[c], rounds'[c], seedRaced'[c])
                                   = TrailFor(row[c], rounds[c], seedRaced[c])
    BY <1>1
  <2>2. /\ Trail = [c \in Debates |-> TrailFor(row[c], rounds[c], seedRaced[c])]
        /\ Trail' = [c \in Debates |-> TrailFor(row'[c], rounds'[c], seedRaced'[c])]
    BY DEF Trail, TrailFor
  <2> QED
    BY <1>1, <2>1, <2>2
<1> QED
  BY <1>2, <1>3, <1>4

\* A row that changes in nothing a reader sees.
LEMMA UnseenRow ==
  ASSUME Typed, NEW d \in Debates, NEW x,
         row' = [row EXCEPT ![d] = x],
         \A f \in {"status", "seed", "approved"} : x[f] = row[d][f],
         UNCHANGED <<description, rounds, seedRaced>>
  PROVE  UNCHANGED <<description, Stage, Trail, Published>>
<1>1. \A c \in Debates : \A f \in {"status", "seed", "approved"} : row'[c][f] = row[c][f]
  BY DEF Typed, TypeOK
<1> QED
  BY <1>1, Unseen

LEMMA DocOpen ==
  ASSUME Typed, UnracedIds, NEW r \in Requests, NEW d \in Debates, InsertDebate(r, d)
  PROVE  Doc!Next
<1> DEFINE t == req[r].snap
           x == NewRow(t)
<1>1. t \in Texts
  BY DEF InsertDebate, At, Typed, RequestTyped
<1>2. /\ row \in [Debates -> Row] /\ rounds \in [Debates -> Seq(Round)]
      /\ seedRaced \in [Debates -> BOOLEAN]
  BY DEF Typed, TypeOK
<1>3. row[d].status = "none" /\ rounds[d] = << >> /\ ~seedRaced[d]
  BY DEF InsertDebate, Typed, DebateTyped, UnracedIds
<1>4. description' = description /\ Becomes(d, x, << >>, FALSE)
  BY <1>2, <1>3 DEF InsertDebate, Becomes
<1>5. x.status = "active" /\ x.seed = t
  BY DEF NewRow, NoRow
<1> HIDE DEF x, t
<1>6. /\ Stage' = [Stage EXCEPT ![d] = "active"]
      /\ Trail' = [Trail EXCEPT ![d] = TrailFor(x, << >>, FALSE)]
      /\ Published' = [Published EXCEPT ![d] = None]
  <2>1. SeenOf(x) = None
    BY <1>5 DEF SeenOf
  <2>2. /\ Stage' = [Stage EXCEPT ![d] = x.status]
        /\ Trail' = [Trail EXCEPT ![d] = TrailFor(x, << >>, FALSE)]
        /\ Published' = [Published EXCEPT ![d] = SeenOf(x)]
    BY <1>4, SeenChange
  <2> QED
    BY <1>5, <2>1, <2>2
<1>7. TrailFor(x, << >>, FALSE) = <<t>>
  BY <1>1, <1>5, TrailEmpty DEF TrailFor
<1>8. Published' = Published
  <2>1. Published[d] = None
    BY <1>3 DEF Published
  <2>2. Published = [c \in Debates |-> Published[c]]
    BY DEF Published
  <2> QED
    BY <1>6, <2>1, <2>2
<1>9. Stage[d] = "none" /\ \A c \in Debates : Stage[c] # "active"
  BY <1>3 DEF Stage, InsertDebate, NoneActive, IsActive
<1>10. Doc!Open(d, t)
  BY <1>4, <1>6, <1>7, <1>8, <1>9 DEF Doc!Open, Doc!IsOpen
<1> QED
  BY <1>1, <1>10 DEF Doc!Next

\* A step that changes the rounds and the current text of an active debate.
LEMMA ActiveChange ==
  ASSUME Typed, NEW d \in Debates, row[d].status = "active", NEW x, NEW s,
         row' = [row EXCEPT ![d] = x],
         rounds' = [rounds EXCEPT ![d] = s],
         \A f \in {"status", "seed", "approved"} : x[f] = row[d][f],
         UNCHANGED <<description, seedRaced>>
  PROVE  /\ UNCHANGED <<description, Stage, Published>>
         /\ Doc!IsOpen(d)
         /\ seedRaced[d] => UNCHANGED Trail
         /\ ~seedRaced[d] =>
              /\ Trail[d] = TrailOf(rounds[d], row[d].seed)
              /\ Trail' = [Trail EXCEPT ![d] = TrailOf(s, row[d].seed)]
<1>0. /\ row \in [Debates -> Row] /\ rounds \in [Debates -> Seq(Round)]
      /\ seedRaced \in [Debates -> BOOLEAN]
  BY DEF Typed, TypeOK
<1>1. Becomes(d, x, s, seedRaced[d])
  BY <1>0 DEF Becomes
<1>2. /\ Stage' = [Stage EXCEPT ![d] = x.status]
      /\ Trail' = [Trail EXCEPT ![d] = TrailFor(x, s, seedRaced[d])]
      /\ Published' = [Published EXCEPT ![d] = SeenOf(x)]
  BY <1>1, SeenChange
<1>3. x.status = row[d].status /\ x.seed = row[d].seed /\ x.approved = row[d].approved
  OBVIOUS
<1>4. Stage[d] = "active" /\ Published[d] = None /\ SeenOf(x) = None
  BY <1>3 DEF Stage, Published, SeenOf
<1>5. /\ Stage = [c \in Debates |-> Stage[c]]
      /\ Trail = [c \in Debates |-> Trail[c]]
      /\ Published = [c \in Debates |-> Published[c]]
  BY DEF Stage, Trail, Published
<1>6. Stage' = Stage /\ Published' = Published
  BY <1>2, <1>3, <1>4, <1>5
<1>7. Doc!IsOpen(d)
  BY <1>4 DEF Doc!IsOpen
<1>8. ASSUME seedRaced[d]
      PROVE  Trail' = Trail
  <2>1. Trail[d] = << >> /\ TrailFor(x, s, seedRaced[d]) = << >>
    BY <1>8 DEF Trail, TrailFor
  <2> QED
    BY <1>2, <1>5, <2>1
<1>9. ASSUME ~seedRaced[d]
      PROVE  /\ Trail[d] = TrailOf(rounds[d], row[d].seed)
             /\ Trail' = [Trail EXCEPT ![d] = TrailOf(s, row[d].seed)]
  <2>1. Trail[d] = TrailOf(rounds[d], row[d].seed)
    BY <1>9 DEF Trail
  <2>2. TrailFor(x, s, seedRaced[d]) = TrailOf(s, row[d].seed)
    BY <1>3, <1>9 DEF TrailFor
  <2> QED
    BY <1>2, <2>1, <2>2
<1> QED
  BY <1>6, <1>7, <1>8, <1>9

LEMMA DocSuggest ==
  ASSUME Typed, NEW r \in Requests, NEW t \in Texts, InsertRound(r, t)
  PROVE  Doc!Next \/ UNCHANGED <<description, Stage, Trail, Published>>
<1> DEFINE d == req[r].debate
           x == [row[d] EXCEPT !.inFlight = None, !.aged = FALSE]
           y == [input |-> req[r].snap, text |-> t, status |-> "in_review"]
           s == Append(rounds[d], y)
<1>1. d \in Debates /\ req[r].snap \in Texts
  BY DEF InsertRound, At, RoundSteps, Typed, RequestTyped
<1>2. row[d] \in Row /\ rounds[d] \in Seq(Round)
  BY <1>1 DEF Typed, TypeOK
<1>3. row[d].status = "active"
  BY DEF InsertRound, MayInsert, IsActive
<1>4. row[d].seed \in Texts
  BY <1>1, <1>3 DEF Typed, DebateTyped
<1>5. y \in Round /\ y.status = "in_review"
  BY <1>1 DEF Round
<1>6. \A f \in {"status", "seed", "approved"} : x[f] = row[d][f]
  BY <1>2 DEF Row
<1>7. /\ row' = [row EXCEPT ![d] = x] /\ rounds' = [rounds EXCEPT ![d] = s]
      /\ UNCHANGED <<description, seedRaced>>
  BY DEF InsertRound, ClearReservation
<1> HIDE DEF d, x, y, s
<1>8. /\ UNCHANGED <<description, Stage, Published>>
      /\ Doc!IsOpen(d)
      /\ seedRaced[d] => UNCHANGED Trail
      /\ ~seedRaced[d] =>
           /\ Trail[d] = TrailOf(rounds[d], row[d].seed)
           /\ Trail' = [Trail EXCEPT ![d] = TrailOf(s, row[d].seed)]
  BY <1>1, <1>3, <1>6, <1>7, ActiveChange
<1>9. CASE ~seedRaced[d]
  <2>1. TrailOf(s, row[d].seed) = Append(Trail[d], Trail[d][Len(Trail[d])])
    BY <1>2, <1>4, <1>5, <1>8, <1>9, TrailAppend DEF s
  <2>2. Trail[d] # << >>
    BY <1>2, <1>4, <1>8, <1>9, TrailIs
  <2>3. Doc!Suggest(d)
    BY <1>8, <1>9, <2>1, <2>2 DEF Doc!Suggest, Doc!Standing
  <2> QED
    BY <1>1, <2>3 DEF Doc!Next
<1> QED
  BY <1>8, <1>9

LEMMA DocAccept ==
  ASSUME Typed, InReviewIsLast, NEW d \in Debates, NEW i \in DOMAIN rounds[d],
         NEW t \in Texts, AcceptRound(d, i, t) \/ RejectRound(d, i)
  PROVE  Doc!Next \/ UNCHANGED <<description, Stage, Trail, Published>>
<1> DEFINE v == IF AcceptRound(d, i, t) THEN "accepted" ELSE "rejected"
           w == IF AcceptRound(d, i, t) THEN t ELSE rounds[d][i].text
           x == IF AcceptRound(d, i, t) THEN [row[d] EXCEPT !.current = t] ELSE row[d]
           y == [rounds[d][i] EXCEPT !.status = v, !.text = w]
           s == [rounds[d] EXCEPT ![i] = y]
<1>1. /\ row \in [Debates -> Row] /\ row[d] \in Row /\ rounds[d] \in Seq(Round)
      /\ DOMAIN rounds[d] = 1..Len(rounds[d])
  BY LenProperties DEF Typed, TypeOK
<1>2. row[d].status = "active" /\ i \in InReview(d)
  BY DEF AcceptRound, RejectRound, IsActive
<1>3. row[d].seed \in Texts
  BY <1>2 DEF Typed, DebateTyped
<1>4. /\ i = Len(rounds[d]) /\ i \in 1..Len(rounds[d]) /\ rounds[d][i] \in Round
      /\ rounds[d][i].status = "in_review"
  BY <1>1, <1>2, ElementOfSeq DEF InReviewIsLast, InReview
<1>5. y \in Round /\ y.status = v /\ y.text = w /\ v \in {"accepted", "rejected"}
  BY <1>4 DEF Round
<1>6. \A f \in {"status", "seed", "approved"} : x[f] = row[d][f]
  BY <1>1 DEF Row
<1>7. /\ row' = [row EXCEPT ![d] = x] /\ rounds' = [rounds EXCEPT ![d] = s]
      /\ UNCHANGED <<description, seedRaced>>
  <2>1. CASE AcceptRound(d, i, t)
    BY <2>1 DEF AcceptRound, Decided
  <2>2. CASE ~AcceptRound(d, i, t)
    <3>1. RejectRound(d, i)
      BY <2>2
    <3> QED
      BY <1>1, <2>2, <3>1 DEF RejectRound, Decided
  <2> QED
    BY <2>1, <2>2
<1> HIDE DEF v, w, x, y
<1>8. /\ s \in Seq(Round) /\ Len(s) = Len(rounds[d]) /\ rounds[d] # << >>
      /\ \A j \in 1..(Len(rounds[d]) - 1) : s[j] = rounds[d][j]
      /\ s[Len(rounds[d])] = y
  BY <1>1, <1>4, <1>5, ExceptSeq, EmptySeq
<1> HIDE DEF s
<1>9. /\ UNCHANGED <<description, Stage, Published>>
      /\ Doc!IsOpen(d)
      /\ seedRaced[d] => UNCHANGED Trail
      /\ ~seedRaced[d] =>
           /\ Trail[d] = TrailOf(rounds[d], row[d].seed)
           /\ Trail' = [Trail EXCEPT ![d] = TrailOf(s, row[d].seed)]
  BY <1>2, <1>6, <1>7, ActiveChange
<1>10. CASE ~seedRaced[d]
  <2> DEFINE o == TrailOf(rounds[d], row[d].seed)
             n == TrailOf(s, row[d].seed)
  <2>1. ~Accepted(rounds[d], Len(rounds[d]))
    BY <1>4 DEF Accepted
  <2>2. /\ Len(o) > 1 /\ o[Len(o)] = o[Len(o) - 1]
        /\ n = IF Accepted(s, Len(rounds[d]))
                 THEN [o EXCEPT ![Len(o)] = s[Len(rounds[d])].text] ELSE o
    BY <1>1, <1>3, <1>8, <2>1, TrailDecide
  <2> HIDE DEF o, n
  <2>3. Trail[d] = o /\ Trail' = [Trail EXCEPT ![d] = n]
    BY <1>9, <1>10 DEF o, n
  <2>4. CASE v = "accepted"
    <3>1. w = t
      BY <2>4 DEF v, w
    <3>2. Accepted(s, Len(rounds[d])) /\ s[Len(rounds[d])].text = t
      BY <1>5, <1>8, <2>4, <3>1 DEF Accepted
    <3>3. n = [o EXCEPT ![Len(o)] = t]
      BY <2>2, <3>2
    <3>4. Doc!Accept(d, t)
      BY <1>9, <2>2, <2>3, <3>3 DEF Doc!Accept, Doc!Standing
    <3> QED
      BY <3>4 DEF Doc!Next
  <2>5. CASE v = "rejected"
    <3>1. ~Accepted(s, Len(rounds[d]))
      BY <1>5, <1>8, <2>5 DEF Accepted
    <3>2. n = o
      BY <2>2, <3>1
    <3>3. Trail = [c \in Debates |-> Trail[c]]
      BY DEF Trail
    <3>4. Trail' = Trail
      BY <2>3, <3>2, <3>3
    <3> QED
      BY <1>9, <3>4
  <2> QED
    BY <1>5, <2>4, <2>5
<1> QED
  BY <1>9, <1>10

LEMMA DocUndo ==
  ASSUME Typed, NEW d \in Debates, NEW i \in DOMAIN rounds[d], UndoRounds(d, i)
  PROVE  Doc!Next \/ UNCHANGED <<description, Stage, Trail, Published>>
<1> DEFINE t == TextBefore(rounds[d], row[d].seed, i)
           s == SubSeq(rounds[d], 1, i - 1)
           x == [row[d] EXCEPT !.current = t]
<1>1. row[d] \in Row /\ rounds[d] \in Seq(Round)
  BY DEF Typed, TypeOK
<1>2. row[d].status = "active"
  BY DEF UndoRounds, IsActive
<1>3. row[d].seed \in Texts
  BY <1>2 DEF Typed, DebateTyped
<1>4. \A f \in {"status", "seed", "approved"} : x[f] = row[d][f]
  BY <1>1 DEF Row
<1>5. /\ row' = [row EXCEPT ![d] = x] /\ rounds' = [rounds EXCEPT ![d] = s]
      /\ UNCHANGED <<description, seedRaced>>
  BY DEF UndoRounds
<1>6. /\ i \in 1..(Len(TrailOf(rounds[d], row[d].seed)) - 1)
      /\ TrailOf(s, row[d].seed) = SubSeq(TrailOf(rounds[d], row[d].seed), 1, i)
  BY <1>1, <1>3, TrailUndo
<1> HIDE DEF t, s, x
<1>7. /\ UNCHANGED <<description, Stage, Published>>
      /\ Doc!IsOpen(d)
      /\ seedRaced[d] => UNCHANGED Trail
      /\ ~seedRaced[d] =>
           /\ Trail[d] = TrailOf(rounds[d], row[d].seed)
           /\ Trail' = [Trail EXCEPT ![d] = TrailOf(s, row[d].seed)]
  BY <1>2, <1>4, <1>5, ActiveChange
<1>8. CASE ~seedRaced[d]
  <2>1. i \in 1..(Len(Trail[d]) - 1) /\ Trail' = [Trail EXCEPT ![d] = SubSeq(Trail[d], 1, i)]
    BY <1>6, <1>7, <1>8
  <2>2. Doc!Undo(d, i)
    BY <1>7, <2>1 DEF Doc!Undo
  <2> QED
    BY <2>1, <2>2 DEF Doc!Next
<1> QED
  BY <1>7, <1>8

\* Approval puts on the ticket where the trail ends.
LEMMA DocPublish ==
  ASSUME Typed, TextChain, NEW d \in Debates, ApproveDebate(d)
  PROVE  Doc!Next
<1> DEFINE t == row[d].current
           x == [row[d] EXCEPT !.status = "approved", !.approved = t]
<1>1. /\ row[d] \in Row /\ rounds \in [Debates -> Seq(Round)]
      /\ seedRaced \in [Debates -> BOOLEAN] /\ rounds[d] \in Seq(Round)
  BY DEF Typed, TypeOK
<1>2. row[d].status = "active"
  BY DEF ApproveDebate, IsActive
<1>3. row[d].seed \in Texts /\ t \in Texts
  BY <1>2 DEF Typed, DebateTyped
<1>4. description' = t /\ Becomes(d, x, rounds[d], seedRaced[d])
  BY <1>1 DEF ApproveDebate, Becomes
<1>5. x.status = "approved" /\ x.approved = t /\ x.seed = row[d].seed
  BY <1>1 DEF Row
<1>6. ~seedRaced[d] => t = TextBefore(rounds[d], row[d].seed, Len(rounds[d]) + 1)
  BY DEF TextChain, Chained
<1> HIDE DEF x, t
<1>7. /\ Stage' = [Stage EXCEPT ![d] = x.status]
      /\ Trail' = [Trail EXCEPT ![d] = TrailFor(x, rounds[d], seedRaced[d])]
      /\ Published' = [Published EXCEPT ![d] = SeenOf(x)]
  BY <1>4, SeenChange
<1>8. SeenOf(x) = t
  BY <1>5 DEF SeenOf
<1>9. TrailFor(x, rounds[d], seedRaced[d]) = Trail[d]
  BY <1>2, <1>5 DEF TrailFor, Trail
<1>10. Trail' = Trail
  <2>1. Trail = [c \in Debates |-> Trail[c]]
    BY DEF Trail
  <2> QED
    BY <1>7, <1>9, <2>1
<1>11. Trail[d] # << >> => t = Trail[d][Len(Trail[d])]
  <2>1. CASE seedRaced[d]
    BY <2>1 DEF Trail
  <2>2. CASE ~seedRaced[d]
    <3> DEFINE o == TrailOf(rounds[d], row[d].seed)
    <3>1. Trail[d] = o
      BY <1>2, <2>2 DEF Trail
    <3>2. /\ Len(rounds[d]) \in Nat /\ Len(o) = Len(rounds[d]) + 1
          /\ \A n \in 1..(Len(rounds[d]) + 1) :
               o[n] = TextBefore(rounds[d], row[d].seed, n)
      BY <1>1, <1>3, TrailIs
    <3> HIDE DEF o
    <3>3. o[Len(o)] = TextBefore(rounds[d], row[d].seed, Len(rounds[d]) + 1)
      BY <3>2
    <3> QED
      BY <1>6, <2>2, <3>1, <3>3
  <2> QED
    BY <2>1, <2>2
<1>12. Stage[d] = "active"
  BY <1>2 DEF Stage
<1>13. Doc!Publish(d, t)
  BY <1>4, <1>5, <1>7, <1>8, <1>10, <1>11, <1>12 DEF Doc!Publish, Doc!IsOpen, Doc!Standing
<1> QED
  BY <1>3, <1>13 DEF Doc!Next

LEMMA DocAbandon ==
  ASSUME Typed, NEW d \in Debates, AbandonDebate(d)
  PROVE  Doc!Next
<1> DEFINE x == [row[d] EXCEPT !.status = "abandoned", !.inFlight = None, !.aged = FALSE]
<1>1. /\ row[d] \in Row /\ rounds \in [Debates -> Seq(Round)]
      /\ seedRaced \in [Debates -> BOOLEAN]
  BY DEF Typed, TypeOK
<1>2. row[d].status = "active"
  BY DEF AbandonDebate, IsActive
<1>3. description' = description /\ Becomes(d, x, rounds[d], seedRaced[d])
  BY <1>1 DEF AbandonDebate, Becomes
<1>4. x.status = "abandoned" /\ x.seed = row[d].seed
  BY <1>1 DEF Row
<1> HIDE DEF x
<1>5. /\ Stage' = [Stage EXCEPT ![d] = x.status]
      /\ Trail' = [Trail EXCEPT ![d] = TrailFor(x, rounds[d], seedRaced[d])]
      /\ Published' = [Published EXCEPT ![d] = SeenOf(x)]
  BY <1>3, SeenChange
<1>6. SeenOf(x) = Published[d] /\ TrailFor(x, rounds[d], seedRaced[d]) = Trail[d]
  BY <1>2, <1>4 DEF SeenOf, TrailFor, Published, Trail
<1>7. /\ Trail = [c \in Debates |-> Trail[c]]
      /\ Published = [c \in Debates |-> Published[c]]
  BY DEF Trail, Published
<1>8. Trail' = Trail /\ Published' = Published
  BY <1>5, <1>6, <1>7
<1>9. Stage[d] = "active"
  BY <1>2 DEF Stage
<1>10. Doc!Abandon(d)
  BY <1>3, <1>4, <1>5, <1>8, <1>9 DEF Doc!Abandon, Doc!IsOpen
<1> QED
  BY <1>10 DEF Doc!Next

LEMMA DocSeed ==
  ASSUME Typed, NEW r \in Requests, NEW t \in Texts, UpdateDebateSeed(r, t)
  PROVE  Doc!Next
<1> DEFINE d == req[r].debate
           x == [row[d] EXCEPT !.seed = t, !.current = t]
           b == seedRaced[d] \/ rounds[d] # << >>
<1>1. d \in Debates
  BY DEF UpdateDebateSeed, At, Typed, RequestTyped
<1>2. /\ row[d] \in Row /\ rounds \in [Debates -> Seq(Round)]
      /\ seedRaced \in [Debates -> BOOLEAN]
  BY <1>1 DEF Typed, TypeOK
<1>3. row[d].status = "active" /\ row[d].seed \in Texts
  BY <1>1 DEF UpdateDebateSeed, MayEditSeed, IsActive, Typed, DebateTyped
<1>4. description' = description /\ Becomes(d, x, rounds[d], b)
  BY <1>2 DEF UpdateDebateSeed, Becomes
<1>5. x.status = "active" /\ x.seed = t
  BY <1>2, <1>3 DEF Row
<1> HIDE DEF d, x
<1>6. /\ Stage' = [Stage EXCEPT ![d] = x.status]
      /\ Trail' = [Trail EXCEPT ![d] = TrailFor(x, rounds[d], b)]
      /\ Published' = [Published EXCEPT ![d] = SeenOf(x)]
  BY <1>1, <1>4, SeenChange
<1>7. Stage[d] = "active" /\ Published[d] = None /\ SeenOf(x) = None
  BY <1>1, <1>3, <1>5 DEF Stage, Published, SeenOf
<1>8. /\ Stage = [c \in Debates |-> Stage[c]]
      /\ Published = [c \in Debates |-> Published[c]]
  BY DEF Stage, Published
<1>9. Stage' = Stage /\ Published' = Published
  BY <1>5, <1>6, <1>7, <1>8
<1>10. CASE b
  <2>1. TrailFor(x, rounds[d], b) = << >>
    BY <1>10 DEF TrailFor
  <2>2. Doc!Overwrite(d)
    BY <1>4, <1>6, <1>7, <1>9, <2>1 DEF Doc!Overwrite, Doc!IsOpen
  <2> QED
    BY <1>1, <2>2 DEF Doc!Next
<1>11. CASE ~b
  <2>1. rounds[d] = << >> /\ ~seedRaced[d] /\ Trail[d] = TrailOf(<< >>, row[d].seed)
    BY <1>1, <1>3, <1>11 DEF Trail
  <2>2. Len(Trail[d]) = 1
    BY <1>3, <2>1, TrailEmpty
  <2>3. TrailFor(x, rounds[d], b) = <<t>>
    BY <1>5, <1>11, <2>1, TrailEmpty DEF TrailFor
  <2>4. Doc!Reseed(d, t)
    BY <1>4, <1>6, <1>7, <1>9, <2>2, <2>3 DEF Doc!Reseed, Doc!IsOpen
  <2> QED
    BY <1>1, <2>4 DEF Doc!Next
<1> QED
  BY <1>10, <1>11

\* Every step of every handler is one of DebateDoc's, or unseen.
LEMMA DocNext ==
  ASSUME Typed, InReviewIsLast, TextChain, UnracedIds, [Next]_vars
  PROVE  Doc!Next \/ UNCHANGED <<description, Stage, Trail, Published>>
<1> DEFINE Goal == Doc!Next \/ UNCHANGED <<description, Stage, Trail, Published>>
<1>0. row \in [Debates -> Row]
  BY DEF Typed, TypeOK
<1>1. ASSUME UNCHANGED <<description, row, rounds, seedRaced>> PROVE Goal
  BY <1>1, Unseen
<1>2. ASSUME NEW d \in Debates, NEW a, NEW o, UNCHANGED <<description, rounds, seedRaced>>,
             row' = [row EXCEPT ![d] = [row[d] EXCEPT !.inFlight = o, !.aged = a]]
      PROVE  Goal
  <2> DEFINE x == [row[d] EXCEPT !.inFlight = o, !.aged = a]
  <2>1. \A f \in {"status", "seed", "approved"} : x[f] = row[d][f]
    BY <1>0 DEF Row
  <2>2. row' = [row EXCEPT ![d] = x]
    BY <1>2
  <2> HIDE DEF x
  <2> QED
    BY <1>2, <2>1, <2>2, UnseenRow
<1> HIDE DEF Goal
<1>3. ASSUME NEW r \in Requests, StartStep(r) PROVE Goal
  <2>1. ASSUME NEW d \in Debates, InsertDebate(r, d) PROVE Goal
    BY <2>1, DocOpen DEF Goal
  <2> QED
    BY <1>1, <1>3, <2>1 DEF StartStep, StartDebate, InsertConflicts, FindActive, ReplyExhausted
<1>4. ASSUME NEW r \in Requests, RoundStep(r) PROVE Goal
  <2>1. ASSUME NEW t \in Texts, InsertRound(r, t) PROVE Goal
    BY <2>1, DocSuggest DEF Goal
  <2>2. ASSUME ClearInFlight(r) PROVE Goal
    <3>1. req[r].debate \in Debates
      BY <2>2 DEF ClearInFlight, At, RoundSteps, Typed, RequestTyped
    <3> QED
      BY <1>2, <2>2, <3>1 DEF ClearInFlight, ClearReservation
  <2> QED
    BY <1>1, <1>4, <2>1, <2>2 DEF RoundStep, RefineReturns, RefineFails, InsertFails
<1>5. ASSUME NEW r \in Requests, EditStep(r) PROVE Goal
  <2>1. ASSUME NEW t \in Texts, UpdateDebateSeed(r, t) PROVE Goal
    BY <2>1, DocSeed DEF Goal
  <2>2. ASSUME UpdateTicket(r) PROVE Goal
    <3>1. Stage' = Stage /\ Trail' = Trail /\ Published' = Published
      BY <2>2 DEF UpdateTicket, Stage, Trail, Published
    <3>2. description' \in Texts
      BY <2>2 DEF UpdateTicket, At, Typed, TypeOK, RequestTyped
    <3>3. Doc!Edit(description')
      BY <3>1 DEF Doc!Edit
    <3> QED
      BY <3>2, <3>3 DEF Goal, Doc!Next
  <2> QED
    BY <1>1, <1>5, <2>1, <2>2 DEF EditStep, EditSeed, SeedRefused, EditTicket, StartUpdate
<1>6. ASSUME NEW d \in Debates, Decide(d) PROVE Goal
  <2>1. description \in Texts
    BY DEF Typed, TypeOK
  <2>2. ASSUME NEW i \in DOMAIN rounds[d], NEW t \in Texts,
               AcceptRound(d, i, t) \/ RejectRound(d, i)
        PROVE  Goal
    BY <2>2, DocAccept DEF Goal
  <2>3. ASSUME NEW i \in DOMAIN rounds[d], UndoRounds(d, i) PROVE Goal
    BY <2>3, DocUndo DEF Goal
  <2>4. CASE ApproveDebate(d)
    BY <2>4, DocPublish DEF Goal
  <2>5. CASE AbandonDebate(d)
    BY <2>5, DocAbandon DEF Goal
  <2> QED
    BY <1>6, <2>1, <2>2, <2>3, <2>4, <2>5 DEF Decide
<1>7. ASSUME NEW r \in Requests, NEW d \in Debates, Reserve(r, d) PROVE Goal
  BY <1>2, <1>7 DEF Reserve
<1>8. ASSUME NEW d \in Debates, ReservationAges(d) PROVE Goal
  <2> DEFINE x == [row[d] EXCEPT !.aged = TRUE]
  <2>1. \A f \in {"status", "seed", "approved"} : x[f] = row[d][f]
    BY <1>0 DEF Row
  <2>2. row' = [row EXCEPT ![d] = x] /\ UNCHANGED <<description, rounds, seedRaced>>
    BY <1>8 DEF ReservationAges
  <2> HIDE DEF x
  <2> QED
    BY <2>1, <2>2, UnseenRow DEF Goal
<1>9. ASSUME NEW r \in Requests, Crash(r) PROVE Goal
  BY <1>1, <1>9 DEF Crash
<1>10. ASSUME UNCHANGED vars PROVE Goal
  <2>1. UNCHANGED <<description, row, rounds, seedRaced>>
    BY <1>10 DEF vars
  <2> QED
    BY <1>1, <2>1
<1>11. Next \/ UNCHANGED vars
  OBVIOUS
<1>12. ASSUME Next PROVE Goal
  BY <1>3, <1>4, <1>5, <1>6, <1>7, <1>8, <1>9, <1>12 DEF Next
<1> QED
  BY <1>10, <1>11, <1>12 DEF Goal

\* All the racing handlers of debate mode together do what DebateDoc says of
\* the ticket's text and its debates, and nothing else.
THEOREM DebatesImplementDoc == Spec => ImplementsDoc
<1>1. Init => Doc!Init /\ UnracedIds /\ InReviewIsLast /\ TextChain
  <2> SUFFICES ASSUME Init PROVE Doc!Init /\ UnracedIds /\ InReviewIsLast /\ TextChain
    OBVIOUS
  <2>1. \A d \in Debates : row[d] = NoRow /\ rounds[d] = << >> /\ ~seedRaced[d]
    BY DEF Init
  <2>2. NoRow.status = "none"
    BY DEF NoRow
  <2>3. Doc!Init
    BY <2>1, <2>2 DEF Init, Doc!Init, Stage, Trail, Published
  <2>4. InReviewIsLast /\ TextChain
    BY <2>1, ChainEmpty DEF InReviewIsLast, InReview, TextChain, NoRow
  <2> QED
    BY <2>1, <2>3, <2>4 DEF UnracedIds
<1>2. Typed /\ InReviewIsLast /\ TextChain /\ UnracedIds /\ [Next]_vars
        => [Doc!Next]_Doc!docVars
  BY DocNext DEF Doc!docVars
<1>3. Spec => []Typed
  BY TypedInit, TypedNext, PTL DEF Spec
<1>4. Spec => [](InReviewIsLast /\ TextChain /\ UnracedIds)
  BY <1>1, <1>3, InReviewNext, TextChainNext, UnracedNext, PTL DEF Spec
<1> QED
  BY <1>1, <1>2, <1>3, <1>4, PTL DEF Spec, ImplementsDoc, Doc!Spec
=============================================================================
