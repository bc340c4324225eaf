---------------------------- MODULE HashGateProofs ----------------------------
(***************************************************************************)
(* Proofs about HashGate, for any number of requests, slots and codes: the *)
(* channel counts the computations, and the gate implements the safety     *)
(* part of Admission.  Fairness is left to TLC.                            *)
(***************************************************************************)
EXTENDS HashGate, FiniteSetTheorems, TLAPS

\* What the answers and the next stages of a request look like.
LEMMA RequestTypes ==
  ASSUME NEW q \in Request
  PROVE  /\ Idle \in Request
         /\ Shed(q) \in Answers
         /\ \A a \in Answers : Answered(q, a) \in Request /\ Answered(q, a).at = "idle"
         /\ \A s \in Stages : [q EXCEPT !.at = s] \in Request
         /\ [q EXCEPT !.gone = TRUE] \in Request
         /\ Outcomes(q) \subseteq {p \in Request : p.at # "hashing"}
<1> USE GateAssumption DEF Request, Kinds, Stages, Answers
<1>1. Idle \in Request
  BY DEF Idle
<1>2. Shed(q) \in Answers
  BY DEF Shed
<1>3. \A a \in Answers : Answered(q, a) \in Request /\ Answered(q, a).at = "idle"
  <2> SUFFICES ASSUME NEW a \in Answers
               PROVE  Answered(q, a) \in Request /\ Answered(q, a).at = "idle"
    OBVIOUS
  <2>1. CASE a = "wrong"
    <3>1. Answered(q, a) = [at |-> "idle", kind |-> q.kind, left |-> 0, right |-> q.right,
                            gone |-> FALSE, answer |-> a]
      BY <2>1 DEF Answered, Idle
    <3> QED
      BY <3>1
  <2>2. CASE a # "wrong"
    <3>1. Answered(q, a) = [at |-> "idle", kind |-> "login", left |-> 0, right |-> FALSE,
                            gone |-> FALSE, answer |-> a]
      BY <2>2 DEF Answered, Idle
    <3> QED
      BY <3>1
  <2> QED
    BY <2>1, <2>2
<1>4. \A s \in Stages : [q EXCEPT !.at = s] \in Request
  OBVIOUS
<1>5. [q EXCEPT !.gone = TRUE] \in Request
  OBVIOUS
<1>6. ASSUME q.left > 1
      PROVE  /\ [q EXCEPT !.at = "asking", !.left = @ - 1] \in Request
             /\ [q EXCEPT !.at = "asking", !.left = @ - 1].at = "asking"
  <2>1. PICK n \in 0..(Codes + 1) : n = q.left - 1
    BY <1>6
  <2>2. [q EXCEPT !.left = n] \in Request
    OBVIOUS
  <2>3. [q EXCEPT !.at = "asking", !.left = n] \in Request
    BY <2>2
  <2> QED
    BY <2>1, <2>3
<1>7. Outcomes(q) \subseteq {p \in Request : p.at # "hashing"}
  <2> DEFINE again == [q EXCEPT !.at = "asking", !.left = @ - 1]
             Good == {p \in Request : p.at # "hashing"}
  <2>1. q.left > 1 => again \in Good
    BY <1>6
  <2>2. \A a \in Answers : Answered(q, a) \in Good
    BY <1>3
  <2>3. q.kind \in Kinds /\ (q.left = 2 => q.left > 1)
    OBVIOUS
  <2>4. Outcomes(q) =
          CASE q.kind = "login" -> {Answered(q, IF q.right THEN "ok" ELSE "wrong")}
            [] q.kind = "recovery" ->
                  (IF q.right THEN {Answered(q, "ok")} ELSE {})
                  \cup (IF q.left > 1 THEN {again} ELSE IF q.right THEN {} ELSE {Answered(q, "wrong")})
            [] q.kind = "change" /\ q.left = 2 -> {IF q.right THEN again ELSE Answered(q, "wrong")}
            [] OTHER -> {IF q.left > 1 THEN again ELSE Answered(q, "ok")}
    BY DEF Outcomes
  <2> HIDE DEF again, Good, Request, Stages
  <2>5. Outcomes(q) \subseteq Good
    BY <2>1, <2>2, <2>3, <2>4
  <2> QED
    BY <2>5 DEF Good
<1> QED
  BY <1>1, <1>2, <1>3, <1>4, <1>5, <1>7

\* A request that starts or stops computing changes the set by itself.
LEMMA ComputingStep ==
  ASSUME TypeOK, NEW r \in Requests, NEW q \in Request, Step(r, q)
  PROVE  /\ req' \in [Requests -> Request]
         /\ Computing' = IF q.at = "hashing" THEN Computing \cup {r} ELSE Computing \ {r}
<1>1. \A s \in Requests : req'[s] = IF s = r THEN q ELSE req[s]
  BY DEF Step, TypeOK
<1>2. req' \in [Requests -> Request]
  BY DEF Step, TypeOK
<1> QED
  BY <1>1, <1>2 DEF Computing

LEMMA ComputingFinite ==
  /\ IsFiniteSet(Computing) /\ Cardinality(Computing) \in Nat
  /\ \A r : Cardinality(Computing \cup {r}) =
               IF r \in Computing THEN Cardinality(Computing) ELSE Cardinality(Computing) + 1
  /\ \A r : Cardinality(Computing \ {r}) =
               IF r \in Computing THEN Cardinality(Computing) - 1 ELSE Cardinality(Computing)
<1>1. IsFiniteSet(Computing)
  BY GateAssumption, FS_Subset DEF Computing
<1> QED
  BY <1>1, FS_CardinalityType, FS_AddElement, FS_RemoveElement

\* One step of the gate as its state and its computations see it: the request
\* asks and answers outside, takes a slot, or gives one back.
LEMMA GateStep ==
  ASSUME TypeOK, [Next]_vars
  PROVE  /\ req' \in [Requests -> Request]
         /\ \/ taken' = taken /\ Computing' = Computing
            \/ \E r \in Requests :
                  /\ r \notin Computing /\ taken < Slots
                  /\ taken' = taken + 1 /\ Computing' = Computing \cup {r}
            \/ \E r \in Requests :
                  /\ r \in Computing
                  /\ taken' = taken - 1 /\ Computing' = Computing \ {r}
<1> DEFINE Goal == /\ req' \in [Requests -> Request]
                   /\ \/ taken' = taken /\ Computing' = Computing
                      \/ \E r \in Requests :
                            /\ r \notin Computing /\ taken < Slots
                            /\ taken' = taken + 1 /\ Computing' = Computing \cup {r}
                      \/ \E r \in Requests :
                            /\ r \in Computing
                            /\ taken' = taken - 1 /\ Computing' = Computing \ {r}
<1> SUFFICES Goal
  OBVIOUS
<1>t. \A r \in Requests : req[r] \in Request
  BY DEF TypeOK
<1>1. ASSUME NEW r \in Requests, NEW q \in Request, Step(r, q), taken' = taken,
             q.at = "hashing" <=> req[r].at = "hashing"
      PROVE  Goal
  BY <1>1, ComputingStep DEF Computing
<1>2. ASSUME NEW r \in Requests, Arrive(r) PROVE Goal
  <2>1. PICK k \in Kinds, right \in BOOLEAN :
          Step(r, [Idle EXCEPT !.at = "asking", !.kind = k, !.left = Hashes[k], !.right = right])
    BY <1>2 DEF Arrive
  <2>2. Hashes[k] \in 0..(Codes + 1)
    BY GateAssumption DEF Hashes, Kinds
  <2>3. [Idle EXCEPT !.at = "asking", !.kind = k, !.left = Hashes[k], !.right = right] \in Request
    BY <2>2 DEF Idle, Request, Stages, Answers
  <2> QED
    BY <1>1, <1>2, <2>1, <2>3 DEF Arrive, Idle
<1>3. ASSUME NEW r \in Requests, ClientLeaves(r) PROVE Goal
  <2>1. [req[r] EXCEPT !.gone = TRUE] \in Request
    BY <1>t, RequestTypes
  <2> QED
    BY <1>1, <1>3, <1>t, <2>1 DEF ClientLeaves, Request
<1>4. ASSUME NEW r \in Requests, Ask(r) \/ GiveUp(r) PROVE Goal
  <2>1. PICK q \in Request : Step(r, q) /\ q.at \in {"idle", "waiting"}
    <3>1. /\ Answered(req[r], Shed(req[r])) \in Request
          /\ Answered(req[r], Shed(req[r])).at = "idle"
      BY <1>t, RequestTypes
    <3>2. /\ [req[r] EXCEPT !.at = "waiting"] \in Request
          /\ [req[r] EXCEPT !.at = "waiting"].at = "waiting"
      BY <1>t, RequestTypes DEF Stages, Request
    <3> QED
      BY <1>4, <3>1, <3>2 DEF Ask, GiveUp
  <2> QED
    BY <1>1, <1>4, <2>1 DEF Ask, GiveUp
<1>5. ASSUME NEW r \in Requests, Acquire(r) PROVE Goal
  <2>1. /\ [req[r] EXCEPT !.at = "hashing"] \in Request
        /\ [req[r] EXCEPT !.at = "hashing"].at = "hashing"
    BY <1>t, RequestTypes DEF Stages, Request
  <2> QED
    BY <1>5, <2>1, ComputingStep DEF Acquire, HasRoom, Computing
<1>6. ASSUME NEW r \in Requests, Compute(r) PROVE Goal
  <2>1. PICK q \in Outcomes(req[r]) : Step(r, q)
    BY <1>6 DEF Compute
  <2>2. q \in Request /\ q.at # "hashing"
    BY <1>t, <2>1, RequestTypes
  <2> QED
    BY <1>6, <2>1, <2>2, ComputingStep DEF Compute, Released, Computing
<1>7. CASE UNCHANGED vars
  BY <1>7 DEF vars, TypeOK, Computing
<1> QED
  BY <1>2, <1>3, <1>4, <1>5, <1>6, <1>7 DEF Next

\* The channel holds one item for each computation under way, however requests
\* come, leave, give up and are answered.
THEOREM TypeCorrect == Spec => []TypeOK
<1>1. Init => TypeOK
  <2> SUFFICES ASSUME Init PROVE TypeOK
    OBVIOUS
  <2>1. Computing = {}
    BY DEF Init, Computing, Idle
  <2>2. Idle \in Request
    BY GateAssumption DEF Idle, Request, Kinds, Stages, Answers
  <2> QED
    BY <2>1, <2>2, FS_EmptySet DEF Init, TypeOK
<1>2. TypeOK /\ [Next]_vars => TypeOK'
  <2> SUFFICES ASSUME TypeOK, [Next]_vars PROVE TypeOK'
    OBVIOUS
  <2> QED
    BY GateStep, ComputingFinite DEF TypeOK
<1> QED
  BY <1>1, <1>2, PTL DEF Spec

\* The gate implements the safety part of Admission: at most Slots computations
\* run at once, and each enters and leaves by turns.  (that whoever entered
\* leaves is checked by TLC)
THEOREM GateImplementsAdmission == Spec => Gate!Init /\ [][Gate!Next]_Computing
<1>1. Init => Gate!Init
  BY DEF Init, Gate!Init, Computing, Idle
<1>2. TypeOK /\ [Next]_vars => [Gate!Next]_Computing
  <2> SUFFICES ASSUME TypeOK, [Next]_vars PROVE Gate!Next \/ Computing' = Computing
    OBVIOUS
  <2>1. ASSUME NEW r \in Requests, r \notin Computing, taken < Slots, Computing' = Computing \cup {r}
        PROVE  Gate!Next
    BY <2>1 DEF Gate!Next, Gate!Enter, Gate!Cardinality, Gate!IsFiniteSet, Cardinality, IsFiniteSet, TypeOK
  <2>2. ASSUME NEW r \in Requests, r \in Computing, Computing' = Computing \ {r}
        PROVE  Gate!Next
    BY <2>2 DEF Gate!Next, Gate!Leave
  <2> QED
    BY <2>1, <2>2, GateStep
<1> QED
  BY <1>1, <1>2, TypeCorrect, PTL DEF Spec

\* The memory bound itself: never more than Slots computations at once.
THEOREM SlotsBound == Spec => [](Cardinality(Computing) <= Slots)
<1> DEFINE Bound == Cardinality(Computing) <= Slots
<1>1. Init => Bound
  <2> SUFFICES ASSUME Init PROVE Bound
    OBVIOUS
  <2>1. Computing = {}
    BY DEF Init, Computing, Idle
  <2> QED
    BY <2>1, FS_EmptySet, GateAssumption
<1>2. TypeOK /\ Bound /\ [Next]_vars => Bound'
  <2> SUFFICES ASSUME TypeOK, Bound, [Next]_vars PROVE Bound'
    OBVIOUS
  <2> QED
    BY GateStep, ComputingFinite, GateAssumption DEF TypeOK
<1>3. Spec => []Bound
  BY <1>1, <1>2, TypeCorrect, PTL DEF Spec
<1> QED
  BY <1>3

\* Nobody who signs in or uses a recovery code is told that a good password or
\* code is wrong, however busy the gate is.
THEOREM BusyIsNotWrong == Spec => []NoFalseRejection
<1> DEFINE Fair(q) == (q.answer = "wrong" /\ q.kind \in {"login", "recovery"}) => ~q.right
<1>1. Init => NoFalseRejection
  BY DEF Init, NoFalseRejection, Idle
<1>2. ASSUME NEW r \in Requests, NEW q, Fair(q), Step(r, q), TypeOK, NoFalseRejection
      PROVE  NoFalseRejection'
  BY <1>2 DEF Step, NoFalseRejection, TypeOK
<1>3. ASSUME NEW q \in Request, Fair(q)
      PROVE  /\ Fair([q EXCEPT !.gone = TRUE])
             /\ \A s : Fair([q EXCEPT !.at = s])
             /\ Fair(Answered(q, Shed(q)))
             /\ \A p \in Outcomes(q) : Fair(p)
  <2>1. Fair([q EXCEPT !.gone = TRUE]) /\ \A s : Fair([q EXCEPT !.at = s])
    BY <1>3 DEF Request
  <2>2. Fair(Answered(q, Shed(q)))
    BY DEF Answered, Shed, Idle, Request
  <2>3. Fair([q EXCEPT !.at = "asking", !.left = @ - 1])
    BY <1>3 DEF Request
  <2>4. Fair(Answered(q, "ok")) /\ (~q.right => Fair(Answered(q, "wrong")))
    BY DEF Answered, Idle, Request
  <2>5. q.kind \notin {"login", "recovery"} => Fair(Answered(q, "wrong"))
    BY DEF Answered, Idle, Request
  <2>6. \A p \in Outcomes(q) : Fair(p)
    <3> HIDE DEF Fair
    <3>1. q.kind \in Kinds
      BY DEF Request
    <3> QED
      BY <2>3, <2>4, <2>5, <3>1 DEF Outcomes, Kinds
  <2> QED
    BY <2>1, <2>2, <2>6
<1>4. TypeOK /\ NoFalseRejection /\ [Next]_vars => NoFalseRejection'
  <2> SUFFICES ASSUME TypeOK, NoFalseRejection, [Next]_vars PROVE NoFalseRejection'
    OBVIOUS
  <2>1. \A r \in Requests : req[r] \in Request /\ Fair(req[r])
    BY DEF TypeOK, NoFalseRejection
  <2>2. ASSUME NEW r \in Requests, Arrive(r) PROVE NoFalseRejection'
    <3>1. \A k, n, right : Fair([Idle EXCEPT !.at = "asking", !.kind = k, !.left = n, !.right = right])
      BY DEF Idle
    <3> QED
      BY <1>2, <2>2, <3>1 DEF Arrive
  <2>3. ASSUME NEW r \in Requests, ClientLeaves(r) \/ Ask(r) \/ Acquire(r) \/ GiveUp(r) \/ Compute(r)
        PROVE  NoFalseRejection'
    <3>1. PICK q : Step(r, q) /\ Fair(q)
      <4> HIDE DEF Fair
      <4> QED
        BY <1>3, <2>1, <2>3 DEF ClientLeaves, Ask, Acquire, GiveUp, Compute
    <3> QED
      BY <1>2, <3>1
  <2>4. CASE UNCHANGED vars
    BY <2>4 DEF vars, NoFalseRejection
  <2> QED
    BY <2>2, <2>3, <2>4 DEF Next
<1> QED
  BY <1>1, <1>4, TypeCorrect, PTL DEF Spec
=============================================================================
