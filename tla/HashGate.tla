-------------------------------- MODULE HashGate --------------------------------
(***************************************************************************)
(* The gate of src/internal/auth/hashgate.go around every Argon2id         *)
(* computation of one server process, and the requests that go through it: *)
(* signing in, using a recovery code, finishing the two-factor set-up,     *)
(* changing the password.  The requests are of different users.            *)
(*                                                                         *)
(* A slot is an item in a buffered channel.  A request that finds none     *)
(* free waits; its own bound of two seconds runs whatever its client does. *)
(***************************************************************************)
EXTENDS Naturals, FiniteSets

CONSTANTS
    Requests,  \* handler goroutines; one that has answered takes a new request
    Slots,     \* capacity of the channel: HASH_CONCURRENCY, 2 by default
    Codes      \* unused recovery codes of a user: 10 at first

ASSUME GateAssumption ==
    /\ IsFiniteSet(Requests) /\ Slots \in Nat \ {0} /\ Codes \in Nat \ {0}

VARIABLES
    taken,  \* items in the channel
    req     \* what each request is, where it stands, what it was answered

vars == <<taken, req>>

Kinds == {"login", "recovery", "setup", "change"}

(* Argon2id computations a request of a kind may need, one after another.  *)
Hashes == [login |-> 1, recovery |-> Codes, setup |-> Codes, change |-> 2]

Stages == {"idle", "asking", "waiting", "hashing"}
Answers == {"none", "ok", "wrong", "busy", "failed"}

(* right: the password or code sent is a good one.  An idle request keeps  *)
(* what was answered last and, when refused, what it had asked.            *)
Request == [at : Stages, kind : Kinds, left : 0..(Codes + 1), right : BOOLEAN,
            gone : BOOLEAN, answer : Answers]

Idle == [at |-> "idle", kind |-> "login", left |-> 0, right |-> FALSE,
         gone |-> FALSE, answer |-> "none"]

Init == taken = 0 /\ req = [r \in Requests |-> Idle]

Step(r, q) == req' = [req EXCEPT ![r] = q]
Answered(q, a) ==
    IF a = "wrong" THEN [Idle EXCEPT !.kind = q.kind, !.right = q.right, !.answer = a]
                   ELSE [Idle EXCEPT !.answer = a]

-----------------------------------------------------------------------------
(* Requests come, and their clients may leave.                             *)

Arrive(r) ==
    /\ req[r].at = "idle"
    /\ \E k \in Kinds, right \in BOOLEAN :
          /\ k = "setup" => right
          /\ Step(r, [Idle EXCEPT !.at = "asking", !.kind = k, !.left = Hashes[k], !.right = right])
    /\ UNCHANGED taken

ClientLeaves(r) ==
    /\ req[r].at \in {"asking", "waiting", "hashing"} /\ ~req[r].gone
    /\ Step(r, [req[r] EXCEPT !.gone = TRUE])
    /\ UNCHANGED taken

-----------------------------------------------------------------------------
(* acquireHashSlot.                                                        *)

(* Mutant: a busy gate counts as a code that does not match.               *)
ShedAsWrong(q) ==
    CASE q.kind = "login" -> "busy"
      [] q.kind = "recovery" -> "wrong"
      [] q.kind = "change" /\ q.left = 2 -> "wrong"
      [] OTHER -> "failed"
(* What ErrHashingBusy becomes: signing in and recovery codes shed; a      *)
(* change of password takes it for a password that does not match, and a   *)
(* failure while the new one, or a set of recovery codes, is hashed.       *)
Shed(q) ==
    CASE q.kind \in {"login", "recovery"} -> "busy"
      [] q.kind = "change" /\ q.left = 2 -> "wrong"
      [] OTHER -> "failed"

(* The caller's context is looked at first ...                             *)
Ask(r) ==
    /\ req[r].at = "asking"
    /\ Step(r, IF req[r].gone THEN Answered(req[r], Shed(req[r])) ELSE [req[r] EXCEPT !.at = "waiting"])
    /\ UNCHANGED taken

(* Mutant: the channel has one place more than slots.                      *)
HasRoomOver(n) == n <= Slots
(* A send to the buffered channel succeeds.                                *)
HasRoom(n) == n < Slots

(* ... then the first of a free slot and the end of the wait, by chance    *)
(* when both have come.                                                    *)
Acquire(r) ==
    /\ req[r].at = "waiting" /\ HasRoom(taken)
    /\ taken' = taken + 1
    /\ Step(r, [req[r] EXCEPT !.at = "hashing"])

(* Mutant: only the caller's context ends the wait.                        *)
WaitIsOverNoBound(r) == req[r].gone
(* Two seconds have passed or the client has left.                         *)
WaitIsOver(r) == TRUE

GiveUp(r) ==
    /\ req[r].at = "waiting" /\ WaitIsOver(r)
    /\ Step(r, Answered(req[r], Shed(req[r])))
    /\ UNCHANGED taken

-----------------------------------------------------------------------------
(* One computation, and what the request does with it.                     *)

(* After a computation: q.left counts it.  A recovery code is compared     *)
(* with the unused ones until one matches.                                 *)
Outcomes(q) ==
    LET again == [q EXCEPT !.at = "asking", !.left = @ - 1] IN
    CASE q.kind = "login" -> {Answered(q, IF q.right THEN "ok" ELSE "wrong")}
      [] q.kind = "recovery" ->
            (IF q.right THEN {Answered(q, "ok")} ELSE {})
            \cup (IF q.left > 1 THEN {again} ELSE IF q.right THEN {} ELSE {Answered(q, "wrong")})
      [] q.kind = "change" /\ q.left = 2 -> {IF q.right THEN again ELSE Answered(q, "wrong")}
      [] OTHER -> {IF q.left > 1 THEN again ELSE Answered(q, "ok")}

(* The deferred release.                                                   *)
Released(n) == n - 1

Compute(r) ==
    /\ req[r].at = "hashing"
    /\ taken' = Released(taken)
    /\ \E q \in Outcomes(req[r]) : Step(r, q)

Next == \E r \in Requests :
    Arrive(r) \/ ClientLeaves(r) \/ Ask(r) \/ Acquire(r) \/ GiveUp(r) \/ Compute(r)

(* Goroutines run, a computation ends, the two seconds pass.               *)
Fairness == \A r \in Requests : WF_vars(Ask(r) \/ GiveUp(r) \/ Compute(r))

Spec == Init /\ [][Next]_vars /\ Fairness

-----------------------------------------------------------------------------
Computing == {r \in Requests : req[r].at = "hashing"}

Gate == INSTANCE Admission WITH Callers <- Requests, inside <- Computing

(* The memory bound: the gate lets at most Slots computations run at once, *)
(* each holds a slot it gives back once, and none keeps it for ever --     *)
(* whatever clients leave and requests give up.                            *)
GateBounds == Gate!Spec

(* The type invariant; the channel holds one item per computation.         *)
TypeOK ==
    /\ req \in [Requests -> Request]
    /\ taken = Cardinality(Computing)

(* A busy server says it is busy: nobody who signs in or uses a recovery   *)
(* code is told that a good password or code is wrong.  (recovery codes    *)
(* are single-use; a user told so might throw several away)                *)
NoFalseRejection ==
    \A r \in Requests :
        (req[r].answer = "wrong" /\ req[r].kind \in {"login", "recovery"}) => ~req[r].right

(* Nobody waits for ever: every request is answered, also one whose client *)
(* stays and who never gets a slot because others are always faster.       *)
EveryoneAnswered == \A r \in Requests : []<>(req[r].at = "idle")
=============================================================================
