------------------------------ MODULE DebateDoc ------------------------------
(***************************************************************************)
(* What the debates of a ticket promise its readers, with no word of who   *)
(* calls the AI, what it answers and how long that takes.  One debate is   *)
(* open at a time.  It stands at a text; each round leaves the text as it  *)
(* is until somebody accepts it; undo goes back to where the debate stood  *)
(* before some round; approval puts the text it stands at on the ticket;   *)
(* and what is closed never changes again.  DebateRounds implements it.    *)
(***************************************************************************)
EXTENDS Integers, Sequences

CONSTANTS Debates, Texts, None

VARIABLES
  description,  \* the ticket's text
  stage,        \* of a debate
  trail,        \* the texts it stood at before each of its rounds, and stands
                \* at now; empty once nothing is promised about them
  published     \* what it put on the ticket

docVars == <<description, stage, trail, published>>

\* Where the debate stands.
Standing(d) == trail[d][Len(trail[d])]

IsOpen(d) == stage[d] = "active"

Init ==
  /\ description \in Texts
  /\ stage = [d \in Debates |-> "none"]
  /\ trail = [d \in Debates |-> << >>]
  /\ published = [d \in Debates |-> None]

\* A debate starts from a text the ticket has, or had when it was read.
Open(d, text) ==
  /\ stage[d] = "none"
  /\ \A c \in Debates : ~IsOpen(c)
  /\ stage' = [stage EXCEPT ![d] = "active"]
  /\ trail' = [trail EXCEPT ![d] = <<text>>]
  /\ UNCHANGED <<description, published>>

Reseed(d, text) ==
  /\ IsOpen(d)
  /\ Len(trail[d]) = 1
  /\ trail' = [trail EXCEPT ![d] = <<text>>]
  /\ UNCHANGED <<description, stage, published>>

\* A suggestion changes nothing,
Suggest(d) ==
  /\ IsOpen(d)
  /\ trail[d] # << >>
  /\ trail' = [trail EXCEPT ![d] = Append(@, Standing(d))]
  /\ UNCHANGED <<description, stage, published>>

\* until it is accepted, as it is or edited.
Accept(d, text) ==
  /\ IsOpen(d)
  /\ Len(trail[d]) > 1
  /\ Standing(d) = trail[d][Len(trail[d]) - 1]
  /\ trail' = [trail EXCEPT ![d] = [@ EXCEPT ![Len(trail[d])] = text]]
  /\ UNCHANGED <<description, stage, published>>

\* Back to where the debate stood before its nth round.
Undo(d, n) ==
  /\ IsOpen(d)
  /\ trail' = [trail EXCEPT ![d] = SubSeq(@, 1, n)]
  /\ UNCHANGED <<description, stage, published>>

\* The seed is written over under a round: the trail is given up.
Overwrite(d) ==
  /\ IsOpen(d)
  /\ trail' = [trail EXCEPT ![d] = << >>]
  /\ UNCHANGED <<description, stage, published>>

Publish(d, text) ==
  /\ IsOpen(d)
  /\ trail[d] # << >> => text = Standing(d)
  /\ stage' = [stage EXCEPT ![d] = "approved"]
  /\ published' = [published EXCEPT ![d] = text]
  /\ description' = text
  /\ UNCHANGED trail

Abandon(d) ==
  /\ IsOpen(d)
  /\ stage' = [stage EXCEPT ![d] = "abandoned"]
  /\ UNCHANGED <<description, trail, published>>

\* The ticket is edited.
Edit(text) ==
  /\ description' = text
  /\ UNCHANGED <<stage, trail, published>>

Next ==
  \/ \E text \in Texts : Edit(text)
  \/ \E d \in Debates, text \in Texts :
       Open(d, text) \/ Reseed(d, text) \/ Accept(d, text) \/ Publish(d, text)
  \/ \E d \in Debates : Suggest(d) \/ Overwrite(d) \/ Abandon(d)
  \/ \E d \in Debates : \E n \in 1..(Len(trail[d]) - 1) : Undo(d, n)

Spec == Init /\ [][Next]_docVars

=============================================================================
