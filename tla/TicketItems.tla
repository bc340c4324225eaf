----------------------------- MODULE TicketItems -----------------------------
(***************************************************************************)
(* What hangs on the tickets of TicketTree: attachments, whose rows are in *)
(* the database and whose bytes are in an object store                     *)
(* (src/internal/handlers/files.go), and reactions                         *)
(* (src/internal/handlers/reactions.go).  The two stores share no          *)
(* transaction; deleting a ticket cascades to the rows and not to the      *)
(* objects.                                                                *)
(***************************************************************************)
EXTENDS TicketTree

CONSTANTS
    Files      \* object keys; each upload takes a new one

VARIABLES
    objects,   \* keys the object store holds
    att,       \* ticket each key is recorded for in ticket_attachments
    used,      \* keys handed out
    stray,     \* ghost: keys whose object may be left behind without a row
    hollow,    \* ghost: keys whose row may be left behind without its object
    reacted,   \* tickets one user's emoji stands on
    toggles    \* ghost: toggles of it reported as done, modulo two

itemVars == <<objects, att, used, stray, hollow, reacted, toggles>>
vars == <<treeVars, itemVars>>

InitItems ==
    /\ Init
    /\ objects = {} /\ used = {} /\ stray = {} /\ hollow = {}
    /\ att = [f \in Files |-> None]
    /\ reacted = {}
    /\ toggles = [t \in Tickets |-> 0]

Goto(r, q) == req' = [req EXCEPT ![r] = q]
Tree == UNCHANGED <<row, short, loose>>

-----------------------------------------------------------------------------
(* Attachments.                                                            *)

(* The object is stored under its key.                                     *)
Upload(r, t, f) ==
    /\ objects' = objects \cup {f}
    /\ Goto(r, [pc |-> "record", t |-> t, f |-> f])
    /\ UNCHANGED att

UploadFile(r, t, f) ==
    /\ Start(r) /\ Live(t) /\ f \notin used
    /\ used' = used \cup {f}
    /\ \/ Upload(r, t, f)
       \/ UNCHANGED <<objects, att, req>>       \* the store refused it
    /\ Tree /\ UNCHANGED <<stray, hollow, reacted, toggles>>

(* CreateAttachment: the foreign key refuses a ticket deleted meanwhile.   *)
RecordAttachment(r) ==
    LET f == req[r].f  t == req[r].t
    IN  /\ req[r].pc = "record"
        /\ IF Live(t) THEN att' = [att EXCEPT ![f] = t] /\ UNCHANGED stray
                      ELSE stray' = stray \cup {f} /\ UNCHANGED att
        /\ UNCHANGED hollow
        /\ Finish(r)
        /\ Tree /\ UNCHANGED <<ops, objects, used, reacted, toggles>>

DeleteAttachment(r, f) ==
    /\ Start(r) /\ att[f] # None
    /\ Goto(r, [pc |-> "object", f |-> f])
    /\ Tree /\ UNCHANGED itemVars

(* The object goes first; a key the store does not hold is no error.       *)
DeleteObject(r, f) ==
    /\ objects' = objects \ {f} /\ Goto(r, [pc |-> "row", f |-> f])
    /\ UNCHANGED att

RemoveObject(r) ==
    /\ req[r].pc = "object"
    /\ DeleteObject(r, req[r].f)
    /\ Tree /\ UNCHANGED <<ops, used, stray, hollow, reacted, toggles>>

RemoveRow(r) ==
    /\ req[r].pc = "row"
    /\ att' = [att EXCEPT ![req[r].f] = None]
    /\ Finish(r)
    /\ Tree /\ UNCHANGED <<ops, objects, used, stray, hollow, reacted, toggles>>

(* Mutant: the row goes first, then the object.                            *)
EraseRowFirst(r) ==
    LET f == req[r].f
    IN  /\ \/ /\ req[r].pc = "object" /\ Goto(r, [pc |-> "row", f |-> f])
              /\ att' = [att EXCEPT ![f] = None] /\ UNCHANGED objects
           \/ /\ req[r].pc = "row" /\ Finish(r)
              /\ objects' = objects \ {f} /\ UNCHANGED att
        /\ Tree /\ UNCHANGED <<ops, used, stray, hollow, reacted, toggles>>
(* "Leaving an orphan row is better than an orphan object".                *)
Erase(r) == RemoveObject(r) \/ RemoveRow(r)

-----------------------------------------------------------------------------
(* Reactions.                                                              *)

(* DELETE first: a reaction found is removed, and the request is done.     *)
ToggleReaction(r, t) ==
    /\ Start(r) /\ Live(t)
    /\ IF t \in reacted
       THEN /\ reacted' = reacted \ {t}
            /\ toggles' = [toggles EXCEPT ![t] = 1 - @]
            /\ UNCHANGED req
       ELSE Goto(r, [pc |-> "react", t |-> t]) /\ UNCHANGED <<reacted, toggles>>
    /\ Tree /\ UNCHANGED <<objects, att, used, stray, hollow>>

(* Mutant: a reaction that is there already counts as added.               *)
AddedAnyway(t) == TRUE
(* INSERT under the unique index: of two added together one is refused.    *)
Added(t) == t \notin reacted

AddReaction(r) ==
    LET t == req[r].t
    IN  /\ req[r].pc = "react"
        /\ reacted' = reacted \cup {t}
        /\ toggles' = IF Added(t) THEN [toggles EXCEPT ![t] = 1 - @] ELSE toggles
        /\ Finish(r)
        /\ Tree /\ UNCHANGED <<ops, objects, att, used, stray, hollow>>

-----------------------------------------------------------------------------
(* Deleting a ticket takes the attachment rows of its subtree along.       *)
CascadedFiles(t) == {f \in Files : att[f] \in Subtree(t)}

Cascade(t) ==
    /\ DeleteTicket(t)
    /\ att' = [f \in Files |-> IF f \in CascadedFiles(t) THEN None ELSE att[f]]
    /\ stray' = stray \cup CascadedFiles(t)

DeleteTicketTx(r, t) ==
    /\ Start(r) /\ Live(t)
    /\ Cascade(t)
    /\ UNCHANGED <<req, short, loose, objects, used, hollow, reacted, toggles>>

DeleteTicketTool(r) ==
    /\ req[r].pc = "tool"
    /\ IF Live(req[r].t) THEN Cascade(req[r].t) ELSE UNCHANGED <<row, att, stray>>
    /\ Finish(r)
    /\ UNCHANGED <<ops, short, loose, objects, used, hollow, reacted, toggles>>

(* The request is cancelled, or its next statement fails.                  *)
AbortItem(r) ==
    /\ req[r].pc \in {"record", "object", "row", "react"}
    /\ Finish(r)
    /\ stray' = IF req[r].pc = "record" THEN stray \cup {req[r].f} ELSE stray
    /\ hollow' = IF req[r].pc = "row" THEN hollow \cup {req[r].f} ELSE hollow
    /\ Tree /\ UNCHANGED <<ops, objects, att, used, reacted, toggles>>

Next == \E r \in Requests :
    \/ TreeStep(r) /\ UNCHANGED itemVars
    \/ \E t \in Tickets : DeleteTicketTx(r, t) \/ ToggleReaction(r, t)
    \/ \E t \in Tickets, f \in Files : UploadFile(r, t, f)
    \/ \E f \in Files : DeleteAttachment(r, f)
    \/ RecordAttachment(r) \/ Erase(r) \/ AddReaction(r) \/ AbortItem(r)
    \/ DeleteTicketTool(r)

Spec == InitItems /\ [][Next]_vars

-----------------------------------------------------------------------------
(* The type invariant; rows refer to rows that exist.                      *)
TypeOK ==
    /\ row \in [Tickets -> [state : {"unborn", "live", "gone"}, parent : Maybe(Tickets), archived : BOOLEAN,
                            from : Maybe(Days), to : Maybe(Days)]]
    /\ \A t \in Tickets : Live(t) => row[t].parent = None \/ Live(row[t].parent)
    /\ \A r \in Requests : req[r].pc \in {"idle", "write", "visit", "expand", "record", "object", "row", "react", "tool"}
    /\ ops \in 0..MaxOps
    /\ objects \subseteq used /\ used \subseteq Files
    /\ att \in [Files -> Maybe(Tickets)]
    /\ \A f \in Files : att[f] # None => Live(att[f])

(* The two stores agree on what is attached, however uploads, deletions of *)
(* attachments and deletions of tickets interleave and fail.  An object    *)
(* without a row is one nobody can find to delete: only an upload cut off  *)
(* or whose ticket went meanwhile, and the deletion of a ticket, leave it, *)
(* never a deletion of the attachment, wherever that stops.  A row without *)
(* its object offers a download that fails: such a deletion, cut off       *)
(* between the two, leaves it for the next attempt.                        *)
StoresAgree ==
    \A f \in Files :
        /\ f \in objects /\ att[f] = None =>
              f \in stray \/ \E r \in Requests : req[r].pc = "record" /\ req[r].f = f
        /\ f \notin objects /\ att[f] # None =>
              f \in hollow \/ \E r \in Requests : req[r].pc = "row" /\ req[r].f = f

(* Two clicks on one emoji at the same time: the reaction stands exactly   *)
(* when an odd number of toggles were reported as done, although the       *)
(* toggle deletes and inserts in two statements.                           *)
ReactionParity == \A t \in Tickets : t \in reacted <=> toggles[t] = 1
=============================================================================
