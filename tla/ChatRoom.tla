------------------------------- MODULE ChatRoom -------------------------------
(***************************************************************************)
(* The shared chat of one project: connections and rooms                   *)
(* (src/internal/ws), the handlers of src/internal/handlers/assistant.go   *)
(* with the statements they run, and what a browser makes of the frames    *)
(* (src/static/js/app/assistant.js).                                       *)
(*                                                                         *)
(* Rooms and the AI lock live in the memory of one server replica; the     *)
(* conversation is in the database all replicas share.  A connection is    *)
(* served by its replica: its hub adds it to the room on its own time, its *)
(* reader runs one message at a time, its writer empties a bounded buffer. *)
(* Every message starts a goroutine of its own for the answer.             *)
(***************************************************************************)
EXTENDS Naturals, Sequences

CONSTANTS
    Clients,   \* connections; a browser that reconnects makes a new one
    Present,   \* those that are in the room already at the start
    Messages,  \* user messages that may be sent
    Replicas,  \* server processes
    Buffer,    \* frames a connection's send channel holds: 256
    MaxChunks, \* bound: pieces in which the text of an answer arrives
    None

(* A piece of an answer; as an entry, an answer in so many of its pieces,  *)
(* and the notice of an error.  Pieces know their place, and buffers keep  *)
(* them in order: a set of them says as much as the text.                  *)
Piece(m, i) == <<m, i>>
Said(text) == <<"answer", text>>
Failed(what) == <<"error", what>>

Pieces == {Piece(m, i) : m \in Messages, i \in 1..MaxChunks}
Answers == {Said(text) : text \in SUBSET Pieces}
Notices == {Failed(x) : x \in Messages \cup {None}}
Entries == Messages \cup Answers

ASSUME ChatAssumption ==
    /\ Present \subseteq Clients /\ Buffer \in Nat \ {0} /\ MaxChunks \in Nat \ {0}
    /\ None \notin Clients \cup Messages \cup Replicas
    /\ Messages \cap (Answers \cup Notices) = {}

VARIABLES
    conv,      \* conversations deleted so far: the number of the current one
    saved,     \* ai_messages of the current conversation
    client,    \* connections: stage, replica, room, frames queued, conversation to read, history read
    page,      \* what the browser of each shows: entries, and an answer being streamed
    task,      \* each message: stage, its sender's connection while that handles it, replica,
               \* conversation, history the model was given, pieces of the answer so far
    crossed,   \* ghost: messages still saved, broadcast while a connection was being set up
    partly,    \* ghost: answers that had begun when a connection came in, or was sent an error
    lossy      \* ghost: connections that had a frame dropped

vars == <<conv, saved, client, page, task, crossed, partly, lossy>>

(* The answer to m from its k-th piece on, and all of it.                  *)
Ending(m, k) == {Piece(m, i) : i \in k..task[m].chunks}
Answer(m) == Said(Ending(m, 1))

(* An empty page.                                                          *)
Blank == [shows |-> {}, text |-> {}]

(* Frames.                                                                 *)
Frame(kind, what) == [kind |-> kind, what |-> what]

Init ==
    /\ conv = 0 /\ saved = {}
    /\ \E home \in [Present -> Replicas] :
          client = [c \in Clients |->
                       [at |-> IF c \in Present THEN "on" ELSE "off", rep |-> IF c \in Present THEN home[c] ELSE None,
                        room |-> c \in Present, frames |-> << >>, conv |-> 0, history |-> {}]]
    /\ page = [c \in Clients |-> Blank]
    /\ task = [m \in Messages |-> [at |-> "unsent", by |-> None, rep |-> None, conv |-> 0, knows |-> {}, chunks |-> 0]]
    /\ crossed = [c \in Clients |-> {}] /\ partly = [c \in Clients |-> {}] /\ lossy = {}

-----------------------------------------------------------------------------
(* The hub of a replica.                                                   *)

InRoom(c, rep) == client[c].room /\ client[c].rep = rep
Full(c) == Len(client[c].frames) >= Buffer
Watching(c) == client[c].at \in {"entered", "fetched", "listed", "on"}

(* Send: a frame for a full buffer is dropped, and no more is promised to  *)
(* the connection: its frames and its page are not followed further.       *)
Queued(k, f) == [k EXCEPT !.frames = IF Len(@) < Buffer THEN Append(@, f) ELSE << >>]

Drops(lost) ==
    /\ lossy' = lossy \cup lost
    /\ page' = [c \in Clients |-> IF c \in lost THEN Blank ELSE page[c]]

(* A frame for one connection, as k.                                       *)
SendTo(c, k, f) ==
    /\ client' = [client EXCEPT ![c] = IF c \in lossy THEN k ELSE Queued(k, f)]
    /\ Drops(IF Full(c) THEN {c} ELSE {})

Home(m) == task[m].rep
Answering(m) == task[m].at \in {"load", "stream", "keep", "done", "error"}

(* Of the answers being given in c's room it may now show the end only.    *)
Breaks(c) ==
    partly' = [partly EXCEPT ![c] =
                  @ \cup {m \in Messages : Answering(m) /\ Home(m) = client[c].rep /\ task[m].chunks > 0}]

(* The history that c has read, or will read, does not have what is saved. *)
HasOldHistory(c) ==
    \/ client[c].at = "fetched" /\ client[c].conv # conv
    \/ client[c].at = "listed" \/ (client[c].at = "on" /\ ~client[c].room)

(* Broadcast to the room as it is now.  The messages in e come too late    *)
(* for the history of a connection, and too early for it otherwise.        *)
Broadcast(rep, f, e) ==
    LET room == {c \in Clients : InRoom(c, rep)} IN
    /\ client' = [c \in Clients |-> IF c \in room \ lossy THEN Queued(client[c], f) ELSE client[c]]
    /\ Drops({c \in room : Full(c)})
    /\ crossed' = [c \in Clients |->
                      IF c \in lossy' THEN {} ELSE IF HasOldHistory(c) THEN crossed[c] \cup e ELSE crossed[c]]
    /\ UNCHANGED partly

(* Run, register: after Register has returned to the handler.              *)
AddToRoom(c) ==
    /\ Watching(c) /\ ~client[c].room
    /\ client' = [client EXCEPT ![c].room = TRUE]
    /\ Breaks(c)
    /\ UNCHANGED <<conv, saved, page, task, crossed, lossy>>

-----------------------------------------------------------------------------
(* Connections.                                                            *)

HandleWebSocket(c, rep) ==
    /\ client[c].at = "off"
    /\ client' = [client EXCEPT ![c].at = "entered", ![c].rep = rep]
    /\ UNCHANGED <<conv, saved, page, task, crossed, partly, lossy>>

(* sendInitialState: GetOrCreateProjectConversation (the frame with its id *)
(* shows nothing and is left out) ...                                      *)
FetchConversation(c) ==
    /\ client[c].at = "entered"
    /\ client' = [client EXCEPT ![c].at = "fetched", ![c].conv = conv]
    /\ UNCHANGED <<conv, saved, page, task, crossed, partly, lossy>>

(* Mutant: no history is read.                                             *)
HistoryStale(c) == {}
(* ListAIMessages, of the conversation fetched.                            *)
History(c) == IF client[c].conv = conv THEN saved ELSE {}

(* ... the history of that conversation is read ...                        *)
ListHistory(c) ==
    /\ client[c].at = "fetched"
    /\ client' = [client EXCEPT ![c].at = "listed", ![c].history = History(c)]
    /\ UNCHANGED <<conv, saved, page, task, crossed, partly, lossy>>

(* ... and sent; the pumps start.                                          *)
SendHistory(c) ==
    /\ client[c].at = "listed"
    /\ SendTo(c, [client[c] EXCEPT !.at = "on", !.conv = 0, !.history = {}], Frame("history", client[c].history))
    /\ UNCHANGED <<conv, saved, task, crossed, partly>>

(* Either statement may fail: the browser is told, and the pumps start.    *)
LoadFails(c) ==
    /\ client[c].at \in {"entered", "fetched"}
    /\ SendTo(c, [client[c] EXCEPT !.at = "on", !.conv = 0], Frame("error", None))
    /\ Breaks(c)
    /\ UNCHANGED <<conv, saved, task, crossed>>

(* Mutant: what was shown of an answer that failed is kept.                *)
ShownKeepsText(p, f) ==
    CASE f.kind = "history" -> [p EXCEPT !.shows = f.what]
      [] f.kind = "message" -> [p EXCEPT !.shows = @ \cup {f.what}]
      [] f.kind = "typing" -> [p EXCEPT !.text = {}]
      [] f.kind = "chunk" -> [p EXCEPT !.text = @ \cup {f.what}]
      [] OTHER -> [shows |-> p.shows \cup (IF p.text = {} THEN {} ELSE {Said(p.text)})
                                     \cup (IF f.kind = "error" THEN {Failed(f.what)} ELSE {}), text |-> {}]
(* What the browser shows once it has handled frame f: a history replaces  *)
(* what was shown; the text streamed becomes a message when it is done,    *)
(* and gives way to the notice of an error.                                *)
Shown(p, f) ==
    CASE f.kind = "history" -> [p EXCEPT !.shows = f.what]
      [] f.kind = "message" -> [p EXCEPT !.shows = @ \cup {f.what}]
      [] f.kind = "typing" -> [p EXCEPT !.text = {}]
      [] f.kind = "chunk" -> [p EXCEPT !.text = @ \cup {f.what}]
      [] f.kind = "done" -> [shows |-> p.shows \cup (IF p.text = {} THEN {} ELSE {Said(p.text)}), text |-> {}]
      [] f.kind = "error" -> [shows |-> p.shows \cup {Failed(f.what)}, text |-> {}]

(* WritePump, and the browser behind it.                                   *)
Deliver(c) ==
    /\ client[c].at = "on" /\ client[c].frames # << >>
    /\ page' = [page EXCEPT ![c] = Shown(@, Head(client[c].frames))]
    /\ client' = [client EXCEPT ![c].frames = Tail(@)]
    /\ UNCHANGED <<conv, saved, task, crossed, partly, lossy>>

Handling(c) == \E m \in Messages : task[m].by = c

(* Connections that are over.                                              *)
Over(gone) ==
    /\ client' = [c \in Clients |->
                     IF c \in gone THEN [client[c] EXCEPT !.at = "gone", !.room = FALSE, !.frames = << >>, !.history = {}]
                     ELSE client[c]]
    /\ page' = [c \in Clients |-> IF c \in gone THEN Blank ELSE page[c]]
    /\ crossed' = [c \in Clients |-> IF c \in gone THEN {} ELSE crossed[c]]
    /\ partly' = [c \in Clients |-> IF c \in gone THEN {} ELSE partly[c]]
    /\ lossy' = lossy \ gone

(* One breaks; the reader leaves once its message is handled.              *)
Disconnect(c) ==
    /\ client[c].at = "on" /\ ~Handling(c)
    /\ Over({c})
    /\ UNCHANGED <<conv, saved, task>>

-----------------------------------------------------------------------------
(* A message, handled by the reader of its sender's connection.            *)

Advance(m, stage) == task' = [task EXCEPT ![m].at = stage]

(* handleSendMessage, GetOrCreateProjectConversation (its failure is told  *)
(* like that of the INSERT: SaveFails).  Messages differ in nothing: the   *)
(* next one is a fixed one.                                                *)
SendMessage(c, m) ==
    /\ client[c].at = "on" /\ ~Handling(c)
    /\ task[m].at = "unsent" /\ m = (CHOOSE n \in Messages : task[n].at = "unsent")
    /\ task' = [task EXCEPT ![m] = [@ EXCEPT !.at = "save", !.by = c, !.rep = client[c].rep, !.conv = conv]]
    /\ UNCHANGED <<conv, saved, client, page, crossed, partly, lossy>>

SaveMessage(m) ==
    /\ task[m].at = "save" /\ task[m].conv = conv
    /\ saved' = saved \cup {m} /\ Advance(m, "send")
    /\ UNCHANGED <<conv, client, page, crossed, partly, lossy>>

(* One of the two statements fails, as the INSERT must once the            *)
(* conversation is gone: the sender is told.                               *)
SaveFails(m) ==
    /\ task[m].at = "save"
    /\ task' = [task EXCEPT ![m].at = "failed", ![m].by = None]
    /\ SendTo(task[m].by, client[task[m].by], Frame("error", m)) /\ Breaks(task[m].by)
    /\ UNCHANGED <<conv, saved, crossed>>

BroadcastMessage(m) ==
    /\ task[m].at = "send"
    /\ Broadcast(Home(m), Frame("message", m), {m} \cap saved)
    /\ task' = [task EXCEPT ![m].at = "ask", ![m].by = None]
    /\ UNCHANGED <<conv, saved>>

-----------------------------------------------------------------------------
(* The answer, in a goroutine of its own.                                  *)

(* Mutant: the lock is there but nobody waits for it.                      *)
LockFreeAlways(rep) == TRUE
LockFree(rep) == ~\E m \in Messages : Answering(m) /\ Home(m) = rep

AcquireAILock(m) ==
    /\ task[m].at = "ask" /\ LockFree(Home(m))
    /\ Broadcast(Home(m), Frame("typing", None), {})
    /\ Advance(m, "load")
    /\ UNCHANGED <<conv, saved>>

(* The history the model is given, if it can be read; an empty one is      *)
(* refused.                                                                *)
LoadHistory(m) ==
    /\ task[m].at = "load"
    /\ LET read == IF task[m].conv = conv THEN saved ELSE {}
       IN  \/ read # {} /\ task' = [task EXCEPT ![m].at = "stream", ![m].knows = read]
           \/ Advance(m, "error")
    /\ UNCHANGED <<conv, saved, client, page, crossed, partly, lossy>>

(* The stream yields a piece of the text, ends -- with text, or with tool  *)
(* calls and none -- or fails, before or after some text.                  *)
StreamChunk(m) ==
    /\ task[m].at = "stream" /\ task[m].chunks < MaxChunks
    /\ task' = [task EXCEPT ![m].chunks = @ + 1]
    /\ Broadcast(Home(m), Frame("chunk", Piece(m, task[m].chunks + 1)), {})
    /\ UNCHANGED <<conv, saved>>

StreamEnds(m) ==
    /\ task[m].at = "stream"
    /\ task' = [task EXCEPT ![m].at = IF task[m].chunks > 0 THEN "keep" ELSE "done", ![m].knows = {}]
    /\ UNCHANGED <<conv, saved, client, page, crossed, partly, lossy>>

StreamFails(m) ==
    /\ task[m].at = "stream"
    /\ task' = [task EXCEPT ![m].at = "error", ![m].chunks = 0, ![m].knows = {}]
    /\ UNCHANGED <<conv, saved, client, page, crossed, partly, lossy>>

(* CreateAIMessage; its error is ignored.  Usage and title follow.         *)
SaveAnswer(m) ==
    /\ task[m].at = "keep"
    /\ \/ task[m].conv = conv /\ saved' = saved \cup {Answer(m)}
       \/ UNCHANGED saved
    /\ Advance(m, "done")
    /\ UNCHANGED <<conv, client, page, crossed, partly, lossy>>

(* Mutant: an error leaves without releasing the lock.                     *)
ReleasedNotOnError(m) == IF task[m].at = "error" THEN task[m] ELSE [task[m] EXCEPT !.at = "answered"]
(* The deferred release.                                                   *)
Released(m) == [task[m] EXCEPT !.at = IF @ = "error" THEN "failed" ELSE "answered"]

BroadcastDone(m) ==
    /\ task[m].at \in {"done", "error"}
    /\ Broadcast(Home(m), Frame(task[m].at, m), {})
    /\ task' = [task EXCEPT ![m] = Released(m)]
    /\ UNCHANGED <<conv, saved>>

(* Staff delete the conversation; the next message makes a new one.        *)
DeleteConversation ==
    /\ conv = 0 /\ saved # {}
    /\ conv' = conv + 1 /\ saved' = {}
    /\ crossed' = [c \in Clients |-> {}]
    /\ UNCHANGED <<client, page, task, partly, lossy>>

(* A replica dies, with its rooms, locks and goroutines, and is restarted. *)
Dies(rep) ==
    /\ Over({c \in Clients : client[c].rep = rep /\ Watching(c)})
    /\ task' = [m \in Messages |->
                   IF Home(m) = rep /\ task[m].at \notin {"failed", "answered", "cut"}
                   THEN [task[m] EXCEPT !.at = "cut", !.by = None, !.knows = {}, !.chunks = IF task[m].at = "done" THEN @ ELSE 0]
                   ELSE task[m]]
    /\ UNCHANGED <<conv, saved>>

TaskStep(m) ==
    \/ SaveMessage(m) \/ SaveFails(m) \/ BroadcastMessage(m)
    \/ AcquireAILock(m) \/ LoadHistory(m) \/ SaveAnswer(m) \/ BroadcastDone(m)

ProviderStep(m) == StreamChunk(m) \/ StreamEnds(m) \/ StreamFails(m)

Next ==
    \/ \E c \in Clients :
          \/ \E rep \in Replicas : HandleWebSocket(c, rep)
          \/ AddToRoom(c) \/ FetchConversation(c) \/ ListHistory(c) \/ SendHistory(c) \/ LoadFails(c)
          \/ Deliver(c) \/ Disconnect(c)
          \/ \E m \in Messages : SendMessage(c, m)
    \/ \E m \in Messages : TaskStep(m) \/ ProviderStep(m)
    \/ DeleteConversation
    \/ \E rep \in Replicas : Dies(rep)

Spec == Init /\ [][Next]_vars

(* Goroutines run.  That a stream yields text or ends is up to the         *)
(* provider: the call has no deadline of its own.                          *)
FairSpec == Spec /\ \A m \in Messages : WF_vars(TaskStep(m))

-----------------------------------------------------------------------------
Carries == [message |-> Messages, typing |-> {None}, chunk |-> Pieces, done |-> Messages,
            error |-> Messages \cup {None}, history |-> SUBSET Entries]
IsFrame(f) == f = Frame(f.kind, f.what) /\ f.kind \in DOMAIN Carries /\ f.what \in Carries[f.kind]

(* The type invariant; a connection that is over holds no frames.          *)
TypeOK ==
    /\ conv \in 0..1 /\ saved \subseteq Entries
    /\ \A c \in Clients :
          /\ client[c].at \in {"off", "entered", "fetched", "listed", "on", "gone"}
          /\ Len(client[c].frames) <= Buffer /\ client[c].conv <= conv
          /\ \A i \in DOMAIN client[c].frames : IsFrame(client[c].frames[i])
          /\ client[c].room => Watching(c)
          /\ page[c].shows \subseteq Entries \cup Notices /\ page[c].text \subseteq Pieces
    /\ \A m \in Messages : task[m].knows \subseteq Entries /\ task[m].conv <= conv /\ task[m].chunks \in 0..MaxChunks
    /\ crossed \in [Clients -> SUBSET Messages] /\ partly \in [Clients -> SUBSET Messages] /\ lossy \subseteq Clients

(* The messages a browser will show once it has handled the frames under   *)
(* way: on its page or in a frame, and in every history that comes after.  *)
Soon(c) ==
    LET frames == client[c].frames
    IN  {m \in Messages :
            \E i \in 0..Len(frames) :
               /\ IF i = 0 THEN m \in page[c].shows
                  ELSE frames[i] = Frame("message", m) \/ (frames[i].kind = "history" /\ m \in frames[i].what)
               /\ \A j \in (i + 1)..Len(frames) : frames[j].kind = "history" => m \in frames[j].what}

(* The browser is told, or will be, that it has no history.                *)
HasNoHistory(c) ==
    \/ Failed(None) \in page[c].shows
    \/ \E i \in DOMAIN client[c].frames : client[c].frames[i] = Frame("error", None)

(* A member who is connected misses nothing of the conversation that comes *)
(* from his replica: every message in the database is shown, or queued for *)
(* him, or about to be broadcast -- as long as his buffer was never full,  *)
(* unless he is told that the history could not be loaded, and except one  *)
(* broadcast after his history was read and before it was queued (which    *)
(* replaces it), or before the hub had put him in the room, or while his   *)
(* history was still to be read of a conversation deleted meanwhile.       *)
NothingMissed ==
    \A c \in Clients \ lossy, m \in saved \cap Messages :
        (client[c].at = "on" /\ client[c].rep = Home(m) /\ ~HasNoHistory(c)) =>
            m \in Soon(c) \cup crossed[c] \/ task[m].at = "send"

(* Two members ask at the same time: the answers of a replica are given    *)
(* one after the other, and each is made from a history that holds its     *)
(* question and every answer saved before it (one whose INSERT failed is   *)
(* shown and forgotten).                                                   *)
AnswersBuildOnEachOther ==
    \A m \in Messages :
        (task[m].at = "stream" /\ task[m].conv = conv) =>
            /\ m \in task[m].knows
            /\ \A n \in Messages : (Answer(n) \in saved /\ Home(n) = Home(m)) => Answer(n) \in task[m].knows

(* What a browser shows as a message of a member is in the conversation,   *)
(* unless that was deleted.  What it shows as an answer is the answer to   *)
(* one message -- never the text of two run together, nor that of one that *)
(* failed -- and all of it, except that of an answer which had begun when  *)
(* he came in, or when an error was sent to him alone, he sees the end.    *)
(* A dropped frame ends the promise: the text of an answer that failed,    *)
(* left standing, is taken for the next one.                               *)
ShownIsReal ==
    \A c \in Clients \ lossy : \A e \in page[c].shows :
        \/ e \in Notices
        \/ e \in Messages /\ (task[e].conv = conv => e \in saved)
        \/ \E m \in Messages, k \in 1..MaxChunks :
              /\ e = Said(Ending(m, k)) /\ k <= task[m].chunks
              /\ task[m].at \in {"done", "answered", "cut"} /\ (k = 1 \/ m \in partly[c])

(* No message is under way for ever -- saved, waiting for the lock, being  *)
(* answered -- without a provider call that hangs: whatever fails, whoever *)
(* disconnects and however full the buffers are, the lock is passed on.    *)
EveryMessageAnswered ==
    \A m \in Messages :
        []<>(task[m].at \in {"unsent", "answered", "failed", "cut"} \/ \E n \in Messages : task[n].at = "stream")
=============================================================================
