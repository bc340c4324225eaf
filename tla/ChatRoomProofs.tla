--------------------------- MODULE ChatRoomProofs ---------------------------
(***************************************************************************)
(* Proofs about ChatRoom, for any connections, messages, replicas, any     *)
(* number of pieces of an answer and any size of the send buffers: the     *)
(* answers of a replica build on each other (AnswersInTurn), what a        *)
(* browser shows is a message of the conversation or an answer that was    *)
(* given (NothingInvented), and a member who is connected misses nothing   *)
(* (MembersMissNothing).                                                   *)
(***************************************************************************)
EXTENDS ChatRoom, SequenceTheorems, TLAPS

Frames ==
    [kind : {"message", "done"}, what : Messages] \cup [kind : {"chunk"}, what : Pieces]
    \cup [kind : {"error"}, what : Messages \cup {None}] \cup [kind : {"typing"}, what : {None}]
    \cup [kind : {"history"}, what : SUBSET Entries]
Kinds == {"message", "done", "chunk", "error", "typing", "history"}

Ats == {"off", "entered", "fetched", "listed", "on", "gone"}
ClientRows ==
    [at : Ats, rep : Replicas \cup {None}, room : BOOLEAN, frames : Seq(Frames), conv : 0..1, history : SUBSET Entries]

Pages == [shows : SUBSET (Entries \cup Notices), text : SUBSET Pieces]

Stages == {"unsent", "save", "send", "ask", "load", "stream", "keep", "done", "error", "answered", "failed", "cut"}
Tasks == [at : Stages, by : Clients \cup {None}, rep : Replicas \cup {None}, conv : 0..1,
          knows : SUBSET Entries, chunks : 0..MaxChunks]

Typing ==
    /\ conv \in 0..1 /\ saved \subseteq Entries
    /\ client \in [Clients -> ClientRows]
    /\ \A c \in Clients : /\ Len(client[c].frames) <= Buffer /\ client[c].conv <= conv
                          /\ client[c].room => Watching(c)
    /\ page \in [Clients -> Pages]
    /\ task \in [Messages -> Tasks]
    /\ \A m \in Messages : task[m].conv <= conv
    /\ crossed \in [Clients -> SUBSET Messages] /\ partly \in [Clients -> SUBSET Messages] /\ lossy \subseteq Clients

(* A message being saved has a sender to tell.                             *)
Senders == \A m \in Messages : task[m].at = "save" => task[m].by \in Clients

Base == Typing /\ Senders

-----------------------------------------------------------------------------
(* The operators of the model.                                             *)

LEMMA FrameLaws ==
    /\ \A k \in {"message", "done"}, m \in Messages : Frame(k, m) \in Frames
    /\ \A x \in Pieces : Frame("chunk", x) \in Frames
    /\ \A x \in Messages \cup {None} : Frame("error", x) \in Frames
    /\ Frame("typing", None) \in Frames
    /\ \A h \in SUBSET Entries : Frame("history", h) \in Frames
    /\ \A k, w : Frame(k, w).kind = k /\ Frame(k, w).what = w
BY DEF Frame, Frames

LEMMA KindLaws ==
    ASSUME NEW f \in Frames
    PROVE  /\ f.kind \in Kinds /\ f = Frame(f.kind, f.what)
           /\ f.kind \in {"message", "done"} => f.what \in Messages
           /\ f.kind = "chunk" => f.what \in Pieces
           /\ f.kind = "error" => f.what \in Messages \cup {None}
           /\ f.kind = "typing" => f.what = None
           /\ f.kind = "history" => f.what \in SUBSET Entries
<1>1. CASE f \in [kind : {"message", "done"}, what : Messages]
  BY <1>1 DEF Frame, Kinds
<1>2. CASE f \in [kind : {"chunk"}, what : Pieces]
  BY <1>2 DEF Frame, Kinds
<1>3. CASE f \in [kind : {"error"}, what : Messages \cup {None}]
  BY <1>3 DEF Frame, Kinds
<1>4. CASE f \in [kind : {"typing"}, what : {None}]
  BY <1>4 DEF Frame, Kinds
<1>5. CASE f \in [kind : {"history"}, what : SUBSET Entries]
  BY <1>5 DEF Frame, Kinds
<1> QED BY <1>1, <1>2, <1>3, <1>4, <1>5 DEF Frames

(* A frame is queued behind the others, unless the buffer is full.         *)
LEMMA QueuedLaws ==
    ASSUME NEW k \in ClientRows, NEW f \in Frames, Len(k.frames) <= Buffer
    PROVE  /\ Queued(k, f) \in ClientRows
           /\ Queued(k, f).at = k.at /\ Queued(k, f).rep = k.rep /\ Queued(k, f).room = k.room
           /\ Queued(k, f).conv = k.conv /\ Queued(k, f).history = k.history
           /\ Len(k.frames) < Buffer => Queued(k, f).frames = Append(k.frames, f)
           /\ Len(Queued(k, f).frames) <= Buffer
<1> DEFINE x == IF Len(k.frames) < Buffer THEN Append(k.frames, f) ELSE << >>
<1>1. k.frames \in Seq(Frames) /\ Len(k.frames) \in Nat
  BY DEF ClientRows
<1>2. x \in Seq(Frames)
  BY <1>1, AppendProperties
<1>3. Len(x) <= Buffer
  <2>1. CASE Len(k.frames) < Buffer
    <3>1. Len(Append(k.frames, f)) = Len(k.frames) + 1
      BY <1>1, AppendProperties
    <3> QED BY <2>1, <3>1, <1>1, ChatAssumption
  <2>2. CASE ~(Len(k.frames) < Buffer)
    <3>1. x = << >> /\ Len(<< >>) = 0
      BY <2>2
    <3> QED BY <3>1, ChatAssumption
  <2> QED BY <2>1, <2>2
<1>4. Queued(k, f) = [k EXCEPT !.frames = x]
  BY DEF Queued
<1>5. Len(k.frames) < Buffer => x = Append(k.frames, f)
  OBVIOUS
<1> HIDE DEF x
<1>6. /\ Queued(k, f) \in ClientRows /\ Queued(k, f).frames = x
      /\ Queued(k, f).at = k.at /\ Queued(k, f).rep = k.rep /\ Queued(k, f).room = k.room
      /\ Queued(k, f).conv = k.conv /\ Queued(k, f).history = k.history
  <2>1. PICK y : y = [k EXCEPT !.frames = x]
    OBVIOUS
  <2>2. /\ y \in ClientRows /\ y.frames = x /\ y.at = k.at /\ y.rep = k.rep /\ y.room = k.room
        /\ y.conv = k.conv /\ y.history = k.history
    BY <1>2, <2>1 DEF ClientRows
  <2> QED BY <2>1, <2>2, <1>4
<1> QED BY <1>3, <1>5, <1>6

LEMMA BlankLaws == Blank \in Pages /\ Blank.shows = {} /\ Blank.text = {}
BY DEF Blank, Pages

LEMMA DropsLaws ==
    ASSUME page \in [Clients -> Pages], lossy \subseteq Clients, NEW lost \in SUBSET Clients, Drops(lost)
    PROVE  /\ page' \in [Clients -> Pages] /\ lossy' = lossy \cup lost /\ lossy' \subseteq Clients
           /\ \A c \in Clients \ lost : page'[c] = page[c]
BY BlankLaws DEF Drops

(* What a step that sends a frame f to the connections in S does: those    *)
(* that lose nothing have it queued, and keep their page.                  *)
Queues(S, f) ==
    /\ client' \in [Clients -> ClientRows] /\ page' \in [Clients -> Pages]
    /\ lossy \subseteq lossy' /\ lossy' \subseteq Clients
    /\ \A c \in Clients :
          /\ client'[c].rep = client[c].rep /\ client'[c].room = client[c].room
          /\ Len(client'[c].frames) <= Buffer
          /\ c \notin lossy' =>
                /\ page'[c] = page[c]
                /\ client'[c].frames = IF c \in S THEN Append(client[c].frames, f) ELSE client[c].frames

(* Everything else of the connections stays.                               *)
Stays(c) ==
    client'[c].at = client[c].at /\ client'[c].conv = client[c].conv /\ client'[c].history = client[c].history

Others(c) == \A b \in Clients : b # c => client'[b] = client[b]

LEMMA SendToLaws ==
    ASSUME Typing, NEW c \in Clients, NEW f \in Frames, NEW k \in ClientRows,
           k.frames = client[c].frames, k.rep = client[c].rep, k.room = client[c].room, SendTo(c, k, f)
    PROVE  /\ Queues({c}, f) /\ Others(c)
           /\ client'[c].at = k.at /\ client'[c].conv = k.conv /\ client'[c].history = k.history
<1> DEFINE lost == IF Full(c) THEN {c} ELSE {}
<1>1. PICK y : y = IF c \in lossy THEN k ELSE Queued(k, f)
  OBVIOUS
<1>2. client' = [client EXCEPT ![c] = y] /\ Drops(lost)
  BY <1>1 DEF SendTo
<1>3. \A b \in Clients : client[b] \in ClientRows /\ Len(client[b].frames) <= Buffer
  BY DEF Typing
<1>4. /\ page' \in [Clients -> Pages] /\ lossy' = lossy \cup lost /\ lossy' \subseteq Clients
      /\ \A b \in Clients \ lost : page'[b] = page[b]
  BY <1>2, DropsLaws DEF Typing
<1>5. /\ y \in ClientRows /\ y.at = k.at /\ y.rep = client[c].rep /\ y.room = client[c].room
      /\ y.conv = k.conv /\ y.history = k.history /\ Len(y.frames) <= Buffer
      /\ c \notin lossy /\ Len(k.frames) < Buffer => y.frames = Append(client[c].frames, f)
  BY <1>1, <1>3, QueuedLaws
<1>6. /\ client' \in [Clients -> ClientRows] /\ client'[c] = y /\ Others(c)
  BY <1>2, <1>5 DEF Typing, Others
<1>7. c \notin lossy' => c \notin lossy /\ Len(k.frames) < Buffer
  <2>1. Len(client[c].frames) \in Nat
    BY <1>3 DEF ClientRows
  <2> QED BY <1>4, <2>1, ChatAssumption DEF Full
<1>8. ASSUME NEW b \in Clients
      PROVE  /\ client'[b].rep = client[b].rep /\ client'[b].room = client[b].room
             /\ Len(client'[b].frames) <= Buffer
             /\ b \notin lossy' =>
                   /\ page'[b] = page[b]
                   /\ client'[b].frames = IF b \in {c} THEN Append(client[b].frames, f) ELSE client[b].frames
  <2>1. CASE b = c
    BY <2>1, <1>4, <1>5, <1>6, <1>7
  <2>2. CASE b # c
    BY <2>2, <1>3, <1>4, <1>6 DEF Others
  <2> QED BY <2>1, <2>2
<1>9. Queues({c}, f)
  BY <1>4, <1>6, <1>8 DEF Queues
<1> QED BY <1>5, <1>6, <1>9

LEMMA BroadcastLaws ==
    ASSUME Typing, NEW rep, NEW f \in Frames, NEW e \in SUBSET Messages, Broadcast(rep, f, e)
    PROVE  /\ Queues({c \in Clients : InRoom(c, rep)}, f) /\ \A c \in Clients : Stays(c)
           /\ crossed' \in [Clients -> SUBSET Messages] /\ partly' = partly
           /\ \A c \in Clients \ lossy' :
                crossed[c] \subseteq crossed'[c] /\ (HasOldHistory(c) => e \subseteq crossed'[c])
<1> DEFINE room == {c \in Clients : InRoom(c, rep)}
           lost == {c \in room : Full(c)}
<1>1. /\ client' = [c \in Clients |-> IF c \in room \ lossy THEN Queued(client[c], f) ELSE client[c]]
      /\ Drops(lost)
  BY DEF Broadcast
<1>2. \A c \in Clients : client[c] \in ClientRows /\ Len(client[c].frames) <= Buffer
  BY DEF Typing
<1>3. /\ page' \in [Clients -> Pages] /\ lossy' = lossy \cup lost /\ lossy' \subseteq Clients
      /\ \A c \in Clients \ lost : page'[c] = page[c]
  BY <1>1, DropsLaws DEF Typing
<1>4. client' \in [Clients -> ClientRows]
  BY <1>1, <1>2, QueuedLaws
<1>5. ASSUME NEW c \in Clients
      PROVE  /\ Stays(c) /\ client'[c].rep = client[c].rep /\ client'[c].room = client[c].room
             /\ Len(client'[c].frames) <= Buffer
             /\ c \notin lossy' =>
                   client'[c].frames = IF c \in room THEN Append(client[c].frames, f) ELSE client[c].frames
  <2>1. CASE c \in room \ lossy
    <3>1. client'[c] = Queued(client[c], f)
      BY <1>1, <2>1
    <3>2. c \notin lossy' => Len(client[c].frames) < Buffer
      <4>1. Len(client[c].frames) \in Nat
        BY <1>2 DEF ClientRows
      <4> QED BY <4>1, <1>3, <2>1, ChatAssumption DEF Full
    <3> QED BY <3>1, <3>2, <2>1, <1>2, QueuedLaws DEF Stays
  <2>2. CASE c \notin room \ lossy
    <3>1. client'[c] = client[c]
      BY <1>1, <2>2
    <3> QED BY <3>1, <2>2, <1>2, <1>3 DEF Stays
  <2> QED BY <2>1, <2>2
<1>6. Queues(room, f)
  BY <1>3, <1>4, <1>5 DEF Queues
<1>7. /\ crossed' \in [Clients -> SUBSET Messages] /\ partly' = partly
      /\ \A c \in Clients \ lossy' :
           crossed[c] \subseteq crossed'[c] /\ (HasOldHistory(c) => e \subseteq crossed'[c])
  BY DEF Broadcast, Typing
<1> QED BY <1>5, <1>6, <1>7

(* The answers begun in the room of c.                                     *)
Begun(c) == {m \in Messages : Answering(m) /\ Home(m) = client[c].rep /\ task[m].chunks > 0}

LEMMA BreaksLaws ==
    ASSUME Typing, NEW c \in Clients, Breaks(c)
    PROVE  /\ partly' \in [Clients -> SUBSET Messages]
           /\ \A b \in Clients : partly[b] \subseteq partly'[b]
           /\ Begun(c) \subseteq partly'[c]
BY DEF Breaks, Begun, Typing

LEMMA OverLaws ==
    ASSUME Typing, NEW gone \in SUBSET Clients, Over(gone)
    PROVE  /\ client' \in [Clients -> ClientRows] /\ page' \in [Clients -> Pages] /\ lossy' = lossy \ gone
           /\ crossed' \in [Clients -> SUBSET Messages] /\ partly' \in [Clients -> SUBSET Messages]
           /\ \A c \in gone :
                /\ client'[c].at = "gone" /\ client'[c].rep = client[c].rep /\ ~client'[c].room /\ page'[c] = Blank
                /\ client'[c].frames = << >> /\ client'[c].conv = client[c].conv /\ client'[c].history = {}
           /\ \A c \in Clients \ gone :
                client'[c] = client[c] /\ page'[c] = page[c] /\ crossed'[c] = crossed[c] /\ partly'[c] = partly[c]
<1>1. ASSUME NEW c \in gone
      PROVE  /\ client'[c] \in ClientRows
             /\ client'[c].at = "gone" /\ client'[c].rep = client[c].rep /\ ~client'[c].room
             /\ client'[c].frames = << >> /\ client'[c].conv = client[c].conv /\ client'[c].history = {}
  <2>1. PICK w, x, y, z : /\ w = [client[c] EXCEPT !.at = "gone"] /\ x = [w EXCEPT !.room = FALSE]
                          /\ y = [x EXCEPT !.frames = << >>] /\ z = [y EXCEPT !.history = {}]
    OBVIOUS
  <2>2. client[c] \in ClientRows /\ "gone" \in Ats /\ FALSE \in BOOLEAN /\ << >> \in Seq(Frames) /\ {} \in SUBSET Entries
    BY DEF Typing, Ats
  <2>3. w \in ClientRows /\ w.at = "gone" /\ w.rep = client[c].rep /\ w.conv = client[c].conv
    BY <2>1, <2>2 DEF ClientRows
  <2>4. x \in ClientRows /\ x.at = "gone" /\ x.rep = client[c].rep /\ x.room = FALSE /\ x.conv = client[c].conv
    BY <2>1, <2>2, <2>3 DEF ClientRows
  <2>5. /\ y \in ClientRows /\ y.at = "gone" /\ y.rep = client[c].rep /\ y.room = FALSE /\ y.conv = client[c].conv
        /\ y.frames = << >>
    BY <2>1, <2>2, <2>4 DEF ClientRows
  <2>6. /\ z \in ClientRows /\ z.at = "gone" /\ z.rep = client[c].rep /\ z.room = FALSE /\ z.conv = client[c].conv
        /\ z.frames = << >> /\ z.history = {}
    BY <2>1, <2>2, <2>5 DEF ClientRows
  <2>7. client'[c] = z
    BY <2>1 DEF Over
  <2> QED BY <2>6, <2>7
<1>2. client' = [c \in Clients |-> IF c \in gone THEN client'[c] ELSE client[c]]
  BY DEF Over
<1>3. client' \in [Clients -> ClientRows]
  BY <1>1, <1>2 DEF Typing
<1>4. /\ page' \in [Clients -> Pages] /\ lossy' = lossy \ gone
      /\ crossed' \in [Clients -> SUBSET Messages] /\ partly' \in [Clients -> SUBSET Messages]
      /\ \A c \in gone : page'[c] = Blank
      /\ \A c \in Clients \ gone :
            client'[c] = client[c] /\ page'[c] = page[c] /\ crossed'[c] = crossed[c] /\ partly'[c] = partly[c]
  BY BlankLaws DEF Over, Typing
<1> QED BY <1>1, <1>3, <1>4

-----------------------------------------------------------------------------
(* The steps, one by one.                                                  *)

(* What the steps of one connection that send nothing make of it.          *)
LEMMA ConnectionSteps ==
    ASSUME Typing, NEW c \in Clients
    PROVE  /\ \A rep \in Replicas : HandleWebSocket(c, rep) =>
                /\ client' \in [Clients -> ClientRows] /\ Others(c)
                /\ client'[c].at = "entered" /\ client'[c].room = client[c].room /\ client'[c].conv = client[c].conv
                /\ client'[c].frames = client[c].frames /\ client'[c].history = client[c].history
           /\ AddToRoom(c) =>
                /\ client' \in [Clients -> ClientRows] /\ Others(c) /\ Stays(c)
                /\ client'[c].rep = client[c].rep /\ client'[c].room /\ client'[c].frames = client[c].frames
           /\ FetchConversation(c) =>
                /\ client' \in [Clients -> ClientRows] /\ Others(c)
                /\ client'[c].at = "fetched" /\ client'[c].rep = client[c].rep /\ client'[c].room = client[c].room
                /\ client'[c].frames = client[c].frames /\ client'[c].history = client[c].history /\ client'[c].conv = conv
           /\ ListHistory(c) =>
                /\ client' \in [Clients -> ClientRows] /\ Others(c)
                /\ client'[c].at = "listed" /\ client'[c].rep = client[c].rep /\ client'[c].room = client[c].room
                /\ client'[c].frames = client[c].frames /\ client'[c].conv = client[c].conv
                /\ client'[c].history = History(c)
<1>1. client[c] \in ClientRows
  BY DEF Typing
<1>2. ASSUME NEW rep \in Replicas, HandleWebSocket(c, rep)
      PROVE  /\ client' \in [Clients -> ClientRows] /\ Others(c)
             /\ client'[c].at = "entered" /\ client'[c].room = client[c].room /\ client'[c].conv = client[c].conv
             /\ client'[c].frames = client[c].frames /\ client'[c].history = client[c].history
  <2>1. PICK y : y = [client[c] EXCEPT !.at = "entered"]
    OBVIOUS
  <2>2. /\ y \in ClientRows /\ y.at = "entered" /\ y.room = client[c].room /\ y.conv = client[c].conv
        /\ y.frames = client[c].frames /\ y.history = client[c].history
    BY <2>1, <1>1 DEF ClientRows, Ats
  <2>3. PICK z : z = [y EXCEPT !.rep = rep]
    OBVIOUS
  <2>4. /\ z \in ClientRows /\ z.at = "entered" /\ z.rep = rep /\ z.room = client[c].room /\ z.conv = client[c].conv
        /\ z.frames = client[c].frames /\ z.history = client[c].history
    BY <2>2, <2>3 DEF ClientRows
  <2>5. client' = [client EXCEPT ![c] = z]
    BY <1>2, <2>1, <2>3 DEF HandleWebSocket, Typing
  <2> QED BY <2>4, <2>5 DEF Typing, Others
<1>3. ASSUME AddToRoom(c)
      PROVE  /\ client' \in [Clients -> ClientRows] /\ Others(c) /\ Stays(c)
             /\ client'[c].rep = client[c].rep /\ client'[c].room /\ client'[c].frames = client[c].frames
  <2>1. PICK y : y = [client[c] EXCEPT !.room = TRUE]
    OBVIOUS
  <2>2. /\ y \in ClientRows /\ y.at = client[c].at /\ y.rep = client[c].rep /\ y.room /\ y.conv = client[c].conv
        /\ y.frames = client[c].frames /\ y.history = client[c].history
    BY <2>1, <1>1 DEF ClientRows
  <2>3. client' = [client EXCEPT ![c] = y]
    BY <1>3, <2>1 DEF AddToRoom, Typing
  <2> QED BY <2>2, <2>3 DEF Typing, Others, Stays
<1>4. ASSUME FetchConversation(c)
      PROVE  /\ client' \in [Clients -> ClientRows] /\ Others(c)
             /\ client'[c].at = "fetched" /\ client'[c].rep = client[c].rep /\ client'[c].room = client[c].room
             /\ client'[c].frames = client[c].frames /\ client'[c].history = client[c].history /\ client'[c].conv = conv
  <2>1. PICK y : y = [client[c] EXCEPT !.at = "fetched"]
    OBVIOUS
  <2>2. /\ y \in ClientRows /\ y.at = "fetched" /\ y.rep = client[c].rep /\ y.room = client[c].room
        /\ y.frames = client[c].frames /\ y.history = client[c].history
    BY <2>1, <1>1 DEF ClientRows, Ats
  <2>3. PICK z : z = [y EXCEPT !.conv = conv]
    OBVIOUS
  <2>4. /\ z \in ClientRows /\ z.at = "fetched" /\ z.rep = client[c].rep /\ z.room = client[c].room /\ z.conv = conv
        /\ z.frames = client[c].frames /\ z.history = client[c].history
    BY <2>2, <2>3 DEF ClientRows, Typing
  <2>5. client' = [client EXCEPT ![c] = z]
    BY <1>4, <2>1, <2>3 DEF FetchConversation, Typing
  <2> QED BY <2>4, <2>5 DEF Typing, Others
<1>5. ASSUME ListHistory(c)
      PROVE  /\ client' \in [Clients -> ClientRows] /\ Others(c)
             /\ client'[c].at = "listed" /\ client'[c].rep = client[c].rep /\ client'[c].room = client[c].room
             /\ client'[c].frames = client[c].frames /\ client'[c].conv = client[c].conv
             /\ client'[c].history = History(c)
  <2>1. PICK y : y = [client[c] EXCEPT !.at = "listed"]
    OBVIOUS
  <2>2. /\ y \in ClientRows /\ y.at = "listed" /\ y.rep = client[c].rep /\ y.room = client[c].room
        /\ y.frames = client[c].frames /\ y.conv = client[c].conv
    BY <2>1, <1>1 DEF ClientRows, Ats
  <2>3. PICK z : z = [y EXCEPT !.history = History(c)]
    OBVIOUS
  <2>4. History(c) \in SUBSET Entries
    BY DEF History, Typing
  <2>5. /\ z \in ClientRows /\ z.at = "listed" /\ z.rep = client[c].rep /\ z.room = client[c].room
        /\ z.frames = client[c].frames /\ z.conv = client[c].conv /\ z.history = History(c)
    BY <2>2, <2>3, <2>4 DEF ClientRows
  <2>6. client' = [client EXCEPT ![c] = z]
    BY <1>5, <2>1, <2>3 DEF ListHistory, Typing
  <2> QED BY <2>5, <2>6 DEF Typing, Others
<1> QED BY <1>2, <1>3, <1>4, <1>5

LEMMA HistorySteps ==
    ASSUME Typing, NEW c \in Clients
    PROVE  /\ SendHistory(c) =>
                /\ Queues({c}, Frame("history", client[c].history)) /\ Others(c)
                /\ client'[c].at = "on" /\ client'[c].conv = 0 /\ client'[c].history = {}
           /\ LoadFails(c) =>
                /\ Queues({c}, Frame("error", None)) /\ Others(c)
                /\ client'[c].at = "on" /\ client'[c].conv = 0 /\ client'[c].history = client[c].history
<1>1. client[c] \in ClientRows
  BY DEF Typing
<1>2. PICK x, y, z : /\ x = [client[c] EXCEPT !.at = "on"] /\ y = [x EXCEPT !.conv = 0]
                     /\ z = [y EXCEPT !.history = {}]
  OBVIOUS
<1>3. /\ x \in ClientRows /\ x.at = "on" /\ x.rep = client[c].rep /\ x.room = client[c].room
      /\ x.frames = client[c].frames /\ x.history = client[c].history
  BY <1>1, <1>2 DEF ClientRows, Ats
<1>4. /\ y \in ClientRows /\ y.at = "on" /\ y.rep = client[c].rep /\ y.room = client[c].room
      /\ y.frames = client[c].frames /\ y.conv = 0 /\ y.history = client[c].history
  <2>1. 0 \in 0..1
    OBVIOUS
  <2>2. PICK n : n = 0
    OBVIOUS
  <2>3. y = [x EXCEPT !.conv = n] /\ n \in 0..1
    BY <1>2, <2>1, <2>2
  <2>4. /\ y \in ClientRows /\ y.at = "on" /\ y.rep = client[c].rep /\ y.room = client[c].room
        /\ y.frames = client[c].frames /\ y.conv = n /\ y.history = client[c].history
    BY <1>3, <2>3 DEF ClientRows
  <2> QED BY <2>2, <2>4
<1>5. /\ z \in ClientRows /\ z.at = "on" /\ z.rep = client[c].rep /\ z.room = client[c].room
      /\ z.frames = client[c].frames /\ z.conv = 0 /\ z.history = {}
  BY <1>2, <1>4 DEF ClientRows
<1>6. Frame("history", client[c].history) \in Frames /\ Frame("error", None) \in Frames
  BY <1>1, FrameLaws DEF ClientRows
<1>7. SendHistory(c) => SendTo(c, z, Frame("history", client[c].history))
  BY <1>2 DEF SendHistory
<1>8. LoadFails(c) => SendTo(c, y, Frame("error", None))
  BY <1>2 DEF LoadFails
<1> QED BY <1>4, <1>5, <1>6, <1>7, <1>8, SendToLaws

LEMMA PageStep ==
    ASSUME NEW p \in Pages, NEW f \in Frames
    PROVE  /\ Shown(p, f) \in Pages
           /\ f.kind = "history" => Shown(p, f).shows = f.what /\ Shown(p, f).text = p.text
           /\ f.kind = "message" => Shown(p, f).shows = p.shows \cup {f.what} /\ Shown(p, f).text = p.text
           /\ f.kind = "typing" => Shown(p, f).shows = p.shows /\ Shown(p, f).text = {}
           /\ f.kind = "chunk" => Shown(p, f).shows = p.shows /\ Shown(p, f).text = p.text \cup {f.what}
           /\ f.kind = "done" => /\ Shown(p, f).text = {}
                                 /\ Shown(p, f).shows = p.shows \cup (IF p.text = {} THEN {} ELSE {Said(p.text)})
           /\ f.kind = "error" => Shown(p, f).text = {} /\ Shown(p, f).shows = p.shows \cup {Failed(f.what)}
           /\ f.kind \in Kinds
<1>1. CASE f.kind = "history"
  <2>1. f.what \in SUBSET Entries
    BY <1>1, KindLaws
  <2> QED BY <1>1, <2>1, KindLaws DEF Shown, Pages
<1>2. CASE f.kind = "message"
  <2>1. f.what \in Messages
    BY <1>2, KindLaws
  <2> QED BY <1>2, <2>1, KindLaws DEF Shown, Pages, Entries
<1>3. CASE f.kind = "chunk"
  <2>1. f.what \in Pieces
    BY <1>3, KindLaws
  <2> QED BY <1>3, <2>1, KindLaws DEF Shown, Pages
<1>4. CASE f.kind = "done"
  <2>1. Said(p.text) \in Entries
    BY DEF Pages, Entries, Answers
  <2> QED BY <1>4, <2>1, KindLaws DEF Shown, Pages
<1>5. CASE f.kind = "error"
  <2>1. Failed(f.what) \in Notices
    BY <1>5, KindLaws DEF Notices
  <2> QED BY <1>5, <2>1, KindLaws DEF Shown, Pages
<1>6. CASE f.kind = "typing"
  BY <1>6, KindLaws DEF Shown, Pages
<1> QED BY <1>1, <1>2, <1>3, <1>4, <1>5, <1>6, KindLaws DEF Kinds

LEMMA DeliverSteps ==
    ASSUME Typing, NEW c \in Clients, Deliver(c)
    PROVE  /\ client' \in [Clients -> ClientRows] /\ page' \in [Clients -> Pages] /\ Others(c) /\ Stays(c)
           /\ client'[c].rep = client[c].rep /\ client'[c].room = client[c].room
           /\ client[c].frames # << >> /\ client[c].frames \in Seq(Frames)
           /\ client'[c].frames = Tail(client[c].frames) /\ Len(client'[c].frames) <= Buffer
           /\ page'[c] = Shown(page[c], client[c].frames[1])
           /\ \A b \in Clients : b # c => page'[b] = page[b]
<1>1. client[c] \in ClientRows /\ client[c].frames \in Seq(Frames) /\ client[c].frames # << >>
  BY DEF Typing, ClientRows, Deliver
<1>2. PICK t : t = Tail(client[c].frames)
  OBVIOUS
<1>3. t \in Seq(Frames) /\ Len(t) <= Buffer
  <2>1. t \in Seq(Frames) /\ Len(t) = Len(client[c].frames) - 1 /\ Len(client[c].frames) \in Nat
    BY <1>1, <1>2, HeadTailProperties
  <2> QED BY <2>1, ChatAssumption DEF Typing
<1>4. PICK y : y = [client[c] EXCEPT !.frames = t]
  OBVIOUS
<1>5. /\ y \in ClientRows /\ y.at = client[c].at /\ y.rep = client[c].rep /\ y.room = client[c].room
      /\ y.frames = t /\ y.history = client[c].history /\ y.conv = client[c].conv
  BY <1>1, <1>3, <1>4 DEF ClientRows
<1>6. client' = [client EXCEPT ![c] = y]
  BY <1>2, <1>4 DEF Deliver, Typing
<1>7. Head(client[c].frames) = client[c].frames[1] /\ Head(client[c].frames) \in Frames
  BY <1>1, HeadTailProperties
<1>8. page' = [page EXCEPT ![c] = Shown(page[c], client[c].frames[1])]
  BY <1>7 DEF Deliver, Typing
<1>9. Shown(page[c], client[c].frames[1]) \in Pages
  BY <1>7, PageStep DEF Typing
<1>10. /\ page' \in [Clients -> Pages] /\ page'[c] = Shown(page[c], client[c].frames[1])
       /\ \A b \in Clients : b # c => page'[b] = page[b]
  BY <1>8, <1>9 DEF Typing
<1>11. client' \in [Clients -> ClientRows] /\ Others(c) /\ client'[c] = y
  BY <1>5, <1>6 DEF Typing, Others
<1> QED BY <1>1, <1>2, <1>3, <1>5, <1>10, <1>11 DEF Stays

OtherTasks(m) == \A n \in Messages : n # m => task'[n] = task[n]

(* Message m comes to a stage, in the same conversation and replica.       *)
Comes(m, stage) ==
    /\ task' \in [Messages -> Tasks] /\ OtherTasks(m)
    /\ task'[m].at = stage /\ task'[m].rep = task[m].rep /\ task'[m].conv = task[m].conv
    /\ task'[m].by \in {task[m].by, None}

LEMMA AdvanceLaws ==
    ASSUME Typing, NEW m \in Messages, NEW stage \in Stages, Advance(m, stage)
    PROVE  Comes(m, stage) /\ task'[m].chunks = task[m].chunks
<1>1. task[m] \in Tasks
  BY DEF Typing
<1>2. PICK y : y = [task[m] EXCEPT !.at = stage]
  OBVIOUS
<1>3. /\ y \in Tasks /\ y.at = stage /\ y.rep = task[m].rep /\ y.conv = task[m].conv /\ y.chunks = task[m].chunks
      /\ y.by = task[m].by
  BY <1>1, <1>2 DEF Tasks
<1>4. task' = [task EXCEPT ![m] = y]
  BY <1>2 DEF Advance, Typing
<1> QED BY <1>3, <1>4 DEF Typing, OtherTasks, Comes

(* The stages that change more than the stage of a message.                *)
LEMMA StageSteps ==
    ASSUME Typing, NEW m \in Messages
    PROVE  /\ BroadcastMessage(m) => Comes(m, "ask") /\ task'[m].chunks = task[m].chunks
           /\ SaveFails(m) => Comes(m, "failed") /\ task'[m].chunks = task[m].chunks
           /\ LoadHistory(m) =>
                /\ Comes(m, "error") \/ (Comes(m, "stream") /\ task[m].conv = conv /\ task'[m].knows = saved)
                /\ task'[m].chunks = task[m].chunks
           /\ StreamChunk(m) =>
                Comes(m, "stream") /\ task'[m].chunks = task[m].chunks + 1 /\ task'[m].knows = task[m].knows
           /\ StreamEnds(m) =>
                /\ Comes(m, "done") \/ (Comes(m, "keep") /\ task[m].chunks > 0)
                /\ task'[m].chunks = task[m].chunks
           /\ StreamFails(m) => Comes(m, "error") /\ task'[m].chunks = 0
<1>1. task[m] \in Tasks /\ {"failed", "ask", "stream", "error", "done", "keep"} \subseteq Stages
  BY DEF Typing, Stages
<1>2. ASSUME NEW a \in {"ask", "failed"}, task' = [task EXCEPT ![m].at = a, ![m].by = None]
      PROVE  Comes(m, a) /\ task'[m].chunks = task[m].chunks
  <2>1. PICK y, z : y = [task[m] EXCEPT !.at = a] /\ z = [y EXCEPT !.by = None]
    OBVIOUS
  <2>2. y \in Tasks /\ y.at = a /\ y.rep = task[m].rep /\ y.conv = task[m].conv /\ y.chunks = task[m].chunks
    BY <2>1, <1>1 DEF Tasks
  <2>3. /\ z \in Tasks /\ z.at = a /\ z.rep = task[m].rep /\ z.conv = task[m].conv /\ z.chunks = task[m].chunks
        /\ z.by = None
    BY <2>1, <2>2 DEF Tasks
  <2>4. task' = [task EXCEPT ![m] = z]
    BY <1>2, <2>1 DEF Typing
  <2> QED BY <2>3, <2>4 DEF Typing, OtherTasks, Comes
<1>3. ASSUME LoadHistory(m)
      PROVE  /\ Comes(m, "error") \/ (Comes(m, "stream") /\ task[m].conv = conv /\ task'[m].knows = saved)
             /\ task'[m].chunks = task[m].chunks
  <2>1. CASE Advance(m, "error")
    BY <2>1, <1>1, AdvanceLaws
  <2>2. CASE task[m].conv = conv /\ task' = [task EXCEPT ![m].at = "stream", ![m].knows = saved]
    <3>1. PICK y, z : y = [task[m] EXCEPT !.at = "stream"] /\ z = [y EXCEPT !.knows = saved]
      OBVIOUS
    <3>2. /\ y \in Tasks /\ y.at = "stream" /\ y.rep = task[m].rep /\ y.conv = task[m].conv /\ y.chunks = task[m].chunks
          /\ y.by = task[m].by
      BY <3>1, <1>1 DEF Tasks
    <3>3. /\ z \in Tasks /\ z.at = "stream" /\ z.rep = task[m].rep /\ z.conv = task[m].conv /\ z.chunks = task[m].chunks
          /\ z.by = task[m].by /\ z.knows = saved
      BY <3>1, <3>2 DEF Tasks, Typing
    <3>4. task' = [task EXCEPT ![m] = z]
      BY <2>2, <3>1 DEF Typing
    <3> QED BY <2>2, <3>3, <3>4 DEF Typing, OtherTasks, Comes
  <2> QED BY <1>3, <2>1, <2>2 DEF LoadHistory
<1>4. ASSUME StreamChunk(m)
      PROVE  Comes(m, "stream") /\ task'[m].chunks = task[m].chunks + 1 /\ task'[m].knows = task[m].knows
  <2>1. PICK y : y = [task[m] EXCEPT !.chunks = task[m].chunks + 1]
    OBVIOUS
  <2>2. task[m].at = "stream" /\ task[m].chunks + 1 \in 0..MaxChunks
    BY <1>4, <1>1, ChatAssumption DEF StreamChunk, Tasks
  <2>3. /\ y \in Tasks /\ y.at = "stream" /\ y.rep = task[m].rep /\ y.conv = task[m].conv
        /\ y.chunks = task[m].chunks + 1 /\ y.by = task[m].by /\ y.knows = task[m].knows
    BY <2>1, <2>2, <1>1 DEF Tasks
  <2>4. task' = [task EXCEPT ![m] = y]
    BY <1>4, <2>1 DEF StreamChunk, Typing
  <2> QED BY <2>3, <2>4 DEF Typing, OtherTasks, Comes
<1>5. ASSUME StreamEnds(m)
      PROVE  /\ Comes(m, "done") \/ (Comes(m, "keep") /\ task[m].chunks > 0)
             /\ task'[m].chunks = task[m].chunks
  <2>1. PICK a, y, z : /\ a = IF task[m].chunks > 0 THEN "keep" ELSE "done"
                       /\ y = [task[m] EXCEPT !.at = a] /\ z = [y EXCEPT !.knows = {}]
    OBVIOUS
  <2>2. a \in {"keep", "done"} /\ (a = "keep" => task[m].chunks > 0)
    BY <2>1
  <2>3. /\ y \in Tasks /\ y.at = a /\ y.rep = task[m].rep /\ y.conv = task[m].conv /\ y.chunks = task[m].chunks
        /\ y.by = task[m].by
    BY <2>1, <2>2, <1>1 DEF Tasks, Stages
  <2>4. /\ z \in Tasks /\ z.at = a /\ z.rep = task[m].rep /\ z.conv = task[m].conv /\ z.chunks = task[m].chunks
        /\ z.by = task[m].by
    BY <2>1, <2>3 DEF Tasks
  <2>5. task' = [task EXCEPT ![m] = z]
    BY <1>5, <2>1 DEF StreamEnds, Typing
  <2> QED BY <2>2, <2>4, <2>5 DEF Typing, OtherTasks, Comes
<1>6. ASSUME StreamFails(m) PROVE Comes(m, "error") /\ task'[m].chunks = 0
  <2>1. PICK x, y, z : /\ x = [task[m] EXCEPT !.at = "error"] /\ y = [x EXCEPT !.chunks = 0]
                       /\ z = [y EXCEPT !.knows = {}]
    OBVIOUS
  <2>2. x \in Tasks /\ x.at = "error" /\ x.rep = task[m].rep /\ x.conv = task[m].conv /\ x.by = task[m].by
    BY <2>1, <1>1 DEF Tasks
  <2>3. /\ y \in Tasks /\ y.at = "error" /\ y.rep = task[m].rep /\ y.conv = task[m].conv /\ y.by = task[m].by
        /\ y.chunks = 0
    <3>1. PICK n : n = 0
      OBVIOUS
    <3>2. n \in 0..MaxChunks
      BY <3>1, ChatAssumption
    <3>3. y = [x EXCEPT !.chunks = n]
      BY <2>1, <3>1
    <3>4. /\ y \in Tasks /\ y.at = "error" /\ y.rep = task[m].rep /\ y.conv = task[m].conv /\ y.by = task[m].by
          /\ y.chunks = n
      BY <2>2, <3>2, <3>3 DEF Tasks
    <3> QED BY <3>1, <3>4
  <2>4. /\ z \in Tasks /\ z.at = "error" /\ z.rep = task[m].rep /\ z.conv = task[m].conv /\ z.by = task[m].by
        /\ z.chunks = 0
    BY <2>1, <2>3 DEF Tasks
  <2>5. task' = [task EXCEPT ![m] = z]
    BY <1>6, <2>1 DEF StreamFails, Typing
  <2> QED BY <2>4, <2>5 DEF Typing, OtherTasks, Comes
<1>7. BroadcastMessage(m) => Comes(m, "ask") /\ task'[m].chunks = task[m].chunks
  BY <1>2 DEF BroadcastMessage
<1>8. SaveFails(m) => Comes(m, "failed") /\ task'[m].chunks = task[m].chunks
  BY <1>2 DEF SaveFails
<1> QED BY <1>3, <1>4, <1>5, <1>6, <1>7, <1>8

(* A step of message m that broadcasts frame f in the room of its replica. *)
Room(m) == {c \in Clients : InRoom(c, Home(m))}
Speaks(m, f) ==
    /\ f \in Frames /\ Queues(Room(m), f) /\ UNCHANGED <<conv, saved, partly>>
    /\ \A c \in Clients : Stays(c)
    /\ crossed' \in [Clients -> SUBSET Messages]
    /\ \A c \in Clients \ lossy' : crossed[c] \subseteq crossed'[c]

LEMMA SpeakingSteps ==
    ASSUME Typing, NEW m \in Messages
    PROVE  /\ BroadcastMessage(m) =>
                /\ Speaks(m, Frame("message", m))
                /\ \A c \in Clients \ lossy' : (HasOldHistory(c) /\ m \in saved) => m \in crossed'[c]
           /\ AcquireAILock(m) =>
                Speaks(m, Frame("typing", None)) /\ Comes(m, "load") /\ task'[m].chunks = task[m].chunks
           /\ StreamChunk(m) =>
                /\ Piece(m, task[m].chunks + 1) \in Pieces /\ Speaks(m, Frame("chunk", Piece(m, task[m].chunks + 1)))
           /\ BroadcastDone(m) =>
                /\ Speaks(m, Frame(task[m].at, m)) /\ task'[m].chunks = task[m].chunks
                /\ \/ task[m].at = "done" /\ Comes(m, "answered")
                   \/ task[m].at = "error" /\ Comes(m, "failed")
<1>0. {} \in SUBSET Messages /\ {m} \cap saved \in SUBSET Messages /\ {"load", "failed", "answered"} \subseteq Stages
  BY DEF Stages
<1>1. ASSUME BroadcastMessage(m)
      PROVE  /\ Speaks(m, Frame("message", m))
             /\ \A c \in Clients \ lossy' : (HasOldHistory(c) /\ m \in saved) => m \in crossed'[c]
  <2>1. Broadcast(Home(m), Frame("message", m), {m} \cap saved) /\ UNCHANGED <<conv, saved>> /\ Frame("message", m) \in Frames
    BY <1>1, FrameLaws DEF BroadcastMessage
  <2>2. /\ Speaks(m, Frame("message", m))
        /\ \A c \in Clients \ lossy' : HasOldHistory(c) => {m} \cap saved \subseteq crossed'[c]
    BY <1>0, <2>1, BroadcastLaws DEF Speaks, Room
  <2> QED BY <2>2
<1>2. ASSUME AcquireAILock(m)
      PROVE  Speaks(m, Frame("typing", None)) /\ Comes(m, "load") /\ task'[m].chunks = task[m].chunks
  <2>1. /\ Broadcast(Home(m), Frame("typing", None), {}) /\ Advance(m, "load") /\ UNCHANGED <<conv, saved>>
        /\ Frame("typing", None) \in Frames
    BY <1>2, FrameLaws DEF AcquireAILock
  <2>2. Speaks(m, Frame("typing", None))
    BY <1>0, <2>1, BroadcastLaws DEF Speaks, Room
  <2> QED BY <1>0, <2>1, <2>2, AdvanceLaws
<1>3. ASSUME StreamChunk(m)
      PROVE  /\ Piece(m, task[m].chunks + 1) \in Pieces /\ Speaks(m, Frame("chunk", Piece(m, task[m].chunks + 1)))
  <2>1. PICK x : x = Piece(m, task[m].chunks + 1)
    OBVIOUS
  <2>2. x \in Pieces
    <3>1. task[m].chunks + 1 \in 1..MaxChunks
      BY <1>3, ChatAssumption DEF StreamChunk, Typing, Tasks
    <3> QED BY <2>1, <3>1 DEF Pieces
  <2>3. Broadcast(Home(m), Frame("chunk", x), {}) /\ UNCHANGED <<conv, saved>> /\ Frame("chunk", x) \in Frames
    BY <1>3, <2>1, <2>2, FrameLaws DEF StreamChunk
  <2>4. Speaks(m, Frame("chunk", x))
    BY <1>0, <2>3, BroadcastLaws DEF Speaks, Room
  <2> QED BY <2>1, <2>2, <2>4
<1>4. ASSUME BroadcastDone(m)
      PROVE  /\ Speaks(m, Frame(task[m].at, m)) /\ task'[m].chunks = task[m].chunks
             /\ \/ task[m].at = "done" /\ Comes(m, "answered")
                \/ task[m].at = "error" /\ Comes(m, "failed")
  <2>1. Broadcast(Home(m), Frame(task[m].at, m), {}) /\ UNCHANGED <<conv, saved>> /\ task[m].at \in {"done", "error"}
    BY <1>4 DEF BroadcastDone
  <2>2. Frame(task[m].at, m) \in Frames
    BY <2>1, FrameLaws
  <2>3. Speaks(m, Frame(task[m].at, m))
    BY <1>0, <2>1, <2>2, BroadcastLaws DEF Speaks, Room
  <2>4. PICK stage : stage = IF task[m].at = "error" THEN "failed" ELSE "answered"
    OBVIOUS
  <2>5. Advance(m, stage) /\ stage \in Stages
    BY <1>0, <1>4, <2>4 DEF BroadcastDone, Released, Advance, Typing
  <2>6. Comes(m, stage) /\ task'[m].chunks = task[m].chunks
    BY <2>5, AdvanceLaws
  <2> QED BY <2>1, <2>3, <2>4, <2>6
<1> QED BY <1>1, <1>2, <1>3, <1>4

(* A step that sends an error to c alone.                                  *)
Tells(c, f) ==
    /\ f \in Frames /\ f.kind = "error" /\ Queues({c}, f) /\ Others(c) /\ Breaks(c)
    /\ UNCHANGED <<conv, saved, crossed>>

(* The steps of a message that send nothing, except to its sender.         *)
LEMMA SilentSteps ==
    ASSUME Base, NEW m \in Messages
    PROVE  /\ SaveMessage(m) =>
                /\ UNCHANGED <<conv, client, page, crossed, partly, lossy>> /\ task[m].conv = conv
                /\ saved' = saved \cup {m} /\ Comes(m, "send") /\ task'[m].chunks = task[m].chunks
           /\ SaveFails(m) => task[m].by \in Clients /\ Tells(task[m].by, Frame("error", m)) /\ Stays(task[m].by)
           /\ SaveAnswer(m) =>
                /\ UNCHANGED <<conv, client, page, crossed, partly, lossy>>
                /\ Comes(m, "done") /\ task'[m].chunks = task[m].chunks
                /\ saved' = saved \/ (task[m].conv = conv /\ saved' = saved \cup {Answer(m)})
           /\ LoadHistory(m) \/ StreamEnds(m) \/ StreamFails(m) =>
                UNCHANGED <<conv, saved, client, page, crossed, partly, lossy>>
<1>0. Typing /\ {"send", "done"} \subseteq Stages
  BY DEF Base, Stages
<1>1. SaveMessage(m) =>
                /\ UNCHANGED <<conv, client, page, crossed, partly, lossy>> /\ task[m].conv = conv
                /\ saved' = saved \cup {m} /\ Comes(m, "send") /\ task'[m].chunks = task[m].chunks
  BY <1>0, AdvanceLaws DEF SaveMessage
<1>2. ASSUME SaveFails(m)
      PROVE  task[m].by \in Clients /\ Tells(task[m].by, Frame("error", m)) /\ Stays(task[m].by)
  <2>1. PICK c : c = task[m].by
    OBVIOUS
  <2>2. /\ c \in Clients /\ SendTo(c, client[c], Frame("error", m)) /\ Breaks(c)
        /\ UNCHANGED <<conv, saved, crossed>>
    BY <1>2, <2>1 DEF SaveFails, Base, Senders
  <2>3. Frame("error", m) \in Frames /\ Frame("error", m).kind = "error" /\ client[c] \in ClientRows
    BY <1>0, <2>2, FrameLaws DEF Typing
  <2>4. Queues({c}, Frame("error", m)) /\ Others(c) /\ Stays(c)
    BY <1>0, <2>2, <2>3, SendToLaws DEF Stays
  <2> QED BY <2>1, <2>2, <2>3, <2>4 DEF Tells
<1>3. SaveAnswer(m) =>
                /\ UNCHANGED <<conv, client, page, crossed, partly, lossy>>
                /\ Comes(m, "done") /\ task'[m].chunks = task[m].chunks
                /\ saved' = saved \/ (task[m].conv = conv /\ saved' = saved \cup {Answer(m)})
  BY <1>0, AdvanceLaws DEF SaveAnswer
<1>4. LoadHistory(m) \/ StreamEnds(m) \/ StreamFails(m) =>
                UNCHANGED <<conv, saved, client, page, crossed, partly, lossy>>
  BY DEF LoadHistory, StreamEnds, StreamFails
<1> QED BY <1>1, <1>2, <1>3, <1>4

LEMMA SendingSteps ==
    ASSUME Typing, NEW c \in Clients, NEW m \in Messages, SendMessage(c, m)
    PROVE  /\ task' \in [Messages -> Tasks] /\ OtherTasks(m)
           /\ task[m].at = "unsent" /\ task'[m].at = "save" /\ task'[m].by = c
           /\ task'[m].chunks = task[m].chunks /\ task'[m].conv = conv
           /\ UNCHANGED <<conv, saved, client, page, crossed, partly, lossy>>
<1>1. task[m] \in Tasks /\ client[c] \in ClientRows
  BY DEF Typing
<1>2. PICK w, x, y, z : /\ w = [task[m] EXCEPT !.at = "save"] /\ x = [w EXCEPT !.by = c]
                        /\ y = [x EXCEPT !.rep = client[c].rep] /\ z = [y EXCEPT !.conv = conv]
  OBVIOUS
<1>3. w \in Tasks /\ w.at = "save" /\ w.chunks = task[m].chunks
  BY <1>1, <1>2 DEF Tasks, Stages
<1>4. x \in Tasks /\ x.at = "save" /\ x.by = c /\ x.chunks = task[m].chunks
  BY <1>2, <1>3 DEF Tasks
<1>5. y \in Tasks /\ y.at = "save" /\ y.by = c /\ y.chunks = task[m].chunks
  BY <1>1, <1>2, <1>4 DEF Tasks, ClientRows
<1>6. z \in Tasks /\ z.at = "save" /\ z.by = c /\ z.chunks = task[m].chunks /\ z.conv = conv
  BY <1>2, <1>5 DEF Tasks, Typing
<1>7. task' = [task EXCEPT ![m] = z]
  BY <1>2 DEF SendMessage, Typing
<1> QED BY <1>6, <1>7 DEF Typing, OtherTasks, SendMessage

LEMMA DyingSteps ==
    ASSUME Typing, NEW rep \in Replicas, Dies(rep)
    PROVE  /\ task' \in [Messages -> Tasks] /\ UNCHANGED <<conv, saved>>
           /\ \A m \in Messages :
                 \/ task'[m] = task[m]
                 \/ /\ Home(m) = rep /\ task[m].at \notin {"failed", "answered", "cut"}
                    /\ task'[m].at = "cut" /\ task'[m].rep = task[m].rep /\ task'[m].conv = task[m].conv
                    /\ task'[m].chunks = IF task[m].at = "done" THEN task[m].chunks ELSE 0
<1>1. ASSUME NEW m \in Messages
      PROVE  /\ task'[m] \in Tasks
             /\ \/ task'[m] = task[m]
                \/ /\ Home(m) = rep /\ task[m].at \notin {"failed", "answered", "cut"}
                   /\ task'[m].at = "cut" /\ task'[m].rep = task[m].rep /\ task'[m].conv = task[m].conv
                   /\ task'[m].chunks = IF task[m].at = "done" THEN task[m].chunks ELSE 0
  <2>1. PICK n, w, x, y, z : /\ n = IF task[m].at = "done" THEN task[m].chunks ELSE 0
                             /\ w = [task[m] EXCEPT !.at = "cut"] /\ x = [w EXCEPT !.by = None]
                             /\ y = [x EXCEPT !.knows = {}] /\ z = [y EXCEPT !.chunks = n]
    OBVIOUS
  <2>2. task[m] \in Tasks /\ n \in 0..MaxChunks
    BY <2>1, ChatAssumption DEF Typing, Tasks
  <2>3. w \in Tasks /\ w.at = "cut" /\ w.rep = task[m].rep /\ w.conv = task[m].conv
    BY <2>1, <2>2 DEF Tasks, Stages
  <2>4. x \in Tasks /\ x.at = "cut" /\ x.rep = task[m].rep /\ x.conv = task[m].conv
    BY <2>1, <2>3 DEF Tasks
  <2>5. y \in Tasks /\ y.at = "cut" /\ y.rep = task[m].rep /\ y.conv = task[m].conv
    BY <2>1, <2>4 DEF Tasks
  <2>6. z \in Tasks /\ z.at = "cut" /\ z.rep = task[m].rep /\ z.conv = task[m].conv /\ z.chunks = n
    BY <2>1, <2>2, <2>5 DEF Tasks
  <2>7. z = [task[m] EXCEPT !.at = "cut", !.by = None, !.knows = {}, !.chunks = n]
    BY <2>1, <2>2 DEF Tasks
  <2>8. task'[m] = IF Home(m) = rep /\ task[m].at \notin {"failed", "answered", "cut"} THEN z ELSE task[m]
    BY <2>1, <2>2, <2>7 DEF Dies, Tasks
  <2> QED BY <2>1, <2>2, <2>6, <2>8
<1>2. task' = [m \in Messages |-> task'[m]]
  BY DEF Dies
<1> QED BY <1>1, <1>2 DEF Dies

-----------------------------------------------------------------------------
(* Types.                                                                  *)

LEMMA BaseInit == Init => Base
<1> SUFFICES ASSUME Init PROVE Base
  OBVIOUS
<1>1. conv = 0 /\ saved = {} /\ lossy = {} /\ 0 \in 0..1 /\ {} \in SUBSET Entries /\ << >> \in Seq(Frames) /\ Len(<< >>) = 0
  BY DEF Init
<1>2. PICK home \in [Present -> Replicas] :
        client = [c \in Clients |->
                    [at |-> IF c \in Present THEN "on" ELSE "off", rep |-> IF c \in Present THEN home[c] ELSE None,
                     room |-> c \in Present, frames |-> << >>, conv |-> 0, history |-> {}]]
  BY DEF Init
<1>3. ASSUME NEW c \in Clients
      PROVE  /\ client[c] \in ClientRows /\ Len(client[c].frames) <= Buffer /\ client[c].conv <= conv
             /\ client[c].room => Watching(c)
  <2>1. PICK at, rep, room, x :
          /\ at = IF c \in Present THEN "on" ELSE "off"
          /\ rep = IF c \in Present THEN home[c] ELSE None
          /\ room = (c \in Present)
          /\ x = [at |-> at, rep |-> rep, room |-> room, frames |-> << >>, conv |-> 0, history |-> {}]
    OBVIOUS
  <2>2. at \in Ats /\ rep \in Replicas \cup {None} /\ room \in BOOLEAN /\ (room => at = "on")
    <3>1. CASE c \in Present
      <4>1. home[c] \in Replicas /\ at = "on" /\ rep = home[c] /\ (c \in Present) \in BOOLEAN
        BY <2>1, <1>2, <3>1
      <4> QED BY <2>1, <4>1 DEF Ats
    <3>2. CASE c \notin Present
      <4>1. at = "off" /\ rep = None
        BY <2>1, <3>2
      <4>2. (c \in Present) = FALSE
        BY <3>2
      <4>3. room = FALSE
        BY <2>1, <4>2
      <4> QED BY <4>1, <4>3 DEF Ats
    <3> QED BY <3>1, <3>2
  <2>3. /\ x \in ClientRows /\ x.frames = << >> /\ x.conv = 0 /\ x.room = room /\ x.at = at
    BY <1>1, <2>1, <2>2 DEF ClientRows
  <2>4. client[c] = x
    BY <1>2, <2>1
  <2>5. 0 <= Buffer /\ 0 <= 0
    BY ChatAssumption
  <2> QED BY <1>1, <2>2, <2>3, <2>4, <2>5 DEF Watching
<1>4. client \in [Clients -> ClientRows]
  BY <1>2, <1>3
<1>5. ASSUME NEW m \in Messages PROVE task[m] \in Tasks /\ task[m].conv <= conv /\ task[m].at = "unsent"
  <2>1. PICK x : x = [at |-> "unsent", by |-> None, rep |-> None, conv |-> 0, knows |-> {}, chunks |-> 0]
    OBVIOUS
  <2>2. x \in Tasks /\ x.conv = 0 /\ x.at = "unsent"
    BY <1>1, <2>1, ChatAssumption DEF Tasks, Stages
  <2>3. task[m] = x
    BY <2>1 DEF Init
  <2> QED BY <1>1, <2>2, <2>3
<1>6. task \in [Messages -> Tasks]
  BY <1>5 DEF Init
<1>7. page \in [Clients -> Pages] /\ crossed \in [Clients -> SUBSET Messages] /\ partly \in [Clients -> SUBSET Messages]
  BY BlankLaws DEF Init
<1> QED BY <1>1, <1>3, <1>4, <1>5, <1>6, <1>7 DEF Base, Typing, Senders

(* What never changes of a message, an answer and the conversation.        *)
Given == {"done", "answered", "cut"}
Steady ==
    /\ \A m \in Messages :
          /\ task[m].at # "unsent" =>
                task'[m].at # "unsent" /\ task'[m].rep = task[m].rep /\ task'[m].conv = task[m].conv
          /\ task[m].at \in Given => task'[m].at \in Given /\ task'[m].chunks = task[m].chunks
    /\ (conv' = conv /\ saved \subseteq saved') \/ (conv = 0 /\ conv' = 1 /\ saved' = {})

(* The connections, after a step.                                          *)
Seated(c) ==
    /\ Len(client[c].frames) <= Buffer /\ client[c].conv <= conv
    /\ client[c].room => Watching(c)

LEMMA OneConnection ==
    ASSUME Base, NEW c \in Clients, client' \in [Clients -> ClientRows], Others(c), Seated(c)',
           UNCHANGED <<conv, saved, task>>,
           page' \in [Clients -> Pages], lossy' \subseteq Clients,
           crossed' \in [Clients -> SUBSET Messages], partly' \in [Clients -> SUBSET Messages]
    PROVE  Base' /\ Steady
<1>1. \A b \in Clients : Seated(b)'
  BY DEF Base, Typing, Seated, Others, Watching
<1>2. Typing'
  BY <1>1 DEF Base, Typing, Seated
<1> QED BY <1>2 DEF Base, Senders, Steady

LEMMA OneMessage ==
    ASSUME Base, NEW m \in Messages, task' \in [Messages -> Tasks], OtherTasks(m), task'[m].conv <= conv,
           task'[m].at = "save" => task'[m].by \in Clients,
           task[m].at # "unsent" => task'[m].at # "unsent" /\ task'[m].rep = task[m].rep /\ task'[m].conv = task[m].conv,
           task[m].at \in Given => task'[m].at \in Given /\ task'[m].chunks = task[m].chunks,
           conv' = conv, saved \subseteq saved', saved' \subseteq Entries,
           client' \in [Clients -> ClientRows], \A c \in Clients : Seated(c)',
           page' \in [Clients -> Pages], lossy' \subseteq Clients,
           crossed' \in [Clients -> SUBSET Messages], partly' \in [Clients -> SUBSET Messages]
    PROVE  Base' /\ Steady
<1>1. \A n \in Messages : task'[n].conv <= conv
  BY DEF Base, Typing, OtherTasks
<1>2. Typing'
  BY <1>1 DEF Base, Typing, Seated
<1>3. Senders'
  BY DEF Base, Senders, OtherTasks
<1>4. Steady
  BY DEF Steady, OtherTasks
<1> QED BY <1>2, <1>3, <1>4 DEF Base

LEMMA SeatedLaws ==
    ASSUME Typing
    PROVE  /\ \A c \in Clients : Seated(c)
           /\ UNCHANGED <<conv, client>> => \A c \in Clients : Seated(c)'
           /\ \A c \in Clients : \A f : (Queues({c}, f) /\ Others(c) /\ Stays(c) /\ conv' = conv) => \A b \in Clients : Seated(b)'
           /\ \A S, f : (Queues(S, f) /\ (\A c \in Clients : Stays(c)) /\ conv' = conv) => \A b \in Clients : Seated(b)'
<1>1. \A c \in Clients : Seated(c)
  BY DEF Typing, Seated
<1>2. UNCHANGED <<conv, client>> => \A c \in Clients : Seated(c)'
  BY <1>1 DEF Seated, Watching
<1>3. ASSUME NEW c \in Clients, NEW f, Queues({c}, f), Others(c), Stays(c), conv' = conv, NEW b \in Clients
      PROVE  Seated(b)'
  BY <1>1, <1>3 DEF Seated, Watching, Queues, Others, Stays
<1>4. ASSUME NEW S, NEW f, Queues(S, f), \A c \in Clients : Stays(c), conv' = conv, NEW b \in Clients
      PROVE  Seated(b)'
  BY <1>1, <1>4 DEF Seated, Watching, Queues, Stays
<1> QED BY <1>1, <1>2, <1>3, <1>4

(* A step of a message that broadcasts, and one that sends nothing.        *)
LEMMA MessageComes ==
    ASSUME Base, NEW m \in Messages, NEW stage \in Stages \ {"unsent", "save"}, Comes(m, stage), task[m].at # "unsent",
           task[m].at \in Given => stage \in Given /\ task'[m].chunks = task[m].chunks,
           \/ \E f : Speaks(m, f)
           \/ /\ UNCHANGED <<conv, client, page, crossed, partly, lossy>>
              /\ saved \subseteq saved' /\ saved' \subseteq Entries
           \/ \E f : \E c \in Clients : Tells(c, f) /\ Stays(c)
    PROVE  Base' /\ Steady
<1>1. /\ task' \in [Messages -> Tasks] /\ OtherTasks(m) /\ task'[m].conv <= conv
      /\ task'[m].at # "save" /\ task'[m].at # "unsent" /\ task'[m].rep = task[m].rep /\ task'[m].conv = task[m].conv
      /\ task[m].at \in Given => task'[m].at \in Given /\ task'[m].chunks = task[m].chunks
  BY DEF Comes, Base, Typing
<1>2. CASE \E f : Speaks(m, f)
  <2>1. /\ conv' = conv /\ saved' = saved /\ partly' = partly
        /\ client' \in [Clients -> ClientRows] /\ page' \in [Clients -> Pages] /\ lossy' \subseteq Clients
        /\ crossed' \in [Clients -> SUBSET Messages] /\ \A c \in Clients : Seated(c)'
    <3>1. PICK f : Speaks(m, f)
      BY <1>2
    <3>2. PICK S : S = Room(m)
      OBVIOUS
    <3>3. /\ Queues(S, f) /\ UNCHANGED <<conv, saved, partly>> /\ \A c \in Clients : Stays(c)
          /\ crossed' \in [Clients -> SUBSET Messages]
      BY <3>1, <3>2 DEF Speaks
    <3>4. \A c \in Clients : Seated(c)'
      BY <3>3, SeatedLaws DEF Base
    <3> QED BY <3>3, <3>4 DEF Queues
  <2> QED BY <1>1, <2>1, OneMessage DEF Base, Typing
<1>3. CASE /\ UNCHANGED <<conv, client, page, crossed, partly, lossy>>
           /\ saved \subseteq saved' /\ saved' \subseteq Entries
  <2>1. \A c \in Clients : Seated(c)'
    BY <1>3, SeatedLaws DEF Base
  <2> QED BY <1>1, <1>3, <2>1, OneMessage DEF Base, Typing
<1>4. CASE \E f : \E c \in Clients : Tells(c, f) /\ Stays(c)
  <2>1. PICK f : \E c \in Clients : Tells(c, f) /\ Stays(c)
    BY <1>4
  <2>2. PICK c \in Clients : Tells(c, f) /\ Stays(c)
    BY <2>1
  <2>3. /\ conv' = conv /\ saved' = saved /\ crossed' = crossed
        /\ client' \in [Clients -> ClientRows] /\ page' \in [Clients -> Pages] /\ lossy' \subseteq Clients
        /\ partly' \in [Clients -> SUBSET Messages] /\ \A b \in Clients : Seated(b)'
    BY <2>2, SeatedLaws, BreaksLaws DEF Tells, Queues, Base
  <2> QED BY <1>1, <2>3, OneMessage DEF Base, Typing
<1> QED BY <1>2, <1>3, <1>4

LEMMA ConnectionBase ==
    ASSUME Base, NEW c \in Clients,
           \/ \E rep \in Replicas : HandleWebSocket(c, rep)
           \/ AddToRoom(c) \/ FetchConversation(c) \/ ListHistory(c) \/ SendHistory(c) \/ LoadFails(c)
           \/ Deliver(c) \/ Disconnect(c)
    PROVE  Base' /\ Steady
<1>0. Typing /\ Seated(c) /\ conv <= conv
  BY SeatedLaws DEF Base, Typing
<1>1. ASSUME NEW rep \in Replicas, HandleWebSocket(c, rep) PROVE Base' /\ Steady
  <2>1. /\ client' \in [Clients -> ClientRows] /\ Others(c) /\ UNCHANGED <<conv, saved, task, page, crossed, partly, lossy>>
    BY <1>0, <1>1, ConnectionSteps DEF HandleWebSocket
  <2>2. Seated(c)'
    BY <1>0, <1>1, <2>1, ConnectionSteps DEF Seated, Watching
  <2> QED BY <1>0, <2>1, <2>2, OneConnection DEF Typing
<1>2. ASSUME AddToRoom(c) PROVE Base' /\ Steady
  <2>1. /\ client' \in [Clients -> ClientRows] /\ Others(c) /\ UNCHANGED <<conv, saved, task, page, crossed, lossy>>
        /\ partly' \in [Clients -> SUBSET Messages]
    BY <1>0, <1>2, ConnectionSteps, BreaksLaws DEF AddToRoom
  <2>2. Seated(c)'
    BY <1>0, <1>2, <2>1, ConnectionSteps DEF Seated, Watching, AddToRoom, Stays
  <2> QED BY <1>0, <2>1, <2>2, OneConnection DEF Typing
<1>3. ASSUME FetchConversation(c) PROVE Base' /\ Steady
  <2>1. /\ client' \in [Clients -> ClientRows] /\ Others(c) /\ UNCHANGED <<conv, saved, task, page, crossed, partly, lossy>>
    BY <1>0, <1>3, ConnectionSteps DEF FetchConversation
  <2>2. Seated(c)'
    BY <1>0, <1>3, <2>1, ConnectionSteps DEF Seated, Watching
  <2> QED BY <1>0, <2>1, <2>2, OneConnection DEF Typing
<1>4. ASSUME ListHistory(c) PROVE Base' /\ Steady
  <2>1. /\ client' \in [Clients -> ClientRows] /\ Others(c) /\ UNCHANGED <<conv, saved, task, page, crossed, partly, lossy>>
    BY <1>0, <1>4, ConnectionSteps DEF ListHistory
  <2>2. Seated(c)'
    BY <1>0, <1>4, <2>1, ConnectionSteps DEF Seated, Watching
  <2> QED BY <1>0, <2>1, <2>2, OneConnection DEF Typing
<1>5. ASSUME SendHistory(c) \/ LoadFails(c) PROVE Base' /\ Steady
  <2>1. PICK f : Queues({c}, f) /\ Others(c) /\ client'[c].at = "on" /\ client'[c].conv = 0
    BY <1>0, <1>5, HistorySteps
  <2>2. UNCHANGED <<conv, saved, task, crossed>> /\ partly' \in [Clients -> SUBSET Messages]
    BY <1>0, <1>5, BreaksLaws DEF SendHistory, LoadFails, Typing
  <2>3. client' \in [Clients -> ClientRows] /\ page' \in [Clients -> Pages] /\ lossy' \subseteq Clients
    BY <2>1 DEF Queues
  <2>4. Seated(c)'
    BY <1>0, <2>1, <2>2 DEF Seated, Watching, Queues, Typing
  <2> QED BY <1>0, <2>1, <2>2, <2>3, <2>4, OneConnection DEF Typing
<1>6. ASSUME Deliver(c) PROVE Base' /\ Steady
  <2>1. /\ client' \in [Clients -> ClientRows] /\ page' \in [Clients -> Pages] /\ Others(c) /\ Stays(c)
        /\ UNCHANGED <<conv, saved, task, crossed, partly, lossy>>
    BY <1>0, <1>6, DeliverSteps DEF Deliver
  <2>2. Seated(c)'
    BY <1>0, <1>6, <2>1, DeliverSteps DEF Seated, Watching, Stays
  <2> QED BY <1>0, <2>1, <2>2, OneConnection DEF Typing
<1>7. ASSUME Disconnect(c) PROVE Base' /\ Steady
  <2>1. Over({c}) /\ {c} \in SUBSET Clients /\ UNCHANGED <<conv, saved, task>>
    BY <1>7 DEF Disconnect
  <2>2. /\ client' \in [Clients -> ClientRows] /\ page' \in [Clients -> Pages] /\ Others(c) /\ lossy' = lossy \ {c}
        /\ crossed' \in [Clients -> SUBSET Messages] /\ partly' \in [Clients -> SUBSET Messages]
        /\ client'[c].frames = << >> /\ ~client'[c].room /\ client'[c].conv = client[c].conv
    BY <1>0, <2>1, OverLaws DEF Others
  <2>3. Len(<< >>) <= Buffer
    BY ChatAssumption
  <2>4. Seated(c)'
    BY <1>0, <2>1, <2>2, <2>3 DEF Seated
  <2> QED BY <1>0, <2>1, <2>2, <2>4, OneConnection DEF Typing
<1> QED BY <1>1, <1>2, <1>3, <1>4, <1>5, <1>6, <1>7

LEMMA MessageBase ==
    ASSUME Base, NEW m \in Messages, TaskStep(m) \/ ProviderStep(m)
    PROVE  Base' /\ Steady
<1>0. /\ Typing /\ {"send", "ask", "load", "stream", "keep", "done", "error", "answered", "failed"} \subseteq Stages \ {"unsent", "save"}
      /\ {m} \cup {Answer(m)} \subseteq Entries
  <2>1. Answer(m) \in Entries
    <3>1. task[m].chunks \in 0..MaxChunks
      BY DEF Base, Typing, Tasks
    <3>2. \A i \in 1..task[m].chunks : i \in 1..MaxChunks
      BY <3>1, ChatAssumption
    <3>3. Ending(m, 1) \subseteq Pieces
      BY <3>2 DEF Ending, Pieces
    <3> QED BY <3>3 DEF Answer, Answers, Entries
  <2> QED BY <2>1 DEF Base, Stages, Entries
<1>1. CASE SaveMessage(m)
  <2>1. /\ UNCHANGED <<conv, client, page, crossed, partly, lossy>> /\ saved' = saved \cup {m} /\ Comes(m, "send")
        /\ task[m].at = "save"
    BY <1>1, SilentSteps DEF SaveMessage
  <2> QED BY <1>0, <2>1, MessageComes DEF Given, Typing
<1>2. CASE SaveFails(m)
  <2>1. /\ task[m].by \in Clients /\ Tells(task[m].by, Frame("error", m)) /\ Stays(task[m].by) /\ Comes(m, "failed")
        /\ task[m].at = "save"
    BY <1>0, <1>2, SilentSteps, StageSteps DEF SaveFails
  <2> QED BY <1>0, <2>1, MessageComes DEF Given
<1>3. CASE BroadcastMessage(m)
  <2>1. Speaks(m, Frame("message", m)) /\ Comes(m, "ask") /\ task[m].at = "send"
    BY <1>0, <1>3, SpeakingSteps, StageSteps DEF BroadcastMessage
  <2> QED BY <1>0, <2>1, MessageComes DEF Given
<1>4. CASE AcquireAILock(m)
  <2>1. Speaks(m, Frame("typing", None)) /\ Comes(m, "load") /\ task[m].at = "ask"
    BY <1>0, <1>4, SpeakingSteps DEF AcquireAILock
  <2> QED BY <1>0, <2>1, MessageComes DEF Given
<1>5. CASE LoadHistory(m)
  <2>1. /\ UNCHANGED <<conv, saved, client, page, crossed, partly, lossy>> /\ task[m].at = "load"
        /\ Comes(m, "error") \/ Comes(m, "stream")
    BY <1>0, <1>5, SilentSteps, StageSteps DEF LoadHistory
  <2> QED BY <1>0, <2>1, MessageComes DEF Given, Typing
<1>6. CASE StreamChunk(m)
  <2>1. Speaks(m, Frame("chunk", Piece(m, task[m].chunks + 1))) /\ Comes(m, "stream") /\ task[m].at = "stream"
    BY <1>0, <1>6, SpeakingSteps, StageSteps DEF StreamChunk
  <2> QED BY <1>0, <2>1, MessageComes DEF Given
<1>7. CASE StreamEnds(m) \/ StreamFails(m)
  <2>1. /\ UNCHANGED <<conv, saved, client, page, crossed, partly, lossy>> /\ task[m].at = "stream"
        /\ Comes(m, "error") \/ Comes(m, "done") \/ Comes(m, "keep")
    BY <1>0, <1>7, SilentSteps, StageSteps DEF StreamEnds, StreamFails
  <2> QED BY <1>0, <2>1, MessageComes DEF Given, Typing
<1>8. CASE SaveAnswer(m)
  <2>1. /\ UNCHANGED <<conv, client, page, crossed, partly, lossy>> /\ Comes(m, "done") /\ task[m].at = "keep"
        /\ saved \subseteq saved' /\ saved' \subseteq saved \cup {Answer(m)}
    BY <1>0, <1>8, SilentSteps DEF SaveAnswer
  <2> QED BY <1>0, <2>1, MessageComes DEF Given, Typing
<1>9. CASE BroadcastDone(m)
  <2>1. PICK f, stage : Speaks(m, f) /\ task'[m].chunks = task[m].chunks /\ task[m].at \in {"done", "error"}
                        /\ Comes(m, stage) /\ stage \in {"answered", "failed"} /\ (task[m].at = "done" => stage = "answered")
    BY <1>0, <1>9, SpeakingSteps
  <2> QED BY <1>0, <2>1, MessageComes DEF Given
<1> QED BY <1>1, <1>2, <1>3, <1>4, <1>5, <1>6, <1>7, <1>8, <1>9 DEF TaskStep, ProviderStep

LEMMA BaseStep ==
    ASSUME Base, Next \/ UNCHANGED vars
    PROVE  Base' /\ Steady
<1>0. Typing /\ \A c \in Clients : Seated(c)
  BY SeatedLaws DEF Base
<1>1. ASSUME NEW c \in Clients, NEW m \in Messages, SendMessage(c, m) PROVE Base' /\ Steady
  <2>1. /\ task' \in [Messages -> Tasks] /\ OtherTasks(m) /\ task[m].at = "unsent"
        /\ task'[m].conv = conv /\ task'[m].by \in Clients
        /\ UNCHANGED <<conv, saved, client, page, crossed, partly, lossy>>
    BY <1>0, <1>1, SendingSteps
  <2>2. \A b \in Clients : Seated(b)'
    BY <1>0, <2>1, SeatedLaws
  <2>3. task'[m].conv <= conv
    BY <1>0, <2>1 DEF Typing
  <2> QED BY <1>0, <2>1, <2>2, <2>3, OneMessage DEF Given, Typing
<1>2. CASE DeleteConversation
  <2>1. /\ conv = 0 /\ conv' = 1 /\ saved' = {} /\ crossed' \in [Clients -> SUBSET Messages]
        /\ UNCHANGED <<client, page, task, partly, lossy>>
    BY <1>2 DEF DeleteConversation
  <2>2. \A x \in 0..1 : x <= conv => x <= conv'
    BY <2>1
  <2>3. \A c \in Clients : client[c].conv \in 0..1
    BY <1>0 DEF Typing, ClientRows
  <2>4. \A m \in Messages : task[m].conv \in 0..1
    BY <1>0 DEF Typing, Tasks
  <2>5. Typing'
    BY <1>0, <2>1, <2>2, <2>3, <2>4 DEF Typing, Watching
  <2> QED BY <2>1, <2>5 DEF Base, Senders, Steady
<1>3. ASSUME NEW rep \in Replicas, Dies(rep) PROVE Base' /\ Steady
  <2>1. PICK gone \in SUBSET Clients : Over(gone)
    BY <1>3 DEF Dies
  <2>2. /\ task' \in [Messages -> Tasks] /\ UNCHANGED <<conv, saved>>
        /\ \A m \in Messages :
              \/ task'[m] = task[m]
              \/ /\ task[m].at \notin {"failed", "answered", "cut"} /\ task'[m].at = "cut"
                 /\ task'[m].rep = task[m].rep /\ task'[m].conv = task[m].conv
                 /\ task'[m].chunks = IF task[m].at = "done" THEN task[m].chunks ELSE 0
    BY <1>0, <1>3, DyingSteps
  <2>3. /\ client' \in [Clients -> ClientRows] /\ page' \in [Clients -> Pages] /\ lossy' \subseteq Clients
        /\ crossed' \in [Clients -> SUBSET Messages] /\ partly' \in [Clients -> SUBSET Messages]
    BY <1>0, <2>1, OverLaws DEF Typing
  <2>4. ASSUME NEW c \in Clients PROVE Seated(c)'
    <3>1. CASE c \in gone
      <4>1. Len(<< >>) <= Buffer
        BY ChatAssumption
      <4>2. client'[c].frames = << >> /\ ~client'[c].room /\ client'[c].conv = client[c].conv
        BY <1>0, <2>1, <3>1, OverLaws
      <4> QED BY <1>0, <2>2, <4>1, <4>2 DEF Seated
    <3>2. CASE c \notin gone
      <4>1. client'[c] = client[c]
        BY <1>0, <2>1, <3>2, OverLaws
      <4> QED BY <1>0, <2>2, <4>1 DEF Seated, Watching
    <3> QED BY <3>1, <3>2
  <2>5. \A m \in Messages : task'[m].conv <= conv
    BY <1>0, <2>2 DEF Typing
  <2>6. Typing'
    BY <1>0, <2>2, <2>3, <2>4, <2>5 DEF Typing, Seated
  <2>7. Senders'
    BY <2>2 DEF Base, Senders
  <2>8. Steady
    BY <2>2 DEF Steady, Given
  <2> QED BY <2>6, <2>7, <2>8 DEF Base
<1>4. CASE UNCHANGED vars
  <2>1. Typing'
    BY <1>0, <1>4 DEF Typing, vars, Watching
  <2> QED BY <1>4, <2>1 DEF Base, Senders, Steady, vars
<1> QED BY <1>1, <1>2, <1>3, <1>4, ConnectionBase, MessageBase DEF Next

LEMMA BaseAlways == Spec => []Base
<1>1. Init => Base
  BY BaseInit
<1>2. Base /\ [Next]_vars => Base'
  BY BaseStep
<1> QED BY <1>1, <1>2, PTL DEF Spec

(* Every variable keeps its type, frames carry what their kind says, and a *)
(* buffer never holds more than it can.                                    *)
THEOREM TypeCorrect == Spec => []TypeOK
<1>1. ASSUME Base PROVE TypeOK
  <2>0. Typing
    BY <1>1 DEF Base
  <2>1. ASSUME NEW f \in Frames PROVE IsFrame(f)
    <3>1. f = Frame(f.kind, f.what) /\ f.kind \in DOMAIN Carries
      BY KindLaws DEF Kinds, Carries
    <3>2. f.what \in Carries[f.kind]
      BY KindLaws DEF Kinds, Carries
    <3> QED BY <3>1, <3>2 DEF IsFrame
  <2>2. ASSUME NEW c \in Clients
        PROVE  /\ client[c].at \in Ats /\ Len(client[c].frames) <= Buffer /\ client[c].conv <= conv
               /\ \A i \in DOMAIN client[c].frames : IsFrame(client[c].frames[i])
               /\ client[c].room => Watching(c)
               /\ page[c].shows \subseteq Entries \cup Notices /\ page[c].text \subseteq Pieces
    <3>1. client[c].at \in Ats /\ client[c].frames \in Seq(Frames)
      BY <2>0 DEF Typing, ClientRows
    <3>2. \A i \in DOMAIN client[c].frames : client[c].frames[i] \in Frames
      BY <3>1
    <3> QED BY <2>0, <2>1, <3>1, <3>2 DEF Typing, Pages
  <2>3. \A m \in Messages : task[m].knows \subseteq Entries /\ task[m].conv <= conv /\ task[m].chunks \in 0..MaxChunks
    BY <2>0 DEF Typing, Tasks
  <2> QED BY <2>0, <2>2, <2>3 DEF Typing, TypeOK, Ats
<1> QED BY <1>1, BaseAlways, PTL

-----------------------------------------------------------------------------
(* How the messages move.                                                  *)

Moves(m) ==
    \/ task'[m] = task[m]
    \/ /\ task'[m].chunks = task[m].chunks
       /\ \/ task[m].at = "unsent" /\ task'[m].at \in {"save", "failed"}
          \/ task[m].at = "save" /\ task'[m].at = "failed"
          \/ task[m].at = "save" /\ task'[m].at = "send" /\ task[m].conv = conv /\ m \in saved'
          \/ task[m].at = "send" /\ task'[m].at = "ask"
          \/ task[m].at = "ask" /\ task'[m].at = "load" /\ LockFree(Home(m)) /\ OtherTasks(m)
          \/ task[m].at = "load" /\ task'[m].at = "error"
          \/ /\ task[m].at = "load" /\ task'[m].at = "stream" /\ task'[m].knows = saved
             /\ task[m].conv = conv /\ saved' = saved
          \/ task[m].at = "stream" /\ task'[m].at = "keep" /\ task[m].chunks > 0
          \/ task[m].at = "stream" /\ task'[m].at = "done" /\ task[m].chunks = 0
          \/ task[m].at = "keep" /\ task'[m].at = "done"
          \/ task[m].at = "done" /\ task'[m].at = "answered"
          \/ task[m].at = "error" /\ task'[m].at = "failed"
    \/ /\ task[m].at = "stream" /\ task'[m].at = "stream" /\ task'[m].knows = task[m].knows
       /\ task'[m].chunks = task[m].chunks + 1
    \/ task[m].at = "stream" /\ task'[m].at = "error" /\ task'[m].chunks = 0
    \/ /\ task[m].at \notin {"failed", "answered", "cut"} /\ task'[m].at = "cut"
       /\ task'[m].chunks = IF task[m].at = "done" THEN task[m].chunks ELSE 0

(* How the conversation grows.                                             *)
Grows ==
    \/ saved' = saved
    \/ saved' = {} /\ conv = 0 /\ conv' = 1
    \/ \E m \in Messages : saved' = saved \cup {m} /\ task'[m].at = "send" /\ task[m].at = "save"
    \/ \E m \in Messages : /\ saved' = saved \cup {Answer(m)} /\ task'[m].chunks = task[m].chunks
                           /\ task[m].at = "keep" /\ task'[m].at = "done"

LEMMA MovesStep ==
    ASSUME Base, Next \/ UNCHANGED vars
    PROVE  Grows /\ \A m \in Messages : Moves(m)
<1>0. Typing
  BY DEF Base
<1>1. CASE UNCHANGED <<task, saved>>
  BY <1>1 DEF Grows, Moves
<1>2. ASSUME NEW c \in Clients, NEW m \in Messages, SendMessage(c, m)
      PROVE  Grows /\ \A n \in Messages : Moves(n)
  BY <1>0, <1>2, SendingSteps DEF Grows, Moves, OtherTasks
<1>3. ASSUME NEW rep \in Replicas, Dies(rep) PROVE Grows /\ \A n \in Messages : Moves(n)
  BY <1>0, <1>3, DyingSteps DEF Grows, Moves
<1>4. CASE DeleteConversation
  BY <1>4 DEF Grows, Moves, DeleteConversation
<1>5. ASSUME NEW m \in Messages, TaskStep(m) \/ ProviderStep(m)
      PROVE  Grows /\ \A n \in Messages : Moves(n)
  <2>1. OtherTasks(m) /\ Moves(m) /\ Grows
    <3>1. CASE SaveMessage(m)
      <4>1. /\ Comes(m, "send") /\ task'[m].chunks = task[m].chunks /\ saved' = saved \cup {m} /\ task[m].conv = conv
            /\ task[m].at = "save"
        BY <3>1, SilentSteps DEF SaveMessage
      <4> QED BY <4>1 DEF Comes, Moves, Grows
    <3>2. CASE SaveFails(m)
      <4>1. /\ Comes(m, "failed") /\ task'[m].chunks = task[m].chunks /\ saved' = saved /\ task[m].at = "save"
        BY <1>0, <3>2, StageSteps DEF SaveFails
      <4> QED BY <4>1 DEF Comes, Moves, Grows
    <3>3. CASE BroadcastMessage(m)
      <4>1. /\ Comes(m, "ask") /\ task'[m].chunks = task[m].chunks /\ saved' = saved /\ task[m].at = "send"
        BY <1>0, <3>3, StageSteps DEF BroadcastMessage
      <4> QED BY <4>1 DEF Comes, Moves, Grows
    <3>4. CASE AcquireAILock(m)
      <4>1. /\ Comes(m, "load") /\ task'[m].chunks = task[m].chunks /\ saved' = saved /\ task[m].at = "ask"
            /\ LockFree(Home(m))
        BY <1>0, <3>4, SpeakingSteps DEF AcquireAILock
      <4> QED BY <4>1 DEF Comes, Moves, Grows
    <3>5. CASE LoadHistory(m)
      <4>1. /\ Comes(m, "error") \/ (Comes(m, "stream") /\ task[m].conv = conv /\ task'[m].knows = saved)
            /\ task'[m].chunks = task[m].chunks /\ saved' = saved /\ task[m].at = "load"
        BY <1>0, <3>5, StageSteps DEF LoadHistory
      <4> QED BY <4>1 DEF Comes, Moves, Grows
    <3>6. CASE StreamChunk(m)
      <4>1. /\ Comes(m, "stream") /\ task'[m].chunks = task[m].chunks + 1 /\ task'[m].knows = task[m].knows
            /\ saved' = saved /\ task[m].at = "stream"
        BY <1>0, <3>6, StageSteps DEF StreamChunk
      <4> QED BY <4>1 DEF Comes, Moves, Grows
    <3>7. CASE StreamEnds(m)
      <4>1. task[m].chunks \in Nat /\ task[m].at = "stream" /\ saved' = saved
        BY <1>0, <3>7, ChatAssumption DEF StreamEnds, Typing, Tasks
      <4>2. /\ task'[m].chunks = task[m].chunks
            /\ (Comes(m, "done") /\ task[m].chunks = 0) \/ (Comes(m, "keep") /\ task[m].chunks > 0)
        <5>1. task'[m].at = IF task[m].chunks > 0 THEN "keep" ELSE "done"
          BY <1>0, <3>7 DEF StreamEnds, Typing, Tasks
        <5> QED BY <1>0, <3>7, <4>1, <5>1, StageSteps DEF Comes
      <4> QED BY <4>1, <4>2 DEF Comes, Moves, Grows
    <3>8. CASE StreamFails(m)
      <4>1. Comes(m, "error") /\ task'[m].chunks = 0 /\ task[m].at = "stream" /\ saved' = saved
        BY <1>0, <3>8, StageSteps DEF StreamFails
      <4> QED BY <4>1 DEF Comes, Moves, Grows
    <3>9. CASE SaveAnswer(m)
      <4>1. /\ Comes(m, "done") /\ task'[m].chunks = task[m].chunks /\ task[m].at = "keep"
            /\ saved' = saved \/ saved' = saved \cup {Answer(m)}
        BY <3>9, SilentSteps DEF SaveAnswer
      <4> QED BY <4>1 DEF Comes, Moves, Grows
    <3>10. CASE BroadcastDone(m)
      <4>1. /\ task'[m].chunks = task[m].chunks /\ saved' = saved
            /\ (task[m].at = "done" /\ Comes(m, "answered")) \/ (task[m].at = "error" /\ Comes(m, "failed"))
        BY <1>0, <3>10, SpeakingSteps DEF BroadcastDone
      <4> QED BY <4>1 DEF Comes, Moves, Grows
    <3> QED BY <1>5, <3>1, <3>2, <3>3, <3>4, <3>5, <3>6, <3>7, <3>8, <3>9, <3>10 DEF TaskStep, ProviderStep
  <2>2. ASSUME NEW n \in Messages, n # m PROVE Moves(n)
    BY <2>1, <2>2 DEF OtherTasks, Moves
  <2> QED BY <2>1, <2>2
<1>6. ASSUME NEW c \in Clients,
             \/ \E rep \in Replicas : HandleWebSocket(c, rep)
             \/ AddToRoom(c) \/ FetchConversation(c) \/ ListHistory(c) \/ SendHistory(c) \/ LoadFails(c)
             \/ Deliver(c) \/ Disconnect(c)
      PROVE  UNCHANGED <<task, saved>>
  BY <1>6 DEF HandleWebSocket, AddToRoom, FetchConversation, ListHistory, SendHistory, LoadFails, Deliver, Disconnect
<1>7. UNCHANGED vars => UNCHANGED <<task, saved>>
  BY DEF vars
<1> QED BY <1>1, <1>2, <1>3, <1>4, <1>5, <1>6, <1>7 DEF Next

(* Text that is not empty is that of one message.                          *)
LEMMA SaidLaws == \A s, t : Said(s) = Said(t) => s = t
BY DEF Said

LEMMA EndingLaws ==
    ASSUME Typing
    PROVE  /\ \A m, n \in Messages, j, k \in 1..MaxChunks :
                 (Ending(m, j) = Ending(n, k) /\ j <= task[m].chunks) => m = n
           /\ \A m \in Messages, k \in 1..MaxChunks : Ending(m, k) \subseteq Pieces /\ Said(Ending(m, k)) \in Answers
<1>1. \A m \in Messages : task[m].chunks \in 0..MaxChunks /\ task[m].chunks \in Nat
  BY ChatAssumption DEF Typing, Tasks
<1>2. ASSUME NEW m \in Messages, NEW n \in Messages, NEW j \in 1..MaxChunks, NEW k \in 1..MaxChunks,
             Ending(m, j) = Ending(n, k), j <= task[m].chunks
      PROVE  m = n
  <2>1. j \in j..task[m].chunks
    BY <1>1, <1>2, ChatAssumption
  <2>2. Piece(m, j) \in Ending(n, k)
    BY <1>2, <2>1 DEF Ending
  <2>3. PICK i \in k..task[n].chunks : Piece(m, j) = Piece(n, i)
    BY <2>2 DEF Ending
  <2> QED BY <2>3 DEF Piece
<1>3. ASSUME NEW m \in Messages, NEW k \in 1..MaxChunks
      PROVE  Ending(m, k) \subseteq Pieces /\ Said(Ending(m, k)) \in Answers
  <2>1. \A i \in k..task[m].chunks : i \in 1..MaxChunks
    BY <1>1, ChatAssumption
  <2>2. Ending(m, k) \subseteq Pieces
    BY <2>1 DEF Ending, Pieces
  <2> QED BY <2>2 DEF Answers
<1> QED BY <1>2, <1>3

-----------------------------------------------------------------------------
(* One answer at a time, from a history that has what was saved before.    *)

Exclusive ==
    \A m, n \in Messages : (Answering(m) /\ Answering(n) /\ Home(m) = Home(n)) => m = n

(* How far a message is, what there is of its answer, and whether it is in *)
(* the conversation.                                                       *)
Begins ==
    \A m \in Messages :
        /\ task[m].at \in {"unsent", "save", "send", "ask", "load", "error", "failed"} => task[m].chunks = 0
        /\ task[m].at = "keep" => task[m].chunks > 0
        /\ (task[m].at \in {"send", "ask", "load"} /\ task[m].conv = conv) => m \in saved

(* What is in the conversation was sent, or is the answer to a message.    *)
SavedReal ==
    \A e \in saved :
        \/ e \in Messages /\ task[e].at # "unsent"
        \/ \E m \in Messages : e = Answer(m) /\ task[m].chunks >= 1 /\ task[m].at \in Given

Turns == Exclusive /\ Begins /\ SavedReal /\ AnswersBuildOnEachOther

LEMMA TurnsInit == Init => Turns
<1> SUFFICES ASSUME Init PROVE Turns
  OBVIOUS
<1>1. \A m \in Messages : task[m].at = "unsent" /\ task[m].chunks = 0
  BY DEF Init
<1>2. saved = {}
  BY DEF Init
<1> QED BY <1>1, <1>2 DEF Turns, Exclusive, Begins, SavedReal, AnswersBuildOnEachOther, Answering

LEMMA ExclusiveStep ==
    ASSUME Base, Exclusive, Steady, \A m \in Messages : Moves(m)
    PROVE  Exclusive'
<1> SUFFICES ASSUME NEW m \in Messages, NEW n \in Messages, Answering(m)', Answering(n)', Home(m)' = Home(n)', m # n
             PROVE  FALSE
  BY DEF Exclusive
<1>1. ASSUME NEW x \in Messages, Answering(x)'
      PROVE  /\ Home(x)' = Home(x)
             /\ Answering(x) \/ (task[x].at = "ask" /\ LockFree(Home(x)) /\ OtherTasks(x))
  <2>1. Moves(x)
    OBVIOUS
  <2>2. Answering(x) \/ (task[x].at = "ask" /\ LockFree(Home(x)) /\ OtherTasks(x))
    BY <1>1, <2>1 DEF Moves, Answering
  <2>3. task[x].at # "unsent"
    BY <2>2 DEF Answering
  <2> QED BY <2>2, <2>3 DEF Steady, Home
<1>2. Home(m) = Home(n)
  BY <1>1
<1>3. Answering(m) /\ Answering(n) => FALSE
  BY <1>2 DEF Exclusive
<1>4. ASSUME NEW x \in Messages, NEW y \in Messages, x # y, Home(x) = Home(y), Answering(y)',
             LockFree(Home(x)), OtherTasks(x)
      PROVE  FALSE
  <2>1. task'[y] = task[y]
    BY <1>4 DEF OtherTasks
  <2>2. Answering(y)
    BY <1>4, <2>1 DEF Answering
  <2> QED BY <1>4, <2>2 DEF LockFree
<1> QED BY <1>1, <1>2, <1>3, <1>4

LEMMA BeginsStep ==
    ASSUME Base, Begins, Steady, \A m \in Messages : Moves(m)
    PROVE  Begins'
<1> SUFFICES ASSUME NEW m \in Messages
             PROVE  /\ task'[m].at \in {"unsent", "save", "send", "ask", "load", "error", "failed"} => task'[m].chunks = 0
                    /\ task'[m].at = "keep" => task'[m].chunks > 0
                    /\ (task'[m].at \in {"send", "ask", "load"} /\ task'[m].conv = conv') => m \in saved'
  BY DEF Begins
<1>1. Moves(m)
  OBVIOUS
<1>2. /\ task[m].at \in {"unsent", "save", "send", "ask", "load", "error", "failed"} => task[m].chunks = 0
      /\ task[m].at = "keep" => task[m].chunks > 0
      /\ (task[m].at \in {"send", "ask", "load"} /\ task[m].conv = conv) => m \in saved
  BY DEF Begins
<1>3. task'[m].at \in {"unsent", "save", "send", "ask", "load", "error", "failed"} => task'[m].chunks = 0
  BY <1>1, <1>2 DEF Moves
<1>4. task'[m].at = "keep" => task'[m].chunks > 0
  BY <1>1, <1>2 DEF Moves
<1>5. ASSUME task'[m].at \in {"send", "ask", "load"}, task'[m].conv = conv' PROVE m \in saved'
  <2>1. (task[m].at = "save" /\ m \in saved') \/ task[m].at \in {"send", "ask", "load"}
    BY <1>1, <1>5 DEF Moves
  <2>2. task'[m].conv = task[m].conv
    BY <2>1 DEF Steady
  <2>3. CASE conv' = conv /\ saved \subseteq saved'
    BY <1>2, <1>5, <2>1, <2>2, <2>3
  <2>4. ~(conv = 0 /\ conv' = 1)
    BY <1>5, <2>2 DEF Base, Typing
  <2> QED BY <2>3, <2>4 DEF Steady
<1> QED BY <1>3, <1>4, <1>5

LEMMA SavedRealStep ==
    ASSUME Base, Begins, SavedReal, Steady, Grows
    PROVE  SavedReal'
<1> SUFFICES ASSUME NEW e \in saved'
             PROVE  \/ e \in Messages /\ task'[e].at # "unsent"
                    \/ \E m \in Messages : e = Answer(m)' /\ task'[m].chunks >= 1 /\ task'[m].at \in Given
  BY DEF SavedReal
<1>1. CASE e \in saved
  BY <1>1 DEF SavedReal, Steady, Answer, Ending
<1>2. CASE \E m \in Messages : e = m /\ task'[m].at = "send"
  BY <1>2
<1>3. CASE \E m \in Messages : e = Answer(m) /\ task[m].at = "keep" /\ task'[m].at = "done" /\ task'[m].chunks = task[m].chunks
  <2>1. PICK m \in Messages : e = Answer(m) /\ task[m].at = "keep" /\ task'[m].at = "done" /\ task'[m].chunks = task[m].chunks
    BY <1>3
  <2>2. task[m].chunks \in Nat /\ task[m].chunks > 0
    BY <2>1, ChatAssumption DEF Begins, Base, Typing, Tasks
  <2>3. task'[m].chunks >= 1 /\ task'[m].at \in Given
    BY <2>1, <2>2 DEF Given
  <2>4. Answer(m)' = Answer(m)
    BY <2>1 DEF Answer, Ending
  <2> QED BY <2>1, <2>3, <2>4
<1> QED BY <1>1, <1>2, <1>3 DEF Grows

(* An answer that is saved was given, and no other message has the same.   *)
LEMMA SavedAnswers ==
    ASSUME Typing, SavedReal, NEW m \in Messages, Answer(m) \in saved
    PROVE  task[m].at \in Given /\ task[m].chunks >= 1
<1>1. 1 \in 1..MaxChunks
  BY ChatAssumption
<1>2. Answer(m) \notin Messages
  BY <1>1, EndingLaws, ChatAssumption DEF Answer
<1>3. PICK n \in Messages : Answer(m) = Answer(n) /\ task[n].chunks >= 1 /\ task[n].at \in Given
  BY <1>2 DEF SavedReal
<1>4. Ending(n, 1) = Ending(m, 1)
  BY <1>3, SaidLaws DEF Answer
<1>5. 1 <= task[n].chunks
  BY <1>3 DEF Typing, Tasks
<1>6. n = m
  BY <1>1, <1>4, <1>5, EndingLaws
<1> QED BY <1>3, <1>6

LEMMA AnswersStep ==
    ASSUME Base, Base', Turns, SavedReal', Steady, Grows, \A m \in Messages : Moves(m)
    PROVE  AnswersBuildOnEachOther'
<1> SUFFICES ASSUME NEW m \in Messages, task'[m].at = "stream", task'[m].conv = conv'
             PROVE  /\ m \in task'[m].knows
                    /\ \A n \in Messages : (Answer(n)' \in saved' /\ Home(n)' = Home(m)') => Answer(n)' \in task'[m].knows
  BY DEF AnswersBuildOnEachOther
<1>0. Typing /\ Typing' /\ Moves(m) /\ Begins /\ Exclusive /\ SavedReal
  BY DEF Base, Turns
<1>1. CASE /\ task[m].at = "load" /\ task'[m].knows = saved /\ task[m].conv = conv /\ saved' = saved
  BY <1>0, <1>1 DEF Begins
<1>2. CASE task[m].at = "stream" /\ task'[m].knows = task[m].knows
  <2>1. task'[m].conv = task[m].conv /\ Home(m)' = Home(m)
    BY <1>2 DEF Steady, Home
  <2>2. conv' = conv
    BY <1>0, <2>1 DEF Steady, Typing
  <2>3. task[m].conv = conv
    BY <2>1, <2>2
  <2>4. m \in task[m].knows /\ \A n \in Messages : (Answer(n) \in saved /\ Home(n) = Home(m)) => Answer(n) \in task[m].knows
    BY <1>2, <2>3 DEF Turns, AnswersBuildOnEachOther
  <2>5. ASSUME NEW n \in Messages, Answer(n)' \in saved', Home(n)' = Home(m)' PROVE Answer(n)' \in task'[m].knows
    <3>1. task'[n].at \in Given /\ task'[n].chunks >= 1
      <4>1. 1 \in 1..MaxChunks
        BY ChatAssumption
      <4>2. Ending(n, 1)' \subseteq Pieces /\ Answer(n)' \notin Messages
        <5>1. \A i \in 1..task'[n].chunks : i \in 1..MaxChunks
          BY <1>0, ChatAssumption DEF Typing, Tasks
        <5>2. Ending(n, 1)' \subseteq Pieces
          BY <5>1 DEF Ending, Pieces
        <5> QED BY <5>2, ChatAssumption DEF Answer, Answers
      <4>3. PICK x \in Messages : Answer(n)' = Answer(x)' /\ task'[x].chunks >= 1 /\ task'[x].at \in Given
        BY <2>5, <4>2 DEF SavedReal
      <4>4. Ending(n, 1)' = Ending(x, 1)'
        BY <4>3, SaidLaws DEF Answer
      <4>5. 1 \in 1..task'[x].chunks
        BY <1>0, <4>3, ChatAssumption DEF Typing, Tasks
      <4>6. Piece(x, 1) \in Ending(n, 1)'
        BY <4>4, <4>5 DEF Ending
      <4>7. x = n
        BY <4>6 DEF Ending, Piece
      <4> QED BY <4>3, <4>7
    <3>2. Moves(n) /\ task[n].chunks \in Nat
      BY <1>0, ChatAssumption DEF Typing, Tasks
    <3>3. task[n].at \in Given \/ task[n].at = "keep"
      BY <3>1, <3>2 DEF Moves, Given
    <3>4. Home(n)' = Home(n)
      BY <3>3 DEF Steady, Home, Given
    <3>5. task[n].at # "keep"
      <4>1. task[n].at = "keep" => m = n
        BY <1>0, <1>2, <2>1, <2>5, <3>4 DEF Exclusive, Answering
      <4> QED BY <4>1, <1>2
    <3>6. task[n].at \in Given /\ task'[n].chunks = task[n].chunks
      BY <3>3, <3>5 DEF Steady
    <3>7. Answer(n)' = Answer(n)
      BY <3>6 DEF Answer, Ending
    <3>8. Answer(n) \in saved
      <4>1. Answer(n) \notin Messages
        BY <1>0, EndingLaws, ChatAssumption DEF Answer
      <4>2. ASSUME NEW x \in Messages, task[x].at = "keep" PROVE Answer(n) # Answer(x)
        <5>1. 1 \in 1..MaxChunks /\ 1 <= task[n].chunks
          BY <3>1, <3>2, <3>6, ChatAssumption
        <5>2. Answer(n) = Answer(x) => Ending(n, 1) = Ending(x, 1)
          BY SaidLaws DEF Answer
        <5>3. Answer(n) = Answer(x) => n = x
          BY <1>0, <5>1, <5>2, EndingLaws
        <5> QED BY <3>5, <4>2, <5>3
      <4> QED BY <2>2, <2>5, <3>7, <4>1, <4>2 DEF Grows
    <3> QED BY <1>2, <2>1, <2>4, <2>5, <3>4, <3>7, <3>8
  <2> QED BY <1>2, <2>4, <2>5
<1> QED BY <1>0, <1>1, <1>2 DEF Moves

LEMMA TurnsStep ==
    ASSUME Base, Base', Turns, Steady, Next \/ UNCHANGED vars
    PROVE  Turns'
<1>1. Grows /\ \A m \in Messages : Moves(m)
  BY MovesStep
<1>2. Exclusive /\ Begins /\ SavedReal
  BY DEF Turns
<1> QED BY <1>1, <1>2, ExclusiveStep, BeginsStep, SavedRealStep, AnswersStep DEF Turns

(* The answers of a replica are given one after the other, each from the   *)
(* history that holds its question and the answers saved before it.        *)
THEOREM AnswersInTurn == Spec => []AnswersBuildOnEachOther
<1>1. Init => Base /\ Turns
  BY BaseInit, TurnsInit
<1>2. Base /\ Turns /\ [Next]_vars => (Base /\ Turns)'
  BY BaseStep, TurnsStep
<1>3. Turns => AnswersBuildOnEachOther
  BY DEF Turns
<1> QED BY <1>1, <1>2, <1>3, PTL DEF Spec

-----------------------------------------------------------------------------
(* The text a browser will have streamed when it comes to the i-th of the  *)
(* frames q: what is on its page p, or in a frame, and has not been ended. *)

Ends(f) == f.kind \in {"typing", "done", "error"}
Writes(p, q, j, x) == IF j = 0 THEN x \in p.text ELSE q[j] = Frame("chunk", x)
Live(p, q, i) ==
    {x \in Pieces : \E j \in 0..(i - 1) : Writes(p, q, j, x) /\ \A l \in (j + 1)..(i - 1) : ~Ends(q[l])}

LEMMA AppendLaws ==
    ASSUME NEW q \in Seq(Frames), NEW f \in Frames
    PROVE  /\ Append(q, f) \in Seq(Frames) /\ Len(q) \in Nat /\ Len(Append(q, f)) = Len(q) + 1
           /\ \A i \in 1..Len(q) : Append(q, f)[i] = q[i]
           /\ Append(q, f)[Len(q) + 1] = f
BY AppendProperties

LEMMA TailLaws ==
    ASSUME NEW q \in Seq(Frames), q # << >>
    PROVE  /\ Tail(q) \in Seq(Frames) /\ Len(q) \in Nat /\ Len(q) > 0 /\ Len(Tail(q)) = Len(q) - 1
           /\ \A i \in 1..(Len(q) - 1) : Tail(q)[i] = q[i + 1]
           /\ q[1] \in Frames
<1>1. Tail(q) \in Seq(Frames) /\ Len(Tail(q)) = Len(q) - 1 /\ \A i \in 1..Len(Tail(q)) : Tail(q)[i] = q[i + 1]
  BY HeadTailProperties
<1>2. Len(q) \in Nat /\ Len(q) > 0
  BY EmptySeq
<1> QED BY <1>1, <1>2

LEMMA LiveAppend ==
    ASSUME NEW p \in Pages, NEW q \in Seq(Frames), NEW f \in Frames
    PROVE  /\ \A i \in 1..(Len(q) + 1) : Live(p, Append(q, f), i) = Live(p, q, i)
           /\ Ends(f) => Live(p, Append(q, f), Len(q) + 2) = {}
           /\ f.kind = "chunk" => Live(p, Append(q, f), Len(q) + 2) = Live(p, q, Len(q) + 1) \cup {f.what}
           /\ f.kind \in {"message", "history"} => Live(p, Append(q, f), Len(q) + 2) = Live(p, q, Len(q) + 1)
<1>0. PICK r, n : r = Append(q, f) /\ n = Len(q)
  OBVIOUS
<1>1. n \in Nat /\ Len(r) = n + 1 /\ r[n + 1] = f /\ \A l \in 1..n : r[l] = q[l]
  BY <1>0, AppendLaws
<1>2. ASSUME NEW x \in Pieces, NEW j \in 0..n PROVE Writes(p, r, j, x) <=> Writes(p, q, j, x)
  <2>1. j = 0 \/ j \in 1..n
    BY <1>1
  <2> QED BY <1>1, <2>1 DEF Writes
<1>3. ASSUME NEW i \in 1..(n + 1) PROVE Live(p, r, i) = Live(p, q, i)
  <2>1. \A j \in 0..(i - 1) : j \in 0..n /\ \A l \in (j + 1)..(i - 1) : r[l] = q[l]
    BY <1>1
  <2> QED BY <1>2, <2>1 DEF Live
<1>4. ASSUME NEW x \in Pieces
      PROVE  x \in Live(p, r, n + 2) <=> f = Frame("chunk", x) \/ (~Ends(f) /\ x \in Live(p, q, n + 1))
  <2>1. ASSUME x \in Live(p, r, n + 2) PROVE f = Frame("chunk", x) \/ (~Ends(f) /\ x \in Live(p, q, n + 1))
    <3>1. PICK j \in 0..(n + 1) : Writes(p, r, j, x) /\ \A l \in (j + 1)..(n + 1) : ~Ends(r[l])
      BY <1>1, <2>1 DEF Live
    <3>2. CASE j = n + 1
      BY <1>1, <3>1, <3>2 DEF Writes
    <3>3. CASE j # n + 1
      <4>1. j \in 0..n /\ n + 1 \in (j + 1)..(n + 1)
        BY <1>1, <3>1, <3>3
      <4>2. ~Ends(f) /\ Writes(p, q, j, x)
        BY <1>1, <1>2, <3>1, <4>1
      <4>3. \A l \in (j + 1)..n : ~Ends(q[l])
        <5>1. \A l \in (j + 1)..n : l \in (j + 1)..(n + 1) /\ l \in 1..n
          BY <1>1, <4>1
        <5> QED BY <1>1, <3>1, <5>1
      <4> QED BY <1>1, <4>1, <4>2, <4>3 DEF Live
    <3> QED BY <3>2, <3>3
  <2>2. ASSUME f = Frame("chunk", x) PROVE x \in Live(p, r, n + 2)
    <3>1. n + 1 \in 0..(n + 1) /\ Writes(p, r, n + 1, x) /\ \A l \in (n + 1 + 1)..(n + 1) : FALSE
      BY <1>1, <2>2 DEF Writes
    <3> QED BY <1>1, <3>1 DEF Live
  <2>3. ASSUME ~Ends(f), x \in Live(p, q, n + 1) PROVE x \in Live(p, r, n + 2)
    <3>1. PICK j \in 0..n : Writes(p, q, j, x) /\ \A l \in (j + 1)..n : ~Ends(q[l])
      BY <1>1, <2>3 DEF Live
    <3>2. j \in 0..(n + 1) /\ Writes(p, r, j, x)
      BY <1>1, <1>2, <3>1
    <3>3. ASSUME NEW l \in (j + 1)..(n + 1) PROVE ~Ends(r[l])
      <4>1. l = n + 1 \/ (l \in (j + 1)..n /\ l \in 1..n)
        BY <1>1, <3>1, <3>3
      <4> QED BY <1>1, <2>3, <3>1, <4>1
    <3> QED BY <1>1, <3>2, <3>3 DEF Live
  <2> QED BY <2>1, <2>2, <2>3
<1>5. /\ \A x : f = Frame("chunk", x) <=> f.kind = "chunk" /\ x = f.what
      /\ f.kind = "chunk" => f.what \in Pieces
      /\ Ends(f) <=> f.kind \in {"typing", "done", "error"}
  BY KindLaws, FrameLaws DEF Ends
<1>6. Live(p, r, n + 2) \subseteq Pieces /\ Live(p, q, n + 1) \subseteq Pieces
  BY DEF Live
<1>7. Ends(f) => Live(p, r, n + 2) = {}
  BY <1>4, <1>5, <1>6
<1>8. f.kind = "chunk" => Live(p, r, n + 2) = Live(p, q, n + 1) \cup {f.what}
  BY <1>4, <1>5, <1>6
<1>9. f.kind \in {"message", "history"} => Live(p, r, n + 2) = Live(p, q, n + 1)
  BY <1>4, <1>5, <1>6
<1> QED BY <1>0, <1>3, <1>7, <1>8, <1>9

LEMMA LiveDeliver ==
    ASSUME NEW p \in Pages, NEW q \in Seq(Frames), q # << >>, NEW i \in 1..Len(q)
    PROVE  Live(Shown(p, q[1]), Tail(q), i) = Live(p, q, i + 1)
<1>0. PICK t, g : t = Tail(q) /\ g = Shown(p, q[1])
  OBVIOUS
<1>1. Len(q) \in Nat /\ q[1] \in Frames /\ \A l \in 1..(Len(q) - 1) : t[l] = q[l + 1]
  BY <1>0, TailLaws
<1>2. ASSUME NEW x \in Pieces PROVE x \in g.text <=> q[1] = Frame("chunk", x) \/ (x \in p.text /\ ~Ends(q[1]))
  <2>1. PICK f \in Frames : f = q[1]
    BY <1>1
  <2>2. f = Frame("chunk", x) <=> f.kind = "chunk" /\ x = f.what
    BY KindLaws, FrameLaws
  <2>3. /\ f.kind \in {"history", "message"} => g.text = p.text
        /\ f.kind \in {"typing", "done", "error"} => g.text = {}
        /\ f.kind = "chunk" => g.text = p.text \cup {f.what}
    BY <1>0, <2>1, PageStep
  <2>4. f.kind \in {"history", "message"} \/ f.kind \in {"typing", "done", "error"} \/ f.kind = "chunk"
    BY KindLaws DEF Kinds
  <2>5. x \in g.text <=> f = Frame("chunk", x) \/ (x \in p.text /\ f.kind \notin {"typing", "done", "error"})
    BY <2>2, <2>3, <2>4
  <2> QED BY <2>1, <2>5 DEF Ends
<1>3. ASSUME NEW x \in Pieces, x \in Live(g, t, i) PROVE x \in Live(p, q, i + 1)
  <2>1. PICK j \in 0..(i - 1) : Writes(g, t, j, x) /\ \A l \in (j + 1)..(i - 1) : ~Ends(t[l])
    BY <1>3 DEF Live
  <2>2. ASSUME NEW l \in (j + 2)..i PROVE ~Ends(q[l])
    <3>1. l - 1 \in (j + 1)..(i - 1) /\ l - 1 \in 1..(Len(q) - 1) /\ (l - 1) + 1 = l
      BY <1>1, <2>1, <2>2
    <3>2. t[l - 1] = q[(l - 1) + 1]
      BY <1>1, <3>1
    <3> QED BY <2>1, <3>1, <3>2
  <2>3. CASE j = 0 /\ x \in p.text /\ ~Ends(q[1])
    <3>1. 0 \in 0..i /\ Writes(p, q, 0, x)
      BY <2>3 DEF Writes
    <3>2. \A l \in (0 + 1)..i : ~Ends(q[l])
      <4>1. \A l \in 1..i : l = 1 \/ l \in (j + 2)..i
        BY <2>3
      <4> QED BY <2>2, <2>3, <4>1
    <3> QED BY <3>1, <3>2 DEF Live
  <2>4. CASE j = 0 /\ q[1] = Frame("chunk", x)
    <3>1. 1 \in 0..i /\ Writes(p, q, 1, x) /\ \A l \in (1 + 1)..i : ~Ends(q[l])
      BY <2>2, <2>4 DEF Writes
    <3> QED BY <3>1 DEF Live
  <2>5. CASE j # 0
    <3>1. j \in 1..(Len(q) - 1) /\ j + 1 \in 0..i /\ j + 1 # 0
      BY <1>1, <2>1, <2>5
    <3>2. Writes(p, q, j + 1, x)
      BY <1>1, <2>1, <2>5, <3>1 DEF Writes
    <3>3. \A l \in (j + 1 + 1)..i : ~Ends(q[l])
      BY <2>1, <2>2
    <3> QED BY <3>1, <3>2, <3>3 DEF Live
  <2> QED BY <1>2, <2>1, <2>3, <2>4, <2>5 DEF Writes
<1>4. ASSUME NEW x \in Pieces, x \in Live(p, q, i + 1) PROVE x \in Live(g, t, i)
  <2>1. PICK j \in 0..i : Writes(p, q, j, x) /\ \A l \in (j + 1)..i : ~Ends(q[l])
    BY <1>4 DEF Live
  <2>2. ASSUME NEW k \in 0..(i - 1), k + 1 >= j, Writes(g, t, k, x) PROVE x \in Live(g, t, i)
    <3>1. ASSUME NEW l \in (k + 1)..(i - 1) PROVE ~Ends(t[l])
      <4>1. l + 1 \in (j + 1)..i /\ l \in 1..(Len(q) - 1)
        BY <1>1, <2>1, <2>2, <3>1
      <4> QED BY <1>1, <2>1, <4>1
    <3> QED BY <2>2, <3>1 DEF Live
  <2>3. CASE j >= 2
    <3>1. j - 1 \in 0..(i - 1) /\ (j - 1) + 1 = j /\ j - 1 # 0 /\ j - 1 \in 1..(Len(q) - 1) /\ j # 0
      BY <1>1, <2>1, <2>3
    <3>2. t[j - 1] = q[(j - 1) + 1]
      BY <1>1, <3>1
    <3>3. Writes(g, t, j - 1, x)
      BY <2>1, <3>1, <3>2 DEF Writes
    <3>4. PICK k : k = j - 1
      OBVIOUS
    <3>5. k \in 0..(i - 1) /\ k + 1 >= j /\ Writes(g, t, k, x)
      BY <2>1, <3>1, <3>3, <3>4
    <3> QED BY <2>2, <3>5
  <2>4. CASE j < 2
    <3>1. x \in g.text
      <4>1. CASE j = 1
        BY <1>2, <2>1, <4>1 DEF Writes
      <4>2. CASE j = 0
        <5>1. 1 \in (j + 1)..i
          BY <4>2
        <5> QED BY <1>2, <2>1, <4>2, <5>1 DEF Writes
      <4> QED BY <2>1, <2>4, <4>1, <4>2
    <3>2. 0 \in 0..(i - 1) /\ 0 + 1 >= j /\ Writes(g, t, 0, x)
      BY <2>1, <2>4, <3>1 DEF Writes
    <3> QED BY <2>2, <3>2
  <2> QED BY <2>1, <2>3, <2>4
<1>5. Live(g, t, i) \subseteq Pieces /\ Live(p, q, i + 1) \subseteq Pieces
  BY DEF Live
<1> QED BY <1>0, <1>3, <1>4, <1>5

LEMMA LiveFirst ==
    ASSUME NEW p \in Pages, NEW q
    PROVE  Live(p, q, 1) = p.text
<1>1. p.text \subseteq Pieces
  BY DEF Pages
<1>2. \A x \in Pieces : x \in Live(p, q, 1) <=> x \in p.text
  <2>1. ASSUME NEW x \in Pieces, x \in p.text PROVE x \in Live(p, q, 1)
    <3>1. 0 \in 0..(1 - 1) /\ Writes(p, q, 0, x) /\ \A l \in (0 + 1)..(1 - 1) : FALSE
      BY <2>1 DEF Writes
    <3> QED BY <3>1 DEF Live
  <2>2. ASSUME NEW x \in Pieces, x \in Live(p, q, 1) PROVE x \in p.text
    <3>1. PICK j \in 0..(1 - 1) : Writes(p, q, j, x)
      BY <2>2 DEF Live
    <3>2. j = 0
      BY <3>1
    <3> QED BY <3>1, <3>2 DEF Writes
  <2> QED BY <2>1, <2>2
<1>3. Live(p, q, 1) \subseteq Pieces
  BY DEF Live
<1> QED BY <1>1, <1>2, <1>3

-----------------------------------------------------------------------------
(* What a browser shows, and what it will have streamed in the end.        *)

Left(c) == Live(page[c], client[c].frames, Len(client[c].frames) + 1)

Genuine(c, e) ==
    \/ e \in Notices
    \/ e \in Messages /\ task[e].at # "unsent" /\ (task[e].conv = conv => e \in saved)
    \/ \E m \in Messages, k \in 1..MaxChunks :
          /\ e = Said(Ending(m, k)) /\ k <= task[m].chunks
          /\ task[m].at \in Given /\ (k = 1 \/ m \in partly[c])

(* A frame that a browser handles with this text streamed.                 *)
Fits(c, f, text) ==
    /\ f.kind = "history" => \A e \in f.what : Genuine(c, e)
    /\ f.kind = "message" => Genuine(c, f.what)
    /\ f.kind = "done" => text = {} \/ Genuine(c, Said(text))

Real(c) ==
    /\ \A e \in page[c].shows : Genuine(c, e)
    /\ \A e \in client[c].history : Genuine(c, e)
    /\ \A i \in 1..Len(client[c].frames) : Fits(c, client[c].frames[i], Live(page[c], client[c].frames, i))

(* Of the answer being given in its room a connection has heard all, or    *)
(* the end; who is not in the room has heard nothing.                      *)
Hears(c, m) == Answering(m) /\ task[m].at # "error" /\ Home(m) = client[c].rep /\ client[c].room
Heard(c) ==
    /\ Left(c) # {} => client[c].room
    /\ \A m \in Messages : Hears(c, m) =>
          \/ Left(c) = {} /\ (task[m].chunks = 0 \/ m \in partly[c])
          \/ \E k \in 1..task[m].chunks : Left(c) = Ending(m, k) /\ (k = 1 \/ m \in partly[c])

Truth == \A c \in Clients \ lossy : Real(c) /\ Heard(c)

LEMMA GenuineStays ==
    ASSUME Base, Steady, NEW c \in Clients, partly[c] \subseteq partly'[c], NEW e, Genuine(c, e)
    PROVE  Genuine(c, e)'
<1>1. CASE e \in Messages /\ task[e].at # "unsent" /\ (task[e].conv = conv => e \in saved)
  <2>1. task'[e].at # "unsent" /\ task'[e].conv = task[e].conv
    BY <1>1 DEF Steady
  <2>2. task'[e].conv = conv' => e \in saved'
    <3>1. CASE conv' = conv /\ saved \subseteq saved'
      BY <1>1, <2>1, <3>1
    <3>2. CASE conv = 0 /\ conv' = 1
      <4>1. task[e].conv <= conv
        BY <1>1 DEF Base, Typing
      <4> QED BY <2>1, <3>2, <4>1
    <3> QED BY <3>1, <3>2 DEF Steady
  <2> QED BY <1>1, <2>1, <2>2 DEF Genuine
<1>2. ASSUME NEW m \in Messages, NEW k \in 1..MaxChunks, e = Said(Ending(m, k)), k <= task[m].chunks,
             task[m].at \in Given, k = 1 \/ m \in partly[c]
      PROVE  Genuine(c, e)'
  <2>1. task'[m].at \in Given /\ task'[m].chunks = task[m].chunks
    BY <1>2 DEF Steady
  <2>2. Ending(m, k)' = Ending(m, k)
    BY <2>1 DEF Ending
  <2> QED BY <1>2, <2>1, <2>2 DEF Genuine
<1> QED BY <1>1, <1>2 DEF Genuine

(* The frames under way stay, or one comes behind them.                    *)
LEMMA RealStays ==
    ASSUME NEW c \in Clients, Real(c), \A e : Genuine(c, e) => Genuine(c, e)',
           page'[c] = page[c], client'[c].frames = client[c].frames,
           \A e \in client'[c].history : Genuine(c, e)'
    PROVE  Real(c)'
<1>1. \A i \in 1..Len(client[c].frames) : Fits(c, client[c].frames[i], Live(page[c], client[c].frames, i))'
  <2>1. ASSUME NEW i \in 1..Len(client[c].frames), NEW f, NEW text, Fits(c, f, text) PROVE Fits(c, f, text)'
    BY <2>1 DEF Fits
  <2>2. ASSUME NEW i \in 1..Len(client[c].frames)
        PROVE  Fits(c, client[c].frames[i], Live(page[c], client[c].frames, i))'
    <3>1. PICK f, text : f = client[c].frames[i] /\ text = Live(page[c], client[c].frames, i)
      OBVIOUS
    <3>2. Fits(c, f, text)'
      BY <2>1, <3>1 DEF Real
    <3>3. (client[c].frames[i])' = f /\ Live(page[c], client[c].frames, i)' = text
      BY <3>1
    <3> QED BY <3>2, <3>3
  <2> QED BY <2>2
<1> QED BY <1>1 DEF Real

LEMMA RealGets ==
    ASSUME Typing, NEW c \in Clients, NEW f \in Frames, Real(c), \A e : Genuine(c, e) => Genuine(c, e)',
           page'[c] = page[c], client'[c].frames = Append(client[c].frames, f),
           \A e \in client'[c].history : Genuine(c, e)',
           NEW text, text = Left(c), Fits(c, f, text)'
    PROVE  Real(c)'
<1>0. PICK p, q, r, n : p = page[c] /\ q = client[c].frames /\ r = Append(q, f) /\ n = Len(q)
  OBVIOUS
<1>1. p \in Pages /\ q \in Seq(Frames)
  BY <1>0 DEF Typing, ClientRows
<1>2. /\ n \in Nat /\ Len(r) = n + 1 /\ r[n + 1] = f /\ \A i \in 1..n : r[i] = q[i]
      /\ \A i \in 1..(n + 1) : Live(p, r, i) = Live(p, q, i)
  BY <1>0, <1>1, AppendLaws, LiveAppend
<1>3. ASSUME NEW g, NEW t, Fits(c, g, t) PROVE Fits(c, g, t)'
  BY <1>3 DEF Fits
<1>4. ASSUME NEW i \in 1..(n + 1), NEW g, NEW t, g = r[i], t = Live(p, r, i) PROVE Fits(c, g, t)'
  <2>1. CASE i = n + 1
    <3>1. g = f /\ t = text
      BY <1>0, <1>2, <1>4, <2>1 DEF Left
    <3> QED BY <3>1
  <2>2. CASE i # n + 1
    <3>1. i \in 1..n
      BY <1>2, <2>2
    <3>2. Fits(c, q[i], Live(p, q, i))
      BY <1>0, <3>1 DEF Real
    <3>3. g = q[i] /\ t = Live(p, q, i)
      BY <1>2, <1>4, <3>1
    <3>4. Fits(c, g, t)
      BY <3>2, <3>3
    <3> QED BY <1>3, <3>4
  <2> QED BY <2>1, <2>2
<1>5. ASSUME NEW i \in 1..(n + 1)
      PROVE  Fits(c, client[c].frames[i], Live(page[c], client[c].frames, i))'
  <2>1. PICK g, t : g = r[i] /\ t = Live(p, r, i)
    OBVIOUS
  <2>2. Fits(c, g, t)'
    BY <1>4, <2>1
  <2>3. (client[c].frames[i])' = g /\ Live(page[c], client[c].frames, i)' = t
    BY <1>0, <2>1
  <2> QED BY <2>2, <2>3
<1>6. Len(client'[c].frames) = n + 1
  BY <1>0, <1>2
<1>7. \A i \in 1..Len(client'[c].frames) : Fits(c, client[c].frames[i], Live(page[c], client[c].frames, i))'
  BY <1>5, <1>6
<1>8. \A e \in page'[c].shows : Genuine(c, e)'
  BY DEF Real
<1> QED BY <1>7, <1>8 DEF Real

(* The browser handles the first frame.                                    *)
LEMMA RealDelivers ==
    ASSUME Base, NEW c \in Clients, Real(c), Deliver(c)
    PROVE  Real(c)' /\ Left(c)' = Left(c)
<1>0. PICK p, q, t, g, f : /\ p = page[c] /\ q = client[c].frames /\ t = Tail(q) /\ f = q[1] /\ g = Shown(p, f)
  OBVIOUS
<1>1. /\ Typing /\ p \in Pages /\ q \in Seq(Frames) /\ q # << >> /\ client'[c].frames = t /\ page'[c] = g
      /\ client'[c].history = client[c].history
  BY <1>0, DeliverSteps DEF Base, Typing, Stays
<1>2. /\ Len(q) \in Nat /\ Len(q) > 0 /\ Len(t) = Len(q) - 1 /\ f \in Frames /\ \A l \in 1..(Len(q) - 1) : t[l] = q[l + 1]
  BY <1>0, <1>1, TailLaws
<1>3. \A i \in 1..Len(q) : Live(g, t, i) = Live(p, q, i + 1)
  BY <1>0, <1>1, LiveDeliver
<1>4. Left(c)' = Left(c)
  <2>1. Len(t) + 1 = Len(q) /\ Len(q) \in 1..Len(q)
    BY <1>2
  <2>2. Live(g, t, Len(t) + 1) = Live(p, q, Len(q) + 1)
    BY <1>3, <2>1
  <2>3. Left(c) = Live(p, q, Len(q) + 1) /\ Left(c)' = Live(g, t, Len(t) + 1)
    BY <1>0, <1>1 DEF Left
  <2> QED BY <2>2, <2>3
<1>5. UNCHANGED <<conv, saved, task, partly>>
  BY DEF Deliver
<1>6. \A e : Genuine(c, e) => Genuine(c, e)'
  BY <1>5 DEF Genuine, Ending
<1>7. Fits(c, f, p.text) /\ \A e \in p.shows : Genuine(c, e)
  <2>1. 1 \in 1..Len(q) /\ Live(p, q, 1) = p.text
    BY <1>1, <1>2, LiveFirst
  <2>2. Fits(c, q[1], Live(p, q, 1))
    BY <1>0, <2>1 DEF Real
  <2> QED BY <1>0, <2>1, <2>2 DEF Real
<1>8. \A e \in g.shows : Genuine(c, e)
  <2>1. g = Shown(p, f) /\ p \in Pages /\ f \in Frames
    BY <1>0, <1>1, <1>2
  <2>2. /\ f.kind = "history" => g.shows = f.what
        /\ f.kind = "message" => g.shows = p.shows \cup {f.what}
        /\ f.kind \in {"typing", "chunk"} => g.shows = p.shows
        /\ f.kind = "done" => g.shows = p.shows \cup (IF p.text = {} THEN {} ELSE {Said(p.text)})
        /\ f.kind = "error" => g.shows = p.shows \cup {Failed(f.what)}
        /\ f.kind \in Kinds
    BY <2>1, PageStep
  <2>3. ASSUME f.kind = "error" PROVE Genuine(c, Failed(f.what))
    <3>1. Failed(f.what) \in Notices
      BY <2>1, <2>3, KindLaws DEF Notices
    <3> QED BY <3>1 DEF Genuine
  <2> QED BY <1>7, <2>2, <2>3 DEF Fits, Kinds
<1>9. ASSUME NEW i \in 1..Len(t) PROVE Fits(c, client[c].frames[i], Live(page[c], client[c].frames, i))'
  <2>1. PICK h, s : h = t[i] /\ s = Live(g, t, i)
    OBVIOUS
  <2>2. i \in 1..(Len(q) - 1) /\ i \in 1..Len(q) /\ i + 1 \in 1..Len(q)
    BY <1>2
  <2>3. h = q[i + 1] /\ s = Live(p, q, i + 1)
    BY <1>2, <1>3, <2>1, <2>2
  <2>4. Fits(c, h, s)
    BY <1>0, <2>2, <2>3 DEF Real
  <2>5. Fits(c, h, s)'
    BY <1>6, <2>4 DEF Fits
  <2>6. (client[c].frames[i])' = h /\ Live(page[c], client[c].frames, i)' = s
    BY <1>1, <2>1
  <2> QED BY <2>5, <2>6
<1>10. \A e \in client'[c].history : Genuine(c, e)'
  BY <1>1, <1>6 DEF Real
<1>11. \A e \in page'[c].shows : Genuine(c, e)'
  BY <1>1, <1>6, <1>8
<1>12. \A i \in 1..Len(client'[c].frames) : Fits(c, client[c].frames[i], Live(page[c], client[c].frames, i))'
  BY <1>1, <1>9
<1>13. Real(c)'
  BY <1>10, <1>11, <1>12 DEF Real
<1> QED BY <1>4, <1>13

(* What is left of an answer stays, or is ended.                           *)
LEMMA HeardStays ==
    ASSUME NEW c \in Clients, Heard(c), Left(c)' = Left(c), partly[c] \subseteq partly'[c],
           Left(c) # {} => client'[c].room,
           \A m \in Messages : Hears(c, m)' => Hears(c, m) /\ task'[m].chunks = task[m].chunks
    PROVE  Heard(c)'
<1>1. ASSUME NEW m \in Messages, Hears(c, m)'
      PROVE  \/ Left(c)' = {} /\ (task'[m].chunks = 0 \/ m \in partly'[c])
             \/ \E k \in 1..task'[m].chunks : Left(c)' = Ending(m, k)' /\ (k = 1 \/ m \in partly'[c])
  <2>1. Hears(c, m) /\ task'[m].chunks = task[m].chunks
    BY <1>1
  <2>2. \A k : Ending(m, k)' = Ending(m, k)
    BY <2>1 DEF Ending
  <2> QED BY <2>1, <2>2 DEF Heard
<1> QED BY <1>1 DEF Heard

LEMMA HeardEnds ==
    ASSUME NEW c \in Clients, Left(c)' = {},
           \A m \in Messages : Hears(c, m)' => task'[m].chunks = 0 \/ m \in partly'[c]
    PROVE  Heard(c)'
BY DEF Heard

LEMMA TruthQuiet ==
    ASSUME Base, Steady, NEW c \in Clients, Real(c), Heard(c), partly[c] \subseteq partly'[c],
           page'[c] = page[c], client'[c].frames = client[c].frames, client'[c].room = client[c].room,
           \A e \in client'[c].history : Genuine(c, e)' \/ e \in client[c].history,
           \A m \in Messages : Hears(c, m)' => Hears(c, m) /\ task'[m].chunks = task[m].chunks
    PROVE  Real(c)' /\ Heard(c)'
<1>1. \A e : Genuine(c, e) => Genuine(c, e)'
  BY GenuineStays
<1>2. \A e \in client'[c].history : Genuine(c, e)'
  BY <1>1 DEF Real
<1>3. Left(c)' = Left(c)
  BY DEF Left
<1>4. Left(c) # {} => client'[c].room
  BY DEF Heard
<1> QED BY <1>1, <1>2, <1>3, <1>4, RealStays, HeardStays

(* An error sent to c alone: it ends what he has of an answer.             *)
LEMMA TruthTold ==
    ASSUME Base, Steady, NEW c \in Clients, Real(c), Heard(c), NEW f \in Frames, f.kind = "error",
           Queues({c}, f), Breaks(c), c \notin lossy', client'[c].history \subseteq client[c].history,
           \A m \in Messages : Hears(c, m)' =>
               Answering(m) /\ Home(m) = client[c].rep /\ task'[m].chunks = task[m].chunks
    PROVE  Real(c)' /\ Heard(c)'
<1>0. /\ Typing /\ page'[c] = page[c] /\ client'[c].frames = Append(client[c].frames, f)
      /\ partly[c] \subseteq partly'[c] /\ Begun(c) \subseteq partly'[c]
  BY BreaksLaws DEF Base, Queues
<1>1. \A e : Genuine(c, e) => Genuine(c, e)'
  BY <1>0, GenuineStays
<1>2. \A e \in client'[c].history : Genuine(c, e)'
  BY <1>1 DEF Real
<1>3. PICK text : text = Left(c)
  OBVIOUS
<1>4. Fits(c, f, text)'
  BY DEF Fits
<1>5. Real(c)'
  BY <1>0, <1>1, <1>2, <1>3, <1>4, RealGets
<1>6. Left(c)' = {}
  <2>1. PICK p, q, r : p = page[c] /\ q = client[c].frames /\ r = Append(q, f)
    OBVIOUS
  <2>2. p \in Pages /\ q \in Seq(Frames) /\ Ends(f)
    BY <1>0, <2>1 DEF Typing, ClientRows, Ends
  <2>3. Live(p, r, Len(q) + 2) = {} /\ Len(r) + 1 = Len(q) + 2
    BY <2>1, <2>2, LiveAppend, AppendLaws
  <2> QED BY <1>0, <2>1, <2>3 DEF Left
<1>7. ASSUME NEW m \in Messages, Hears(c, m)' PROVE task'[m].chunks = 0 \/ m \in partly'[c]
  <2>1. Answering(m) /\ Home(m) = client[c].rep /\ task'[m].chunks = task[m].chunks
    BY <1>7
  <2>2. task[m].chunks \in Nat
    BY <1>0, ChatAssumption DEF Typing, Tasks
  <2> QED BY <1>0, <2>1, <2>2 DEF Begun
<1> QED BY <1>5, <1>6, <1>7, HeardEnds

(* A connection that is over.                                              *)
LEMMA TruthGone ==
    ASSUME NEW c \in Clients, ~client'[c].room, page'[c] = Blank, client'[c].frames = << >>, client'[c].history = {}
    PROVE  Real(c)' /\ Heard(c)'
<1>1. Left(c)' = {}
  <2>1. Len(<< >>) = 0
    OBVIOUS
  <2>2. Live(Blank, << >>, 1) = {}
    BY BlankLaws, LiveFirst
  <2> QED BY <2>1, <2>2 DEF Left
<1>2. Heard(c)'
  BY <1>1 DEF Heard, Hears
<1>3. Real(c)'
  <2>1. \A i \in 1..Len(<< >>) : FALSE
    OBVIOUS
  <2> QED BY <2>1, BlankLaws DEF Real
<1> QED BY <1>2, <1>3

LEMMA TruthConnection ==
    ASSUME Base, Turns, Truth, NEW b \in Clients,
           \/ \E rep \in Replicas : HandleWebSocket(b, rep)
           \/ AddToRoom(b) \/ FetchConversation(b) \/ ListHistory(b) \/ SendHistory(b) \/ LoadFails(b)
           \/ Deliver(b) \/ Disconnect(b),
           NEW c \in Clients, c \notin lossy'
    PROVE  Real(c)' /\ Heard(c)'
<1>0. Typing /\ Base' /\ Steady /\ UNCHANGED <<conv, task, saved>>
  <2>1. Base' /\ Steady
    BY ConnectionBase
  <2>2. UNCHANGED <<conv, task, saved>>
    BY DEF HandleWebSocket, AddToRoom, FetchConversation, ListHistory, SendHistory, LoadFails, Deliver, Disconnect
  <2> QED BY <2>1, <2>2 DEF Base
<1>1. c \notin lossy => Real(c) /\ Heard(c)
  BY DEF Truth
<1>2. ASSUME c \notin lossy, client'[c].rep = client[c].rep, client'[c].room = client[c].room
      PROVE  \A m \in Messages : Hears(c, m)' => Hears(c, m) /\ task'[m].chunks = task[m].chunks
  BY <1>0, <1>2 DEF Hears, Answering, Home
<1>3. ASSUME c # b PROVE Real(c)' /\ Heard(c)'
  <2>1. c \notin lossy /\ page'[c] = page[c] /\ client'[c] = client[c] /\ partly[c] \subseteq partly'[c]
    <3>1. CASE SendHistory(b)
      <4>1. PICK f : Queues({b}, f) /\ Others(b)
        BY <1>0, <3>1, HistorySteps
      <4>2. partly' = partly
        BY <3>1 DEF SendHistory
      <4> QED BY <1>3, <4>1, <4>2 DEF Queues, Others
    <3>2. CASE LoadFails(b)
      <4>1. PICK f : Queues({b}, f) /\ Others(b)
        BY <1>0, <3>2, HistorySteps
      <4>2. partly[c] \subseteq partly'[c]
        BY <1>0, <3>2, BreaksLaws DEF LoadFails
      <4> QED BY <1>3, <4>1, <4>2 DEF Queues, Others
    <3>3. CASE Deliver(b)
      <4>1. Others(b) /\ page'[c] = page[c]
        BY <1>0, <1>3, <3>3, DeliverSteps
      <4> QED BY <1>3, <3>3, <4>1 DEF Others, Deliver
    <3>4. CASE Disconnect(b)
      <4>1. Over({b}) /\ {b} \in SUBSET Clients
        BY <3>4 DEF Disconnect
      <4> QED BY <1>0, <1>3, <4>1, OverLaws
    <3>5. CASE AddToRoom(b)
      <4>1. Others(b) /\ partly[c] \subseteq partly'[c]
        BY <1>0, <3>5, ConnectionSteps, BreaksLaws DEF AddToRoom
      <4> QED BY <1>3, <3>5, <4>1 DEF Others, AddToRoom
    <3>6. CASE (\E rep \in Replicas : HandleWebSocket(b, rep)) \/ FetchConversation(b) \/ ListHistory(b)
      <4>1. Others(b)
        BY <1>0, <3>6, ConnectionSteps
      <4> QED BY <1>3, <3>6, <4>1 DEF Others, HandleWebSocket, FetchConversation, ListHistory
    <3> QED BY <3>1, <3>2, <3>3, <3>4, <3>5, <3>6
  <2> QED BY <1>0, <1>1, <1>2, <2>1, TruthQuiet
<1>4. ASSUME c = b, NEW rep \in Replicas, HandleWebSocket(c, rep) PROVE Real(c)' /\ Heard(c)'
  <2>1. /\ client'[c].frames = client[c].frames /\ client'[c].history = client[c].history
        /\ client'[c].room = client[c].room
    BY <1>0, <1>4, ConnectionSteps
  <2>2. UNCHANGED <<page, partly, lossy>> /\ ~client[c].room
    BY <1>0, <1>4 DEF HandleWebSocket, Typing, Watching
  <2>3. \A m \in Messages : ~Hears(c, m)'
    BY <2>1, <2>2 DEF Hears
  <2> QED BY <1>0, <1>1, <2>1, <2>2, <2>3, TruthQuiet
<1>5. ASSUME c = b, AddToRoom(c) PROVE Real(c)' /\ Heard(c)'
  <2>1. /\ client'[c].frames = client[c].frames /\ client'[c].history = client[c].history
        /\ client'[c].rep = client[c].rep
    BY <1>0, <1>5, ConnectionSteps DEF Stays
  <2>2. /\ UNCHANGED <<page, lossy>> /\ ~client[c].room
        /\ partly[c] \subseteq partly'[c] /\ Begun(c) \subseteq partly'[c]
    BY <1>0, <1>5, BreaksLaws DEF AddToRoom
  <2>3. \A e : Genuine(c, e) => Genuine(c, e)'
    BY <1>0, <2>2, GenuineStays
  <2>4. Real(c)'
    BY <1>1, <2>1, <2>2, <2>3, RealStays DEF Real
  <2>5. Left(c)' = {}
    BY <1>1, <2>1, <2>2 DEF Heard, Left
  <2>6. ASSUME NEW m \in Messages, Hears(c, m)' PROVE task'[m].chunks = 0 \/ m \in partly'[c]
    <3>1. Answering(m) /\ Home(m) = client[c].rep /\ task'[m].chunks = task[m].chunks
      BY <1>0, <2>1, <2>6 DEF Hears, Answering, Home
    <3>2. task[m].chunks \in Nat
      BY <1>0, ChatAssumption DEF Typing, Tasks
    <3> QED BY <2>2, <3>1, <3>2 DEF Begun
  <2> QED BY <2>4, <2>5, <2>6, HeardEnds
<1>6. ASSUME c = b, FetchConversation(c) PROVE Real(c)' /\ Heard(c)'
  <2>1. /\ client'[c].frames = client[c].frames /\ client'[c].history = client[c].history
        /\ client'[c].room = client[c].room /\ client'[c].rep = client[c].rep /\ UNCHANGED <<page, partly, lossy>>
    BY <1>0, <1>6, ConnectionSteps DEF FetchConversation
  <2> QED BY <1>0, <1>1, <1>2, <2>1, TruthQuiet
<1>7. ASSUME c = b, ListHistory(c) PROVE Real(c)' /\ Heard(c)'
  <2>1. /\ client'[c].frames = client[c].frames /\ client'[c].history = History(c)
        /\ client'[c].room = client[c].room /\ client'[c].rep = client[c].rep /\ UNCHANGED <<page, partly, lossy>>
    BY <1>0, <1>7, ConnectionSteps DEF ListHistory
  <2>2. ASSUME NEW e \in saved PROVE Genuine(c, e)
    <3>1. CASE e \in Messages /\ task[e].at # "unsent"
      BY <2>2, <3>1 DEF Genuine
    <3>2. ASSUME NEW m \in Messages, e = Answer(m), task[m].chunks >= 1, task[m].at \in Given PROVE Genuine(c, e)
      <4>1. 1 \in 1..MaxChunks /\ 1 <= task[m].chunks
        BY <1>0, <3>2, ChatAssumption DEF Typing, Tasks
      <4>2. PICK k \in 1..MaxChunks : k = 1
        BY <4>1
      <4>3. e = Said(Ending(m, k)) /\ k <= task[m].chunks
        BY <3>2, <4>1, <4>2 DEF Answer
      <4> QED BY <3>2, <4>2, <4>3 DEF Genuine
    <3> QED BY <2>2, <3>1, <3>2 DEF Turns, SavedReal
  <2>3. \A e : Genuine(c, e) => Genuine(c, e)'
    BY <1>0, <2>1, GenuineStays
  <2>4. \A e \in client'[c].history : Genuine(c, e)'
    BY <2>1, <2>2, <2>3 DEF History
  <2> QED BY <1>0, <1>1, <1>2, <2>1, <2>4, TruthQuiet
<1>8. ASSUME c = b, SendHistory(c) PROVE Real(c)' /\ Heard(c)'
  <2>1. PICK f : f = Frame("history", client[c].history)
    OBVIOUS
  <2>2. f \in Frames /\ f.kind = "history" /\ f.what = client[c].history
    BY <1>0, <2>1, FrameLaws DEF Typing, ClientRows
  <2>3. Queues({c}, f) /\ client'[c].history = {} /\ partly' = partly
    BY <1>0, <1>8, <2>1, HistorySteps DEF SendHistory
  <2>4. /\ c \notin lossy /\ page'[c] = page[c] /\ client'[c].frames = Append(client[c].frames, f)
        /\ client'[c].rep = client[c].rep /\ client'[c].room = client[c].room
    BY <2>3 DEF Queues
  <2>5. \A e : Genuine(c, e) => Genuine(c, e)'
    BY <1>0, <2>3, GenuineStays
  <2>6. PICK text : text = Left(c)
    OBVIOUS
  <2>7. Fits(c, f, text)'
    BY <1>1, <2>2, <2>4, <2>5 DEF Fits, Real
  <2>8. Real(c)'
    BY <1>0, <1>1, <2>2, <2>3, <2>4, <2>5, <2>6, <2>7, RealGets
  <2>9. Left(c)' = Left(c)
    <3>1. PICK p, q, r : p = page[c] /\ q = client[c].frames /\ r = Append(q, f)
      OBVIOUS
    <3>2. p \in Pages /\ q \in Seq(Frames)
      BY <1>0, <3>1 DEF Typing, ClientRows
    <3>3. Live(p, r, Len(q) + 2) = Live(p, q, Len(q) + 1) /\ Len(r) + 1 = Len(q) + 2
      BY <2>2, <3>1, <3>2, LiveAppend, AppendLaws
    <3> QED BY <2>4, <3>1, <3>3 DEF Left
  <2>10. Left(c) # {} => client'[c].room
    BY <1>1, <2>4 DEF Heard
  <2> QED BY <1>1, <1>2, <2>3, <2>4, <2>8, <2>9, <2>10, HeardStays
<1>9. ASSUME c = b, LoadFails(c) PROVE Real(c)' /\ Heard(c)'
  <2>1. PICK f : f = Frame("error", None)
    OBVIOUS
  <2>2. /\ f \in Frames /\ f.kind = "error" /\ Queues({c}, f) /\ client'[c].history = client[c].history /\ Breaks(c)
    BY <1>0, <1>9, <2>1, FrameLaws, HistorySteps DEF LoadFails
  <2>3. c \notin lossy /\ client'[c].rep = client[c].rep
    BY <2>2 DEF Queues
  <2>4. \A m \in Messages : Hears(c, m)' =>
           Answering(m) /\ Home(m) = client[c].rep /\ task'[m].chunks = task[m].chunks
    BY <1>0, <2>3 DEF Hears, Answering, Home
  <2> QED BY <1>0, <1>1, <2>2, <2>3, <2>4, TruthTold
<1>10. ASSUME c = b, Deliver(c) PROVE Real(c)' /\ Heard(c)'
  <2>1. c \notin lossy /\ partly' = partly /\ client'[c].rep = client[c].rep /\ client'[c].room = client[c].room
    BY <1>0, <1>10, DeliverSteps DEF Deliver
  <2>2. Real(c)' /\ Left(c)' = Left(c)
    BY <1>1, <1>10, <2>1, RealDelivers
  <2>3. Left(c) # {} => client'[c].room
    BY <1>1, <2>1 DEF Heard
  <2> QED BY <1>1, <1>2, <2>1, <2>2, <2>3, HeardStays
<1>11. ASSUME c = b, Disconnect(c) PROVE Real(c)' /\ Heard(c)'
  <2>1. Over({c}) /\ {c} \in SUBSET Clients
    BY <1>11 DEF Disconnect
  <2>2. /\ ~client'[c].room /\ page'[c] = Blank /\ client'[c].frames = << >> /\ client'[c].history = {}
    BY <1>0, <2>1, OverLaws
  <2> QED BY <2>2, TruthGone
<1> QED BY <1>3, <1>4, <1>5, <1>6, <1>7, <1>8, <1>9, <1>10, <1>11

(* A frame broadcast by message k.                                         *)
LEMMA TruthSpeaks ==
    ASSUME Base, Base', Steady, Turns, Turns', Truth, NEW k \in Messages, NEW f, Speaks(k, f), OtherTasks(k),
           task[k].at # "unsent", NEW c \in Clients, c \notin lossy',
           \/ f = Frame("message", k) /\ task'[k].at = "ask"
           \/ f = Frame("typing", None) /\ task'[k].at = "load"
           \/ /\ f = Frame("chunk", Piece(k, task[k].chunks + 1)) /\ Piece(k, task[k].chunks + 1) \in Pieces
              /\ task[k].at = "stream" /\ task'[k].at = "stream" /\ task'[k].chunks = task[k].chunks + 1
           \/ f = Frame("done", k) /\ task[k].at = "done" /\ task'[k].at = "answered" /\ task'[k].chunks = task[k].chunks
           \/ f = Frame("error", k) /\ task[k].at = "error" /\ task'[k].at = "failed"
    PROVE  Real(c)' /\ Heard(c)'
<1>0. Typing /\ f \in Frames /\ Queues(Room(k), f) /\ Stays(c) /\ UNCHANGED <<conv, saved, partly>>
  BY DEF Base, Speaks
<1>1. /\ c \notin lossy /\ page'[c] = page[c] /\ client'[c].rep = client[c].rep /\ client'[c].room = client[c].room
      /\ client'[c].history = client[c].history
      /\ client'[c].frames = IF c \in Room(k) THEN Append(client[c].frames, f) ELSE client[c].frames
  BY <1>0 DEF Queues, Stays
<1>2. Real(c) /\ Heard(c) /\ \A e : Genuine(c, e) => Genuine(c, e)'
  BY <1>0, <1>1, GenuineStays DEF Truth
<1>3. Home(k)' = Home(k)
  BY DEF Steady, Home
<1>4. ASSUME NEW m \in Messages, m # k, Hears(c, m)'
      PROVE  Hears(c, m) /\ task'[m].chunks = task[m].chunks /\ Home(m)' = Home(m)
  BY <1>1, <1>4 DEF OtherTasks, Hears, Answering, Home
<1>5. CASE c \notin Room(k)
  <2>1. ~Hears(c, k)'
    BY <1>1, <1>3, <1>5 DEF Hears, Room, InRoom
  <2> QED BY <1>0, <1>1, <1>2, <1>4, <1>5, <2>1, TruthQuiet
<1>6. CASE c \in Room(k)
  <2>1. client[c].rep = Home(k) /\ client[c].room /\ client'[c].frames = Append(client[c].frames, f)
    BY <1>1, <1>6 DEF Room, InRoom
  <2>2. PICK p, q, r, text : p = page[c] /\ q = client[c].frames /\ r = Append(q, f) /\ text = Left(c)
    OBVIOUS
  <2>3. p \in Pages /\ q \in Seq(Frames)
    BY <1>0, <2>2 DEF Typing, ClientRows
  <2>4. Left(c)' = Live(p, r, Len(q) + 2) /\ Left(c) = Live(p, q, Len(q) + 1)
    <3>1. Len(r) + 1 = Len(q) + 2
      BY <1>0, <2>2, <2>3, AppendLaws
    <3> QED BY <1>1, <2>1, <2>2, <3>1 DEF Left
  <2>5. ASSUME Fits(c, f, text)' PROVE Real(c)'
    <3>1. \A e \in client'[c].history : Genuine(c, e)'
      BY <1>1, <1>2 DEF Real
    <3> QED BY <1>0, <1>1, <1>2, <2>1, <2>2, <2>5, <3>1, RealGets
  <2>6. /\ Ends(f) => Left(c)' = {}
        /\ f.kind = "chunk" => Left(c)' = Left(c) \cup {f.what}
        /\ f.kind = "message" => Left(c)' = Left(c)
    BY <1>0, <2>2, <2>3, <2>4, LiveAppend
  (* Nobody else is answering in the room.                                 *)
  <2>7. ASSUME NEW m \in Messages, m # k, Hears(c, m)' PROVE ~Answering(k) /\ ~Answering(k)'
    <3>1. Answering(m) /\ Answering(m)' /\ Home(m) = Home(k) /\ Home(m)' = Home(k)'
      BY <1>1, <1>3, <1>4, <2>1, <2>7 DEF Hears
    <3>2. Exclusive /\ Exclusive'
      BY DEF Turns
    <3>3. ~Answering(k)
      BY <2>7, <3>1, <3>2 DEF Exclusive
    <3>4. ~Answering(k)'
      BY <2>7, <3>1, <3>2 DEF Exclusive
    <3> QED BY <3>3, <3>4
  <2>8. CASE f = Frame("message", k) /\ task'[k].at = "ask"
    <3>1. f.kind = "message" /\ f.what = k
      BY <2>8, FrameLaws
    <3>2. Genuine(c, k)'
      <4>1. task'[k].conv = conv' => k \in saved'
        BY <2>8 DEF Turns, Begins
      <4> QED BY <2>8, <4>1 DEF Genuine
    <3>3. Fits(c, f, text)'
      BY <3>1, <3>2 DEF Fits
    <3>4. ~Hears(c, k)'
      BY <2>8 DEF Hears, Answering
    <3>5. Heard(c)'
      BY <1>0, <1>1, <1>2, <1>4, <2>1, <2>6, <3>1, <3>4, HeardStays
    <3> QED BY <2>5, <3>3, <3>5
  <2>9. CASE f = Frame("typing", None) /\ task'[k].at = "load"
    <3>1. f.kind = "typing" /\ Ends(f)
      BY <2>9, FrameLaws DEF Ends
    <3>2. Fits(c, f, text)'
      BY <3>1 DEF Fits
    <3>3. task'[k].chunks = 0
      BY <2>9 DEF Turns, Begins
    <3>4. Answering(k)'
      BY <2>9 DEF Answering
    <3>5. Heard(c)'
      BY <2>6, <2>7, <3>1, <3>3, <3>4, HeardEnds
    <3> QED BY <2>5, <3>2, <3>5
  <2>10. CASE /\ f = Frame("done", k) /\ task[k].at = "done" /\ task'[k].at = "answered"
              /\ task'[k].chunks = task[k].chunks
    <3>1. f.kind = "done" /\ Ends(f)
      BY <2>10, FrameLaws DEF Ends
    <3>2. Answering(k) /\ Hears(c, k) /\ ~Hears(c, k)'
      BY <2>1, <2>10 DEF Answering, Hears
    <3>3. text = {} \/ \E j \in 1..task[k].chunks : text = Ending(k, j) /\ (j = 1 \/ k \in partly[c])
      BY <1>2, <2>2, <3>2 DEF Heard
    <3>4. ASSUME NEW j \in 1..task[k].chunks, text = Ending(k, j), j = 1 \/ k \in partly[c]
          PROVE  Genuine(c, Said(text))'
      <4>1. j \in 1..MaxChunks /\ j <= task[k].chunks
        BY <1>0, <3>4, ChatAssumption DEF Typing, Tasks
      <4>2. task'[k].at \in Given /\ task'[k].chunks = task[k].chunks
        BY <2>10 DEF Given
      <4>3. Ending(k, j)' = Ending(k, j)
        BY <4>2 DEF Ending
      <4>4. Said(text) = Said(Ending(k, j)')
        BY <3>4, <4>3
      <4> QED BY <1>0, <3>4, <4>1, <4>2, <4>4 DEF Genuine
    <3>5. Fits(c, f, text)'
      BY <3>1, <3>3, <3>4 DEF Fits
    <3>6. Heard(c)'
      BY <2>6, <2>7, <3>1, <3>2, HeardEnds
    <3> QED BY <2>5, <3>5, <3>6
  <2>11. CASE f = Frame("error", k) /\ task[k].at = "error" /\ task'[k].at = "failed"
    <3>1. f.kind = "error" /\ Ends(f)
      BY <2>11, FrameLaws DEF Ends
    <3>2. Fits(c, f, text)'
      BY <3>1 DEF Fits
    <3>3. Answering(k) /\ ~Hears(c, k)'
      BY <2>11 DEF Answering, Hears
    <3>4. Heard(c)'
      BY <2>6, <2>7, <3>1, <3>3, HeardEnds
    <3> QED BY <2>5, <3>2, <3>4
  <2>12. CASE /\ f = Frame("chunk", Piece(k, task[k].chunks + 1)) /\ Piece(k, task[k].chunks + 1) \in Pieces
              /\ task[k].at = "stream" /\ task'[k].at = "stream" /\ task'[k].chunks = task[k].chunks + 1
    <3>1. PICK n : n = task[k].chunks
      OBVIOUS
    <3>2. f.kind = "chunk" /\ f.what = Piece(k, n + 1) /\ n \in Nat /\ task'[k].chunks = n + 1
      BY <1>0, <2>12, <3>1, FrameLaws, ChatAssumption DEF Typing, Tasks
    <3>3. Left(c)' = Left(c) \cup {Piece(k, n + 1)}
      BY <2>6, <3>2
    <3>4. Fits(c, f, text)'
      BY <3>2 DEF Fits
    <3>5. Answering(k) /\ Hears(c, k)
      BY <2>1, <2>12 DEF Answering, Hears
    <3>6. ASSUME NEW j \in 1..(n + 1) PROVE Ending(k, j)' = Ending(k, j) \cup {Piece(k, n + 1)}
      <4>1. j..(n + 1) = (j..n) \cup {n + 1}
        BY <3>2, <3>6
      <4>2. Ending(k, j)' = {Piece(k, i) : i \in j..(n + 1)} /\ Ending(k, j) = {Piece(k, i) : i \in j..n}
        BY <3>1, <3>2 DEF Ending
      <4> QED BY <4>1, <4>2
    <3>7. \E j \in 1..(n + 1) : Left(c)' = Ending(k, j)' /\ (j = 1 \/ k \in partly'[c])
      <4>1. CASE Left(c) = {} /\ (n = 0 \/ k \in partly[c])
        <5>1. Ending(k, n + 1) = {}
          <6>1. \A i \in (n + 1)..n : FALSE
            BY <3>2
          <6> QED BY <3>1, <6>1 DEF Ending
        <5>2. n + 1 \in 1..(n + 1) /\ (n + 1 = 1 \/ k \in partly'[c])
          BY <1>0, <3>2, <4>1
        <5>3. Ending(k, n + 1)' = Ending(k, n + 1) \cup {Piece(k, n + 1)}
          BY <3>6, <5>2
        <5> QED BY <3>3, <4>1, <5>1, <5>2, <5>3
      <4>2. ASSUME NEW j \in 1..n, Left(c) = Ending(k, j), j = 1 \/ k \in partly[c]
            PROVE  \E i \in 1..(n + 1) : Left(c)' = Ending(k, i)' /\ (i = 1 \/ k \in partly'[c])
        <5>1. j \in 1..(n + 1)
          BY <3>2, <4>2
        <5>2. Left(c)' = Ending(k, j)'
          BY <3>3, <3>6, <4>2, <5>1
        <5> QED BY <1>0, <4>2, <5>1, <5>2
      <4> QED BY <1>2, <3>1, <3>5, <4>1, <4>2 DEF Heard
    <3>8. client'[c].room
      BY <1>1, <2>1
    <3>9. \A m \in Messages : Hears(c, m)' => m = k
      BY <2>7, <3>5
    <3>10. Heard(c)'
      BY <3>2, <3>7, <3>8, <3>9 DEF Heard
    <3> QED BY <2>5, <3>4, <3>10
  <2> QED BY <2>8, <2>9, <2>10, <2>11, <2>12
<1> QED BY <1>5, <1>6

LEMMA TruthMessage ==
    ASSUME Base, Base', Steady, Turns, Turns', Truth, NEW k \in Messages, TaskStep(k) \/ ProviderStep(k),
           NEW c \in Clients, c \notin lossy'
    PROVE  Real(c)' /\ Heard(c)'
<1>0. Typing /\ (c \notin lossy => Real(c) /\ Heard(c))
  BY DEF Base, Truth
<1>1. ASSUME UNCHANGED <<client, page, partly, lossy>>, OtherTasks(k), Hears(c, k)' => Hears(c, k) /\ task'[k].chunks = task[k].chunks
      PROVE  Real(c)' /\ Heard(c)'
  <2>1. ASSUME NEW m \in Messages, Hears(c, m)' PROVE Hears(c, m) /\ task'[m].chunks = task[m].chunks
    <3>1. CASE m = k
      BY <1>1, <2>1, <3>1
    <3>2. CASE m # k
      BY <1>1, <2>1, <3>2 DEF OtherTasks, Hears, Answering, Home
    <3> QED BY <3>1, <3>2
  <2> QED BY <1>0, <1>1, <2>1, TruthQuiet
<1>2. ASSUME NEW stage, Comes(k, stage), UNCHANGED client, task'[k].chunks = task[k].chunks,
             stage \in {"stream", "keep", "done"} => task[k].at \in {"load", "stream", "keep"}
      PROVE  OtherTasks(k) /\ (stage \notin {"load"} => (Hears(c, k)' => Hears(c, k) /\ task'[k].chunks = task[k].chunks))
  BY <1>2 DEF Comes, Hears, Answering, Home
<1>3. CASE SaveMessage(k)
  BY <1>1, <1>2, <1>3, SilentSteps
<1>4. CASE SaveFails(k)
  <2>1. PICK b, f : b = task[k].by /\ f = Frame("error", k)
    OBVIOUS
  <2>2. b \in Clients /\ Tells(b, f) /\ Stays(b) /\ Comes(k, "failed")
    BY <1>0, <1>4, <2>1, SilentSteps, StageSteps
  <2>3. /\ Queues({b}, f) /\ f \in Frames /\ f.kind = "error" /\ Others(b) /\ Breaks(b)
    BY <2>2 DEF Tells
  <2>4. /\ c \notin lossy /\ client'[c].rep = client[c].rep /\ client'[c].room = client[c].room
        /\ client'[c].history = client[c].history /\ partly[c] \subseteq partly'[c]
    BY <1>0, <2>2, <2>3, BreaksLaws DEF Queues, Others, Stays
  <2>5. \A m \in Messages : Hears(c, m)' => Hears(c, m) /\ task'[m].chunks = task[m].chunks
    BY <2>2, <2>4 DEF Comes, OtherTasks, Hears, Answering, Home
  <2>6. CASE c = b
    <3>1. \A m \in Messages : Hears(c, m)' =>
             Answering(m) /\ Home(m) = client[c].rep /\ task'[m].chunks = task[m].chunks
      BY <2>5 DEF Hears
    <3> QED BY <1>0, <2>3, <2>4, <2>6, <3>1, TruthTold
  <2>7. CASE c # b
    <3>1. page'[c] = page[c] /\ client'[c].frames = client[c].frames
      BY <2>3, <2>7 DEF Queues
    <3> QED BY <1>0, <2>4, <2>5, <3>1, TruthQuiet
  <2> QED BY <2>6, <2>7
<1>5. CASE BroadcastMessage(k)
  <2>1. Speaks(k, Frame("message", k)) /\ Comes(k, "ask") /\ task[k].at = "send"
    BY <1>0, <1>5, SpeakingSteps, StageSteps DEF BroadcastMessage
  <2>2. OtherTasks(k) /\ task'[k].at = "ask"
    BY <2>1 DEF Comes
  <2> QED BY <2>1, <2>2, TruthSpeaks
<1>6. CASE AcquireAILock(k)
  <2>1. Speaks(k, Frame("typing", None)) /\ Comes(k, "load") /\ task[k].at = "ask"
    BY <1>0, <1>6, SpeakingSteps DEF AcquireAILock
  <2>2. OtherTasks(k) /\ task'[k].at = "load"
    BY <2>1 DEF Comes
  <2> QED BY <2>1, <2>2, TruthSpeaks
<1>7. CASE LoadHistory(k)
  <2>1. /\ UNCHANGED <<client, page, partly, lossy>> /\ task[k].at = "load" /\ task'[k].chunks = task[k].chunks
        /\ Comes(k, "error") \/ Comes(k, "stream")
    BY <1>0, <1>7, SilentSteps, StageSteps DEF LoadHistory
  <2> QED BY <1>1, <1>2, <2>1
<1>8. CASE StreamChunk(k)
  <2>1. /\ Piece(k, task[k].chunks + 1) \in Pieces /\ Speaks(k, Frame("chunk", Piece(k, task[k].chunks + 1)))
        /\ Comes(k, "stream") /\ task'[k].chunks = task[k].chunks + 1 /\ task[k].at = "stream"
    BY <1>0, <1>8, SpeakingSteps, StageSteps DEF StreamChunk
  <2>2. OtherTasks(k) /\ task'[k].at = "stream"
    BY <2>1 DEF Comes
  <2> QED BY <2>1, <2>2, TruthSpeaks
<1>9. CASE StreamEnds(k)
  <2>1. /\ UNCHANGED <<client, page, partly, lossy>> /\ task[k].at = "stream" /\ task'[k].chunks = task[k].chunks
        /\ Comes(k, "done") \/ Comes(k, "keep")
    BY <1>0, <1>9, SilentSteps, StageSteps DEF StreamEnds
  <2> QED BY <1>1, <1>2, <2>1
<1>10. CASE StreamFails(k)
  <2>1. UNCHANGED <<client, page, partly, lossy>> /\ Comes(k, "error")
    BY <1>0, <1>10, SilentSteps, StageSteps
  <2>2. OtherTasks(k) /\ ~Hears(c, k)'
    BY <2>1 DEF Comes, Hears
  <2> QED BY <1>1, <2>1, <2>2
<1>11. CASE SaveAnswer(k)
  <2>1. /\ UNCHANGED <<client, page, partly, lossy>> /\ task[k].at = "keep" /\ task'[k].chunks = task[k].chunks
        /\ Comes(k, "done")
    BY <1>11, SilentSteps DEF SaveAnswer
  <2> QED BY <1>1, <1>2, <2>1
<1>12. CASE BroadcastDone(k)
  <2>1. /\ Speaks(k, Frame(task[k].at, k)) /\ task'[k].chunks = task[k].chunks
        /\ \/ task[k].at = "done" /\ Comes(k, "answered")
           \/ task[k].at = "error" /\ Comes(k, "failed")
    BY <1>0, <1>12, SpeakingSteps
  <2>2. OtherTasks(k) /\ (task[k].at = "done" => task'[k].at = "answered") /\ (task[k].at = "error" => task'[k].at = "failed")
    BY <2>1 DEF Comes
  <2> QED BY <2>1, <2>2, TruthSpeaks
<1> QED BY <1>3, <1>4, <1>5, <1>6, <1>7, <1>8, <1>9, <1>10, <1>11, <1>12 DEF TaskStep, ProviderStep

LEMMA TruthStep ==
    ASSUME Base, Base', Steady, Turns, Turns', Truth, Next \/ UNCHANGED vars
    PROVE  Truth'
<1> SUFFICES ASSUME NEW c \in Clients, c \notin lossy' PROVE Real(c)' /\ Heard(c)'
  BY DEF Truth
<1>0. Typing /\ (c \notin lossy => Real(c) /\ Heard(c))
  BY DEF Base, Truth
<1>1. ASSUME NEW b \in Clients, NEW k \in Messages, SendMessage(b, k) PROVE Real(c)' /\ Heard(c)'
  <2>1. /\ OtherTasks(k) /\ task'[k].at = "save" /\ UNCHANGED <<client, page, partly, lossy>>
    BY <1>0, <1>1, SendingSteps
  <2>2. ~Hears(c, k)'
    BY <2>1 DEF Hears, Answering
  <2>3. \A m \in Messages : Hears(c, m)' => Hears(c, m) /\ task'[m].chunks = task[m].chunks
    BY <2>1, <2>2 DEF OtherTasks, Hears, Answering, Home
  <2> QED BY <1>0, <2>1, <2>3, TruthQuiet
<1>2. ASSUME UNCHANGED <<client, page, task, partly, lossy>> PROVE Real(c)' /\ Heard(c)'
  <2>1. \A m \in Messages : Hears(c, m)' => Hears(c, m) /\ task'[m].chunks = task[m].chunks
    BY <1>2 DEF Hears, Answering, Home
  <2> QED BY <1>0, <1>2, <2>1, TruthQuiet
<1>3. DeleteConversation \/ UNCHANGED vars => UNCHANGED <<client, page, task, partly, lossy>>
  BY DEF DeleteConversation, vars
<1>4. ASSUME NEW rep \in Replicas, Dies(rep) PROVE Real(c)' /\ Heard(c)'
  <2>1. PICK gone \in SUBSET Clients : Over(gone)
    BY <1>4 DEF Dies
  <2>2. CASE c \in gone
    BY <1>0, <2>1, <2>2, OverLaws, TruthGone
  <2>3. CASE c \notin gone
    <3>1. c \notin lossy /\ client'[c] = client[c] /\ page'[c] = page[c] /\ partly'[c] = partly[c]
      BY <1>0, <2>1, <2>3, OverLaws
    <3>2. \A m \in Messages : task'[m] = task[m] \/ task'[m].at = "cut"
      BY <1>0, <1>4, DyingSteps
    <3>3. \A m \in Messages : Hears(c, m)' => Hears(c, m) /\ task'[m].chunks = task[m].chunks
      BY <3>1, <3>2 DEF Hears, Answering, Home
    <3> QED BY <1>0, <3>1, <3>3, TruthQuiet
  <2> QED BY <2>2, <2>3
<1> QED BY <1>1, <1>2, <1>3, <1>4, TruthConnection, TruthMessage DEF Next

LEMMA TruthInit == Init => Truth
<1> SUFFICES ASSUME Init, NEW c \in Clients PROVE Real(c) /\ Heard(c)
  BY DEF Truth
<1>1. page[c] = Blank /\ client[c].frames = << >> /\ client[c].history = {} /\ \A m \in Messages : task[m].at = "unsent"
  BY DEF Init
<1>2. Left(c) = {}
  <2>1. Len(<< >>) = 0
    OBVIOUS
  <2>2. Live(Blank, << >>, 1) = {}
    BY BlankLaws, LiveFirst
  <2> QED BY <1>1, <2>1, <2>2 DEF Left
<1>3. Heard(c)
  BY <1>1, <1>2 DEF Heard, Hears, Answering
<1>4. \A i \in 1..Len(<< >>) : FALSE
  OBVIOUS
<1> QED BY <1>1, <1>3, <1>4, BlankLaws DEF Real

(* What a browser shows is a message of the conversation or the answer to  *)
(* one message: never text of two answers run together, nor of one that    *)
(* failed; and what of an answer it may miss is its beginning, if that had *)
(* come when he was let in or told of an error.                            *)
THEOREM NothingInvented == Spec => []ShownIsReal
<1>1. Init => Base /\ Turns /\ Truth
  BY BaseInit, TurnsInit, TruthInit
<1>2. Base /\ Turns /\ Truth /\ [Next]_vars => (Base /\ Turns /\ Truth)'
  BY BaseStep, TurnsStep, TruthStep
<1>3. Truth => ShownIsReal
  BY DEF Truth, Real, Genuine, ShownIsReal, Given
<1> QED BY <1>1, <1>2, <1>3, PTL DEF Spec

-----------------------------------------------------------------------------
(* What a browser is about to show, from its page p and the frames q.      *)

Brings(p, q, i, m) ==
    IF i = 0 THEN m \in p.shows
    ELSE q[i] = Frame("message", m) \/ (q[i].kind = "history" /\ m \in q[i].what)
Coming(p, q, m) ==
    \E i \in 0..Len(q) :
        Brings(p, q, i, m) /\ \A j \in (i + 1)..Len(q) : q[j].kind = "history" => m \in q[j].what

(* It is told that there is no history; a history is on its way.           *)
NoHistory == Frame("error", None)
Told(p, q) == Failed(None) \in p.shows \/ \E i \in 1..Len(q) : q[i] = NoHistory
Historied(q) == \E i \in 1..Len(q) : q[i].kind = "history"

LEMMA SoonComing ==
    ASSUME Typing, NEW c \in Clients, NEW m \in Messages
    PROVE  /\ m \in Soon(c) <=> Coming(page[c], client[c].frames, m)
           /\ HasNoHistory(c) <=> Told(page[c], client[c].frames)
<1>1. m \in Soon(c) <=> Coming(page[c], client[c].frames, m)
  BY DEF Soon, Coming, Brings
<1>2. client[c].frames \in Seq(Frames)
  BY DEF Typing, ClientRows
<1>3. DOMAIN client[c].frames = 1..Len(client[c].frames)
  BY <1>2
<1> QED BY <1>1, <1>3 DEF HasNoHistory, Told, NoHistory

LEMMA ComingAppend ==
    ASSUME NEW p \in Pages, NEW q \in Seq(Frames), NEW f \in Frames, NEW m \in Messages,
           \/ Coming(p, q, m) /\ (f.kind = "history" => m \in f.what)
           \/ f = Frame("message", m) \/ (f.kind = "history" /\ m \in f.what)
    PROVE  Coming(p, Append(q, f), m)
<1>0. PICK r, n : r = Append(q, f) /\ n = Len(q)
  OBVIOUS
<1>1. n \in Nat /\ Len(r) = n + 1 /\ r[n + 1] = f /\ \A i \in 1..n : r[i] = q[i]
  BY <1>0, AppendLaws
<1>2. CASE Coming(p, q, m) /\ (f.kind = "history" => m \in f.what)
  <2>1. PICK i \in 0..n : Brings(p, q, i, m) /\ \A j \in (i + 1)..n : q[j].kind = "history" => m \in q[j].what
    BY <1>0, <1>2 DEF Coming
  <2>2. i \in 0..(n + 1) /\ Brings(p, r, i, m)
    BY <1>1, <2>1 DEF Brings
  <2>3. ASSUME NEW j \in (i + 1)..(n + 1), r[j].kind = "history" PROVE m \in r[j].what
    <3>1. CASE j = n + 1
      BY <1>1, <1>2, <2>3, <3>1
    <3>2. CASE j # n + 1
      <4>1. j \in (i + 1)..n /\ j \in 1..n
        BY <1>1, <2>1, <2>3, <3>2
      <4> QED BY <1>1, <2>1, <2>3, <4>1
    <3> QED BY <3>1, <3>2
  <2> QED BY <1>0, <1>1, <2>2, <2>3 DEF Coming
<1>3. CASE f = Frame("message", m) \/ (f.kind = "history" /\ m \in f.what)
  <2>1. n + 1 \in 0..(n + 1) /\ Brings(p, r, n + 1, m)
    BY <1>1, <1>3 DEF Brings
  <2>2. \A j \in (n + 1 + 1)..(n + 1) : FALSE
    BY <1>1
  <2> QED BY <1>0, <1>1, <2>1, <2>2 DEF Coming
<1> QED BY <1>2, <1>3

LEMMA ComingDeliver ==
    ASSUME NEW p \in Pages, NEW q \in Seq(Frames), q # << >>, NEW m \in Messages, Coming(p, q, m)
    PROVE  Coming(Shown(p, q[1]), Tail(q), m)
<1>0. PICK t, n, g : t = Tail(q) /\ n = Len(t) /\ g = Shown(p, q[1])
  OBVIOUS
<1>1. /\ n \in Nat /\ Len(q) = n + 1 /\ t \in Seq(Frames) /\ q[1] \in Frames
      /\ \A i \in 1..n : t[i] = q[i + 1]
  BY <1>0, TailLaws
<1>2. PICK i \in 0..(n + 1) : Brings(p, q, i, m) /\ \A j \in (i + 1)..(n + 1) : q[j].kind = "history" => m \in q[j].what
  BY <1>1 DEF Coming
<1>3. ASSUME NEW k \in Nat, k <= n, k + 1 >= i
      PROVE  \A j \in (k + 1)..n : t[j].kind = "history" => m \in t[j].what
  <2>1. ASSUME NEW j \in (k + 1)..n, t[j].kind = "history" PROVE m \in t[j].what
    <3>1. j + 1 \in (i + 1)..(n + 1) /\ t[j] = q[j + 1]
      BY <1>1, <1>2, <1>3, <2>1
    <3> QED BY <1>2, <2>1, <3>1
  <2> QED BY <2>1
<1>4. CASE i >= 2
  <2>1. i - 1 \in 1..n /\ t[i - 1] = q[i] /\ (i - 1) + 1 >= i
    BY <1>1, <1>2, <1>4
  <2>2. Brings(g, t, i - 1, m)
    BY <1>2, <1>4, <2>1 DEF Brings
  <2>3. \A j \in ((i - 1) + 1)..n : t[j].kind = "history" => m \in t[j].what
    <3>1. PICK k : k = i - 1
      OBVIOUS
    <3>2. k \in Nat /\ k <= n /\ k + 1 >= i
      BY <1>1, <1>2, <2>1, <3>1
    <3>3. \A j \in (k + 1)..n : t[j].kind = "history" => m \in t[j].what
      BY <1>3, <3>2
    <3> QED BY <3>1, <3>3
  <2> QED BY <1>0, <1>1, <2>1, <2>2, <2>3 DEF Coming
<1>5. CASE i < 2
  <2>0. /\ q[1].kind = "history" => g.shows = q[1].what
        /\ q[1].kind = "message" => q[1].what \in g.shows
        /\ q[1].kind # "history" => p.shows \subseteq g.shows
    <3>1. PICK f \in Frames : f = q[1] /\ g = Shown(p, f)
      BY <1>0, <1>1
    <3>2. /\ f.kind \in Kinds
          /\ f.kind = "history" => g.shows = f.what
          /\ f.kind = "message" => g.shows = p.shows \cup {f.what}
          /\ f.kind \in {"typing", "chunk"} => g.shows = p.shows
          /\ f.kind = "done" => g.shows = p.shows \cup (IF p.text = {} THEN {} ELSE {Said(p.text)})
          /\ f.kind = "error" => g.shows = p.shows \cup {Failed(f.what)}
      BY <3>1, PageStep
    <3> QED BY <3>1, <3>2 DEF Kinds
  <2>1. m \in g.shows
    <3>1. CASE i = 1 /\ q[1] = Frame("message", m)
      <4>1. q[1].kind = "message" /\ q[1].what = m
        BY <3>1, FrameLaws
      <4> QED BY <2>0, <4>1
    <3>2. CASE q[1].kind = "history" /\ m \in q[1].what
      BY <2>0, <3>2
    <3>3. CASE i = 0 /\ q[1].kind # "history"
      BY <1>2, <2>0, <3>3 DEF Brings
    <3>4. CASE i = 0 /\ q[1].kind = "history"
      BY <1>1, <1>2, <3>2, <3>4
    <3> QED BY <1>2, <1>5, <3>1, <3>2, <3>3, <3>4 DEF Brings
  <2>2. Brings(g, t, 0, m) /\ 0 \in 0..n
    BY <1>1, <2>1 DEF Brings
  <2>3. \A j \in (0 + 1)..n : t[j].kind = "history" => m \in t[j].what
    BY <1>1, <1>2, <1>3, <1>5
  <2> QED BY <1>0, <1>1, <2>2, <2>3 DEF Coming
<1> QED BY <1>1, <1>2, <1>4, <1>5

LEMMA ToldAppend ==
    ASSUME NEW p \in Pages, NEW q \in Seq(Frames), NEW f \in Frames
    PROVE  /\ Told(p, Append(q, f)) <=> Told(p, q) \/ f = NoHistory
           /\ Historied(Append(q, f)) <=> Historied(q) \/ f.kind = "history"
<1>0. PICK r, n : r = Append(q, f) /\ n = Len(q)
  OBVIOUS
<1>1. n \in Nat /\ Len(r) = n + 1 /\ r[n + 1] = f /\ \A i \in 1..n : r[i] = q[i]
  BY <1>0, AppendLaws
<1>2. n + 1 \in 1..(n + 1) /\ \A i \in 1..(n + 1) : i \in 1..n \/ i = n + 1
  BY <1>1
<1>3. \A i \in 1..n : i \in 1..(n + 1)
  BY <1>1
<1>4. Told(p, r) <=> Told(p, q) \/ f = NoHistory
  BY <1>0, <1>1, <1>2, <1>3 DEF Told
<1>5. Historied(r) <=> Historied(q) \/ f.kind = "history"
  BY <1>0, <1>1, <1>2, <1>3 DEF Historied
<1> QED BY <1>0, <1>4, <1>5

LEMMA ToldDeliver ==
    ASSUME NEW p \in Pages, NEW q \in Seq(Frames), q # << >>
    PROVE  /\ Told(p, q) /\ ~Historied(q) => Told(Shown(p, q[1]), Tail(q))
           /\ Told(Shown(p, q[1]), Tail(q)) => Told(p, q)
           /\ Historied(Tail(q)) => Historied(q)
<1>0. PICK t, f, g : t = Tail(q) /\ f = q[1] /\ g = Shown(p, f)
  OBVIOUS
<1>1. /\ Len(q) \in Nat /\ Len(q) > 0 /\ Len(t) = Len(q) - 1 /\ f \in Frames
      /\ \A i \in 1..Len(t) : t[i] = q[i + 1] /\ i + 1 \in 1..Len(q)
      /\ \A i \in 1..Len(q) : i = 1 \/ (i - 1 \in 1..Len(t) /\ q[i] = t[i - 1])
  <2>1. Len(q) \in Nat /\ Len(q) > 0 /\ Len(t) = Len(q) - 1 /\ f \in Frames /\ \A i \in 1..(Len(q) - 1) : t[i] = q[i + 1]
    BY <1>0, TailLaws
  <2>2. \A i \in 1..Len(q) : i = 1 \/ (i - 1 \in 1..(Len(q) - 1) /\ (i - 1) + 1 = i)
    BY <2>1
  <2>3. \A i \in 1..(Len(q) - 1) : i + 1 \in 1..Len(q)
    BY <2>1
  <2> QED BY <2>1, <2>2, <2>3
<1>2. Historied(t) => Historied(q)
  BY <1>1 DEF Historied
<1>3. 1 \in 1..Len(q)
  BY <1>1
<1>4. /\ f.kind \in Kinds
      /\ f.kind = "history" => g.shows = f.what
      /\ f.kind = "message" => g.shows = p.shows \cup {f.what}
      /\ f.kind \in {"typing", "chunk"} => g.shows = p.shows
      /\ f.kind = "done" => g.shows = p.shows \cup (IF p.text = {} THEN {} ELSE {Said(p.text)})
      /\ f.kind = "error" => g.shows = p.shows \cup {Failed(f.what)}
  BY <1>0, <1>1, PageStep
<1>5. f = NoHistory <=> f.kind = "error" /\ f.what = None
  BY <1>1, KindLaws, FrameLaws DEF NoHistory
<1>6. ASSUME Told(p, q), ~Historied(q) PROVE Told(g, t)
  <2>1. f.kind # "history"
    BY <1>0, <1>3, <1>6 DEF Historied
  <2>2. CASE Failed(None) \in p.shows
    BY <1>4, <2>1, <2>2 DEF Told, Kinds
  <2>3. CASE f = NoHistory
    BY <1>4, <1>5, <2>3 DEF Told
  <2>4. CASE \E i \in 1..Len(q) : i # 1 /\ q[i] = NoHistory
    BY <1>1, <2>4 DEF Told
  <2> QED BY <1>0, <1>6, <2>2, <2>3, <2>4 DEF Told
<1>7. ASSUME Told(g, t) PROVE Told(p, q)
  <2>1. CASE \E i \in 1..Len(t) : t[i] = NoHistory
    BY <1>1, <2>1 DEF Told
  <2>2. CASE Failed(None) \in g.shows
    <3>1. Failed(None) \in Notices /\ Failed(None) \notin Messages
      BY ChatAssumption DEF Notices
    <3>2. \A s : Failed(None) # Said(s)
      BY DEF Failed, Said
    <3>3. Failed(None) \notin Entries
      BY <3>1, <3>2 DEF Entries, Answers
    <3>4. \A x : Failed(x) = Failed(None) => x = None
      BY DEF Failed
    <3>5. CASE f.kind = "history"
      <4>1. f.what \in SUBSET Entries
        BY <1>1, <3>5, KindLaws
      <4> QED BY <1>4, <2>2, <3>3, <3>5, <4>1
    <3>6. CASE f.kind = "message"
      <4>1. f.what \in Messages
        BY <1>1, <3>6, KindLaws
      <4> QED BY <1>4, <2>2, <3>1, <3>6, <4>1 DEF Told
    <3>7. CASE f.kind = "error"
      <4>1. Failed(None) \in p.shows \/ f = NoHistory
        BY <1>4, <1>5, <2>2, <3>4, <3>7
      <4> QED BY <1>0, <1>3, <4>1 DEF Told
    <3>8. CASE f.kind \in {"typing", "chunk", "done"}
      BY <1>4, <2>2, <3>2, <3>8 DEF Told
    <3> QED BY <1>4, <3>5, <3>6, <3>7, <3>8 DEF Kinds
  <2> QED BY <1>7, <2>1, <2>2 DEF Told
<1> QED BY <1>0, <1>2, <1>6, <1>7

(* What a member who is connected will know of message m; what one who is  *)
(* still being set up has read, or will read; and that one who is told     *)
(* that he has no history gets none that would hide it.                    *)
Informed(c, m) ==
    (client[c].rep = Home(m) /\ task[m].at # "send") =>
        /\ client[c].at = "on" =>
              Coming(page[c], client[c].frames, m) \/ m \in crossed[c] \/ Told(page[c], client[c].frames)
        /\ client[c].at = "listed" => m \in client[c].history \/ m \in crossed[c]
        /\ client[c].at = "fetched" /\ client[c].conv # conv => m \in crossed[c]

Unread(c) ==
    /\ client[c].at # "on" => ~Told(page[c], client[c].frames) /\ ~Historied(client[c].frames)
    /\ ~(Told(page[c], client[c].frames) /\ Historied(client[c].frames))

Known(c) == Unread(c) /\ \A m \in saved \cap Messages : Informed(c, m)
Listed == \A c \in Clients \ lossy : Known(c)

LEMMA SavedBefore ==
    ASSUME Base, Turns, Steady, Grows, NEW m \in Messages, m \in saved', task'[m].at # "send"
    PROVE  m \in saved /\ Home(m)' = Home(m)
<1>0. Typing /\ SavedReal
  BY DEF Base, Turns
<1>1. \A n \in Messages : m # Answer(n)
  <2>1. 1 \in 1..MaxChunks
    BY ChatAssumption
  <2> QED BY <1>0, <2>1, EndingLaws, ChatAssumption DEF Answer
<1>2. m \in saved
  BY <1>1 DEF Grows
<1>3. task[m].at # "unsent"
  BY <1>0, <1>1, <1>2 DEF SavedReal
<1> QED BY <1>2, <1>3 DEF Steady, Home

(* The messages that are saved and broadcast were so before.               *)
Calm == \A m \in saved' \cap Messages :
            task'[m].at # "send" => m \in saved /\ task[m].at # "send" /\ Home(m)' = Home(m)

LEMMA KnownSame ==
    ASSUME NEW c \in Clients, Known(c), Calm, conv' = conv, crossed[c] \subseteq crossed'[c],
           page'[c] = page[c], client'[c].frames = client[c].frames, client'[c].at = client[c].at,
           client'[c].rep = client[c].rep, client'[c].conv = client[c].conv, client'[c].history = client[c].history
    PROVE  Known(c)'
<1>1. Unread(c)'
  BY DEF Known, Unread
<1>2. ASSUME NEW m \in Messages, m \in saved', task'[m].at # "send", client'[c].rep = Home(m)'
      PROVE  Informed(c, m)'
  <2>1. Informed(c, m) /\ client[c].rep = Home(m) /\ task[m].at # "send"
    BY <1>2 DEF Calm, Known
  <2> QED BY <2>1 DEF Informed
<1>3. \A m \in saved' \cap Messages : Informed(c, m)'
  BY <1>2 DEF Informed
<1> QED BY <1>1, <1>3 DEF Known

(* A frame that is no history comes for c; new, if any, is a message that  *)
(* is broadcast.                                                           *)
LEMMA KnownGets ==
    ASSUME Typing, NEW c \in Clients, Known(c), conv' = conv, crossed[c] \subseteq crossed'[c],
           page'[c] = page[c], client'[c].at = client[c].at, client'[c].rep = client[c].rep,
           client'[c].conv = client[c].conv, client'[c].history = client[c].history,
           NEW f \in Frames, f.kind # "history", f # NoHistory, client'[c].frames = Append(client[c].frames, f),
           NEW new,
           \A m \in saved' \cap Messages : (m # new /\ task'[m].at # "send") =>
               m \in saved /\ task[m].at # "send" /\ Home(m)' = Home(m),
           new \in Messages => f = Frame("message", new) /\ (HasOldHistory(c) => new \in crossed'[c])
    PROVE  Known(c)'
<1>0. PICK p, q, r : p = page[c] /\ q = client[c].frames /\ r = Append(q, f)
  OBVIOUS
<1>1. p \in Pages /\ q \in Seq(Frames) /\ page'[c] = p /\ client'[c].frames = r
  BY <1>0 DEF Typing, ClientRows
<1>2. (Told(p, r) <=> Told(p, q)) /\ (Historied(r) <=> Historied(q))
  BY <1>0, <1>1, ToldAppend
<1>3. Unread(c)'
  BY <1>0, <1>1, <1>2 DEF Known, Unread
<1>4. ASSUME NEW m \in Messages, m \in saved', task'[m].at # "send", client'[c].rep = Home(m)', m # new
      PROVE  Informed(c, m)'
  <2>1. Informed(c, m) /\ client[c].rep = Home(m) /\ task[m].at # "send"
    BY <1>4 DEF Known
  <2>2. Coming(p, q, m) => Coming(p, r, m)
    BY <1>0, <1>1, ComingAppend
  <2> QED BY <1>0, <1>1, <1>2, <2>1, <2>2 DEF Informed
<1>5. ASSUME new \in Messages PROVE Informed(c, new)'
  <2>1. Coming(p, r, new)
    BY <1>0, <1>1, <1>5, ComingAppend
  <2>2. client'[c].at = "listed" => new \in crossed'[c]
    BY <1>5 DEF HasOldHistory
  <2>3. client'[c].at = "fetched" /\ client'[c].conv # conv' => new \in crossed'[c]
    BY <1>5 DEF HasOldHistory
  <2> QED BY <1>1, <2>1, <2>2, <2>3 DEF Informed
<1>6. \A m \in saved' \cap Messages : Informed(c, m)'
  BY <1>4, <1>5 DEF Informed
<1> QED BY <1>3, <1>6 DEF Known

LEMMA KnownGone ==
    ASSUME NEW c \in Clients, client'[c].at = "gone", page'[c] = Blank, client'[c].frames = << >>
    PROVE  Known(c)'
<1>1. \A i \in 1..Len(<< >>) : FALSE
  OBVIOUS
<1>2. ~Told(Blank, << >>) /\ ~Historied(<< >>)
  BY <1>1, BlankLaws DEF Told, Historied
<1>3. Unread(c)'
  BY <1>2 DEF Unread
<1>4. \A m \in Messages : Informed(c, m)'
  BY DEF Informed
<1> QED BY <1>3, <1>4 DEF Known

LEMMA KnownConnection ==
    ASSUME Base, Turns, Listed, NEW b \in Clients,
           \/ \E rep \in Replicas : HandleWebSocket(b, rep)
           \/ AddToRoom(b) \/ FetchConversation(b) \/ ListHistory(b) \/ SendHistory(b) \/ LoadFails(b)
           \/ Deliver(b) \/ Disconnect(b),
           NEW c \in Clients, c \notin lossy'
    PROVE  Known(c)'
<1>0. Typing /\ UNCHANGED <<conv, task, saved>> /\ Calm
  <2>1. Steady
    BY ConnectionBase
  <2>2. UNCHANGED <<conv, task, saved>>
    BY DEF HandleWebSocket, AddToRoom, FetchConversation, ListHistory, SendHistory, LoadFails, Deliver, Disconnect
  <2>3. Calm
    BY <2>2 DEF Calm, Home
  <2> QED BY <2>2, <2>3 DEF Base
<1>1. c \notin lossy => Known(c)
  BY DEF Listed
<1>2. \A m : Home(m)' = Home(m)
  BY <1>0 DEF Home
<1>3. ASSUME c # b PROVE Known(c)'
  <2>1. c \notin lossy /\ page'[c] = page[c] /\ client'[c] = client[c] /\ crossed'[c] = crossed[c]
    <3>1. CASE SendHistory(b) \/ LoadFails(b)
      <4>1. PICK f : Queues({b}, f) /\ Others(b)
        BY <1>0, <3>1, HistorySteps
      <4>2. crossed' = crossed
        BY <3>1 DEF SendHistory, LoadFails
      <4> QED BY <1>3, <4>1, <4>2 DEF Queues, Others
    <3>2. CASE Deliver(b)
      <4>1. Others(b) /\ page'[c] = page[c]
        BY <1>0, <1>3, <3>2, DeliverSteps
      <4> QED BY <1>3, <3>2, <4>1 DEF Others, Deliver
    <3>3. CASE Disconnect(b)
      <4>1. Over({b}) /\ {b} \in SUBSET Clients
        BY <3>3 DEF Disconnect
      <4> QED BY <1>0, <1>3, <4>1, OverLaws
    <3>4. CASE AddToRoom(b) \/ (\E rep \in Replicas : HandleWebSocket(b, rep)) \/ FetchConversation(b) \/ ListHistory(b)
      <4>1. Others(b)
        BY <1>0, <3>4, ConnectionSteps
      <4> QED BY <1>3, <3>4, <4>1 DEF Others, AddToRoom, HandleWebSocket, FetchConversation, ListHistory
    <3> QED BY <3>1, <3>2, <3>3, <3>4
  <2> QED BY <1>0, <1>1, <2>1, KnownSame
<1>4. ASSUME c = b, NEW rep \in Replicas, HandleWebSocket(c, rep) PROVE Known(c)'
  <2>1. /\ UNCHANGED <<page, lossy>> /\ client'[c].frames = client[c].frames /\ client[c].at = "off"
        /\ client'[c].at = "entered"
    BY <1>0, <1>4, ConnectionSteps DEF HandleWebSocket
  <2>2. Unread(c)'
    BY <1>1, <2>1 DEF Known, Unread
  <2>3. \A m : Informed(c, m)'
    BY <2>1 DEF Informed
  <2> QED BY <2>2, <2>3 DEF Known
<1>5. ASSUME c = b, AddToRoom(c) PROVE Known(c)'
  <2>1. /\ UNCHANGED <<page, crossed, lossy>> /\ Stays(c) /\ client'[c].rep = client[c].rep
        /\ client'[c].frames = client[c].frames
    BY <1>0, <1>5, ConnectionSteps DEF AddToRoom
  <2> QED BY <1>0, <1>1, <2>1, KnownSame DEF Stays
<1>6. ASSUME c = b, FetchConversation(c) PROVE Known(c)'
  <2>1. /\ UNCHANGED <<page, lossy>> /\ client'[c].frames = client[c].frames /\ client[c].at = "entered"
        /\ client'[c].at = "fetched" /\ client'[c].conv = conv
    BY <1>0, <1>6, ConnectionSteps DEF FetchConversation
  <2>2. Unread(c)'
    BY <1>1, <2>1 DEF Known, Unread
  <2>3. \A m : Informed(c, m)'
    BY <1>0, <2>1 DEF Informed
  <2> QED BY <2>2, <2>3 DEF Known
<1>7. ASSUME c = b, ListHistory(c) PROVE Known(c)'
  <2>1. /\ UNCHANGED <<page, lossy, crossed>> /\ client'[c].frames = client[c].frames /\ client[c].at = "fetched"
        /\ client'[c].at = "listed" /\ client'[c].history = History(c) /\ client'[c].rep = client[c].rep
    BY <1>0, <1>7, ConnectionSteps DEF ListHistory
  <2>2. Unread(c)'
    BY <1>1, <2>1 DEF Known, Unread
  <2>3. ASSUME NEW m \in Messages, m \in saved PROVE Informed(c, m)'
    <3>1. Informed(c, m)
      BY <1>1, <2>1, <2>3 DEF Known
    <3>2. CASE client[c].conv = conv
      BY <2>1, <2>3, <3>2 DEF Informed, History
    <3>3. CASE client[c].conv # conv
      BY <1>0, <1>2, <2>1, <3>1, <3>3 DEF Informed
    <3> QED BY <3>2, <3>3
  <2> QED BY <1>0, <2>2, <2>3 DEF Known
<1>8. ASSUME c = b, SendHistory(c) PROVE Known(c)'
  <2>1. PICK f, p, q, r : f = Frame("history", client[c].history) /\ p = page[c] /\ q = client[c].frames /\ r = Append(q, f)
    OBVIOUS
  <2>2. f \in Frames /\ f.kind = "history" /\ f.what = client[c].history /\ p \in Pages /\ q \in Seq(Frames) /\ f # NoHistory
    BY <1>0, <2>1, FrameLaws DEF Typing, ClientRows, NoHistory
  <2>3. Queues({c}, f) /\ client'[c].at = "on" /\ client[c].at = "listed" /\ crossed' = crossed
    BY <1>0, <1>8, <2>1, HistorySteps DEF SendHistory
  <2>4. c \notin lossy /\ page'[c] = p /\ client'[c].frames = r /\ client'[c].rep = client[c].rep
    BY <2>1, <2>3 DEF Queues
  <2>5. ~Told(p, r)
    BY <1>1, <2>1, <2>2, <2>3, <2>4, ToldAppend DEF Known, Unread
  <2>6. Unread(c)'
    BY <2>3, <2>4, <2>5 DEF Unread
  <2>7. ASSUME NEW m \in Messages, m \in saved PROVE Informed(c, m)'
    <3>1. Informed(c, m)
      BY <1>1, <2>4, <2>7 DEF Known
    <3>2. m \in client[c].history => Coming(p, r, m)
      BY <2>1, <2>2, ComingAppend
    <3> QED BY <1>0, <1>2, <2>3, <2>4, <3>1, <3>2 DEF Informed
  <2> QED BY <1>0, <2>6, <2>7 DEF Known
<1>9. ASSUME c = b, LoadFails(c) PROVE Known(c)'
  <2>1. PICK p, q, r : p = page[c] /\ q = client[c].frames /\ r = Append(q, NoHistory)
    OBVIOUS
  <2>2. p \in Pages /\ q \in Seq(Frames) /\ NoHistory \in Frames /\ NoHistory.kind = "error"
    BY <1>0, <2>1, FrameLaws DEF Typing, ClientRows, NoHistory
  <2>3. Queues({c}, NoHistory) /\ client'[c].at = "on" /\ client[c].at \in {"entered", "fetched"}
    BY <1>0, <1>9, HistorySteps DEF LoadFails, NoHistory
  <2>4. c \notin lossy /\ page'[c] = p /\ client'[c].frames = r
    BY <2>1, <2>3 DEF Queues
  <2>5. Told(p, r) /\ ~Historied(r)
    BY <1>1, <2>1, <2>2, <2>3, <2>4, ToldAppend DEF Known, Unread
  <2>6. Unread(c)'
    BY <2>3, <2>4, <2>5 DEF Unread
  <2>7. \A m : Informed(c, m)'
    BY <2>3, <2>4, <2>5 DEF Informed
  <2> QED BY <2>6, <2>7 DEF Known
<1>10. ASSUME c = b, Deliver(c) PROVE Known(c)'
  <2>1. PICK p, q, g, t : p = page[c] /\ q = client[c].frames /\ g = Shown(p, q[1]) /\ t = Tail(q)
    OBVIOUS
  <2>2. /\ c \notin lossy /\ q # << >> /\ q \in Seq(Frames) /\ p \in Pages /\ crossed' = crossed
        /\ page'[c] = g /\ client'[c].frames = t
        /\ client[c].at = "on" /\ client'[c].at = "on" /\ client'[c].rep = client[c].rep
    BY <1>0, <1>10, <2>1, DeliverSteps DEF Deliver, Typing, Stays
  <2>3. /\ Told(p, q) /\ ~Historied(q) => Told(g, t)
        /\ Told(g, t) => Told(p, q)
        /\ Historied(t) => Historied(q)
    BY <2>1, <2>2, ToldDeliver
  <2>4. ~(Told(p, q) /\ Historied(q))
    BY <1>1, <2>1, <2>2 DEF Known, Unread
  <2>5. Unread(c)'
    BY <2>2, <2>3, <2>4 DEF Unread
  <2>6. ASSUME NEW m \in Messages, m \in saved PROVE Informed(c, m)'
    <3>1. Informed(c, m)
      BY <1>1, <2>2, <2>6 DEF Known
    <3>2. Coming(p, q, m) => Coming(g, t, m)
      BY <2>1, <2>2, ComingDeliver
    <3> QED BY <1>0, <1>2, <2>1, <2>2, <2>3, <2>4, <3>1, <3>2 DEF Informed
  <2> QED BY <1>0, <2>5, <2>6 DEF Known
<1>11. ASSUME c = b, Disconnect(c) PROVE Known(c)'
  <2>1. Over({c}) /\ {c} \in SUBSET Clients
    BY <1>11 DEF Disconnect
  <2>2. client'[c].at = "gone" /\ page'[c] = Blank /\ client'[c].frames = << >>
    BY <1>0, <2>1, OverLaws
  <2> QED BY <2>2, KnownGone
<1> QED BY <1>3, <1>4, <1>5, <1>6, <1>7, <1>8, <1>9, <1>10, <1>11

-----------------------------------------------------------------------------
(* A frame broadcast by message k, which is or is not the message itself.  *)
LEMMA KnownSpeaks ==
    ASSUME Typing, NEW k \in Messages, NEW f, Speaks(k, f), f.kind # "history", f # NoHistory,
           NEW c \in Clients, c \notin lossy', Known(c), NEW new,
           \A m \in saved' \cap Messages : (m # new /\ task'[m].at # "send") =>
               m \in saved /\ task[m].at # "send" /\ Home(m)' = Home(m),
           new \in Messages =>
               new = k /\ f = Frame("message", new) /\ Home(new)' = Home(new) /\ (HasOldHistory(c) => new \in crossed'[c])
    PROVE  Known(c)'
<1>1. /\ f \in Frames /\ Queues(Room(k), f) /\ Stays(c) /\ conv' = conv /\ crossed[c] \subseteq crossed'[c]
  BY DEF Speaks
<1>2. /\ page'[c] = page[c] /\ client'[c].rep = client[c].rep /\ client'[c].at = client[c].at
      /\ client'[c].conv = client[c].conv /\ client'[c].history = client[c].history
      /\ client'[c].frames = IF c \in Room(k) THEN Append(client[c].frames, f) ELSE client[c].frames
  BY <1>1 DEF Queues, Stays
<1>3. CASE c \in Room(k)
  BY <1>1, <1>2, <1>3, KnownGets
<1>4. CASE c \notin Room(k)
  <2>1. Unread(c)'
    BY <1>2, <1>4 DEF Known, Unread
  <2>2. ASSUME NEW m \in Messages, m \in saved', task'[m].at # "send", client'[c].rep = Home(m)', m # new
        PROVE  Informed(c, m)'
    <3>1. Informed(c, m) /\ client[c].rep = Home(m) /\ task[m].at # "send"
      BY <1>2, <2>2 DEF Known
    <3> QED BY <1>1, <1>2, <1>4, <3>1 DEF Informed
  <2>3. ASSUME new \in Messages, client'[c].rep = Home(new)' PROVE Informed(c, new)'
    <3>1. ~client[c].room
      BY <1>2, <1>4, <2>3 DEF Room, InRoom
    <3>2. client[c].at = "on" \/ client[c].at = "listed" \/ (client[c].at = "fetched" /\ client[c].conv # conv)
             => new \in crossed'[c]
      BY <2>3, <3>1 DEF HasOldHistory
    <3> QED BY <1>1, <1>2, <3>2 DEF Informed
  <2>4. \A m \in saved' \cap Messages : Informed(c, m)'
    BY <2>2, <2>3 DEF Informed
  <2> QED BY <2>1, <2>4 DEF Known
<1> QED BY <1>3, <1>4

(* An error sent to b alone.                                               *)
LEMMA KnownTold ==
    ASSUME Typing, NEW b \in Clients, NEW k \in Messages, Tells(b, Frame("error", k)), Stays(b), Calm,
           NEW c \in Clients, c \notin lossy', Known(c)
    PROVE  Known(c)'
<1>0. PICK f : f = Frame("error", k)
  OBVIOUS
<1>1. /\ f \in Frames /\ f.kind = "error" /\ f.what = k /\ Queues({b}, f) /\ Others(b)
      /\ UNCHANGED <<conv, saved, crossed>>
  BY <1>0, FrameLaws DEF Tells
<1>2. f # NoHistory
  BY <1>1, FrameLaws, ChatAssumption DEF NoHistory
<1>3. /\ page'[c] = page[c] /\ client'[c].rep = client[c].rep /\ client'[c].at = client[c].at
      /\ client'[c].conv = client[c].conv /\ client'[c].history = client[c].history
      /\ client'[c].frames = IF c = b THEN Append(client[c].frames, f) ELSE client[c].frames
  BY <1>1 DEF Queues, Stays, Others
<1>4. CASE c = b
  <2>1. None \notin Messages
    BY ChatAssumption
  <2>2. \A m \in saved' \cap Messages : (m # None /\ task'[m].at # "send") =>
            m \in saved /\ task[m].at # "send" /\ Home(m)' = Home(m)
    BY DEF Calm
  <2> QED BY <1>1, <1>2, <1>3, <1>4, <2>1, <2>2, KnownGets
<1>5. CASE c # b
  BY <1>1, <1>3, <1>5, KnownSame
<1> QED BY <1>4, <1>5

(* Only BroadcastMessage takes a message out of the stage before it.       *)
LEMMA KeepsCalm ==
    ASSUME Base, Turns, Steady, Grows, NEW k \in Messages, OtherTasks(k),
           task[k].at = "send" => task'[k].at = "send"
    PROVE  Calm
<1>1. ASSUME NEW m \in Messages, m \in saved', task'[m].at # "send"
      PROVE  m \in saved /\ task[m].at # "send" /\ Home(m)' = Home(m)
  <2>1. m \in saved /\ Home(m)' = Home(m)
    BY <1>1, SavedBefore
  <2>2. task[m].at # "send"
    <3>1. CASE m = k
      BY <1>1, <3>1
    <3>2. CASE m # k
      BY <1>1, <3>2 DEF OtherTasks
    <3> QED BY <3>1, <3>2
  <2> QED BY <2>1, <2>2
<1> QED BY <1>1 DEF Calm

LEMMA KnownMessage ==
    ASSUME Base, Turns, Steady, Grows, Listed, NEW k \in Messages, TaskStep(k) \/ ProviderStep(k),
           NEW c \in Clients, c \notin lossy'
    PROVE  Known(c)'
<1>0. Typing /\ (c \notin lossy => Known(c))
  BY DEF Base, Listed
<1>1. ASSUME UNCHANGED <<conv, client, page, crossed, lossy>>, OtherTasks(k), task[k].at # "send" PROVE Known(c)'
  <2>1. Calm
    BY <1>1, KeepsCalm
  <2> QED BY <1>0, <1>1, <2>1, KnownSame
<1>2. ASSUME NEW f, Speaks(k, f), OtherTasks(k), task[k].at # "send", f.kind # "history", f # NoHistory
      PROVE  Known(c)'
  <2>1. Calm
    BY <1>2, KeepsCalm
  <2>2. \A m \in saved' \cap Messages : (m # None /\ task'[m].at # "send") =>
            m \in saved /\ task[m].at # "send" /\ Home(m)' = Home(m)
    BY <2>1 DEF Calm
  <2>3. c \notin lossy
    BY <1>2 DEF Speaks, Queues
  <2>4. None \notin Messages
    BY ChatAssumption
  <2> QED BY <1>0, <1>2, <2>2, <2>3, <2>4, KnownSpeaks
<1>3. CASE SaveMessage(k)
  <2>1. Comes(k, "send") /\ task[k].at = "save" /\ UNCHANGED <<conv, client, page, crossed, lossy>>
    BY <1>3, SilentSteps DEF SaveMessage
  <2> QED BY <1>1, <2>1 DEF Comes
<1>4. CASE SaveFails(k)
  <2>1. PICK b : b = task[k].by
    OBVIOUS
  <2>2. /\ b \in Clients /\ Tells(b, Frame("error", k)) /\ Stays(b) /\ Comes(k, "failed") /\ task[k].at = "save"
    BY <1>0, <1>4, <2>1, SilentSteps, StageSteps DEF SaveFails
  <2>3. Calm
    BY <2>2, KeepsCalm DEF Comes
  <2>4. c \notin lossy
    BY <2>2 DEF Tells, Queues
  <2> QED BY <1>0, <2>2, <2>3, <2>4, KnownTold
<1>5. CASE BroadcastMessage(k)
  <2>1. PICK f : f = Frame("message", k)
    OBVIOUS
  <2>2. /\ Speaks(k, f) /\ Comes(k, "ask") /\ ((HasOldHistory(c) /\ k \in saved) => k \in crossed'[c])
        /\ task[k].at = "send"
    BY <1>0, <1>5, <2>1, SpeakingSteps, StageSteps DEF BroadcastMessage
  <2>3. f.kind = "message" /\ f # NoHistory
    BY <2>1, FrameLaws DEF NoHistory
  <2>4. ASSUME NEW m \in Messages, m \in saved', m # k, task'[m].at # "send"
        PROVE  m \in saved /\ task[m].at # "send" /\ Home(m)' = Home(m)
    <3>1. m \in saved /\ Home(m)' = Home(m)
      BY <2>4, SavedBefore
    <3> QED BY <2>2, <2>4, <3>1 DEF Comes, OtherTasks
  <2>5. Home(k)' = Home(k)
    BY <2>2 DEF Comes, Home
  <2>6. c \notin lossy
    BY <2>2 DEF Speaks, Queues
  <2>7. \A m \in saved' \cap Messages : (m # k /\ task'[m].at # "send") =>
            m \in saved /\ task[m].at # "send" /\ Home(m)' = Home(m)
    BY <2>4
  <2>8. CASE k \in saved
    BY <1>0, <2>1, <2>2, <2>3, <2>5, <2>6, <2>7, <2>8, KnownSpeaks
  <2>9. CASE k \notin saved
    <3>1. None \notin Messages /\ saved' = saved
      BY <2>2, ChatAssumption DEF Speaks
    <3>2. \A m \in saved' \cap Messages : (m # None /\ task'[m].at # "send") =>
              m \in saved /\ task[m].at # "send" /\ Home(m)' = Home(m)
      BY <2>7, <2>9, <3>1
    <3> QED BY <1>0, <2>2, <2>3, <2>6, <3>1, <3>2, KnownSpeaks
  <2> QED BY <2>8, <2>9
<1>6. CASE AcquireAILock(k)
  <2>1. PICK f : f = Frame("typing", None)
    OBVIOUS
  <2>2. Speaks(k, f) /\ Comes(k, "load") /\ task[k].at = "ask"
    BY <1>0, <1>6, <2>1, SpeakingSteps DEF AcquireAILock
  <2>3. f.kind = "typing" /\ f # NoHistory
    BY <2>1, FrameLaws DEF NoHistory
  <2> QED BY <1>2, <2>2, <2>3 DEF Comes
<1>7. CASE LoadHistory(k)
  <2>1. /\ UNCHANGED <<conv, client, page, crossed, lossy>> /\ task[k].at = "load"
        /\ Comes(k, "error") \/ Comes(k, "stream")
    BY <1>0, <1>7, SilentSteps, StageSteps DEF LoadHistory
  <2> QED BY <1>1, <2>1 DEF Comes
<1>8. CASE StreamChunk(k)
  <2>1. PICK f : f = Frame("chunk", Piece(k, task[k].chunks + 1))
    OBVIOUS
  <2>2. Speaks(k, f) /\ Comes(k, "stream") /\ task[k].at = "stream"
    BY <1>0, <1>8, <2>1, SpeakingSteps, StageSteps DEF StreamChunk
  <2>3. f.kind = "chunk" /\ f # NoHistory
    BY <2>1, FrameLaws DEF NoHistory
  <2> QED BY <1>2, <2>2, <2>3 DEF Comes
<1>9. CASE StreamEnds(k)
  <2>1. /\ UNCHANGED <<conv, client, page, crossed, lossy>> /\ task[k].at = "stream"
        /\ Comes(k, "done") \/ Comes(k, "keep")
    BY <1>0, <1>9, SilentSteps, StageSteps DEF StreamEnds
  <2> QED BY <1>1, <2>1 DEF Comes
<1>10. CASE StreamFails(k)
  <2>1. UNCHANGED <<conv, client, page, crossed, lossy>> /\ Comes(k, "error") /\ task[k].at = "stream"
    BY <1>0, <1>10, SilentSteps, StageSteps DEF StreamFails
  <2> QED BY <1>1, <2>1 DEF Comes
<1>11. CASE SaveAnswer(k)
  <2>1. UNCHANGED <<conv, client, page, crossed, lossy>> /\ task[k].at = "keep" /\ Comes(k, "done")
    BY <1>11, SilentSteps DEF SaveAnswer
  <2> QED BY <1>1, <2>1 DEF Comes
<1>12. CASE BroadcastDone(k)
  <2>1. PICK f : f = Frame(task[k].at, k)
    OBVIOUS
  <2>2. /\ Speaks(k, f) /\ OtherTasks(k) /\ task[k].at \in {"done", "error"}
    BY <1>0, <1>12, <2>1, SpeakingSteps DEF Comes
  <2>3. f.kind # "history" /\ f.what = k
    BY <2>1, <2>2, FrameLaws
  <2>4. f # NoHistory
    BY <2>3, FrameLaws, ChatAssumption DEF NoHistory
  <2> QED BY <1>2, <2>2, <2>3, <2>4
<1> QED BY <1>3, <1>4, <1>5, <1>6, <1>7, <1>8, <1>9, <1>10, <1>11, <1>12 DEF TaskStep, ProviderStep

LEMMA ListedStep ==
    ASSUME Base, Turns, Steady, Grows, Listed, Next \/ UNCHANGED vars
    PROVE  Listed'
<1> SUFFICES ASSUME NEW c \in Clients, c \notin lossy' PROVE Known(c)'
  BY DEF Listed
<1>0. Typing /\ (c \notin lossy => Known(c))
  BY DEF Base, Listed
<1>1. ASSUME NEW b \in Clients, NEW k \in Messages, SendMessage(b, k) PROVE Known(c)'
  <2>1. OtherTasks(k) /\ task[k].at = "unsent" /\ UNCHANGED <<conv, saved, client, page, crossed, lossy>>
    BY <1>0, <1>1, SendingSteps
  <2>2. Calm
    BY <2>1, KeepsCalm
  <2> QED BY <1>0, <2>1, <2>2, KnownSame
<1>2. CASE DeleteConversation
  <2>1. saved' = {} /\ UNCHANGED <<client, page, lossy>>
    BY <1>2 DEF DeleteConversation
  <2>2. Unread(c)'
    BY <1>0, <2>1 DEF Known, Unread
  <2> QED BY <2>1, <2>2 DEF Known
<1>3. ASSUME NEW rep \in Replicas, Dies(rep) PROVE Known(c)'
  <2>1. PICK gone : gone = {b \in Clients : client[b].rep = rep /\ Watching(b)}
    OBVIOUS
  <2>2. gone \in SUBSET Clients /\ Over(gone) /\ UNCHANGED <<conv, saved>>
    BY <1>3, <2>1 DEF Dies
  <2>3. CASE c \in gone
    BY <1>0, <2>2, <2>3, OverLaws, KnownGone
  <2>4. CASE c \notin gone
    <3>1. c \notin lossy /\ client'[c] = client[c] /\ page'[c] = page[c] /\ crossed'[c] = crossed[c]
      BY <1>0, <2>2, <2>4, OverLaws
    <3>2. Unread(c)'
      BY <1>0, <3>1 DEF Known, Unread
    <3>3. CASE client[c].rep = rep
      <4>1. client'[c].at \notin {"on", "listed", "fetched"}
        BY <2>1, <2>4, <3>1, <3>3 DEF Watching
      <4>2. \A m : Informed(c, m)'
        BY <4>1 DEF Informed
      <4> QED BY <3>2, <4>2 DEF Known
    <3>4. CASE client[c].rep # rep
      <4>1. ASSUME NEW m \in Messages, m \in saved, client'[c].rep = Home(m)' PROVE Informed(c, m)'
        <5>1. Home(m)' = Home(m) /\ (Home(m) # rep => task'[m] = task[m])
          BY <1>0, <1>3, DyingSteps DEF Dies, Home
        <5>2. task'[m] = task[m]
          BY <3>1, <3>4, <4>1, <5>1
        <5>3. Informed(c, m)
          BY <1>0, <3>1, <4>1 DEF Known
        <5> QED BY <2>2, <3>1, <5>1, <5>2, <5>3 DEF Informed
      <4>2. \A m \in saved' \cap Messages : Informed(c, m)'
        BY <2>2, <4>1 DEF Informed
      <4> QED BY <3>2, <4>2 DEF Known
    <3> QED BY <3>3, <3>4
  <2> QED BY <2>3, <2>4
<1>4. CASE UNCHANGED vars
  <2>1. UNCHANGED <<conv, saved, client, page, task, crossed, lossy>>
    BY <1>4 DEF vars
  <2>2. Calm
    BY <2>1 DEF Calm, Home
  <2> QED BY <1>0, <2>1, <2>2, KnownSame
<1> QED BY <1>1, <1>2, <1>3, <1>4, KnownConnection, KnownMessage DEF Next

LEMMA ListedInit == Init => Listed
<1> SUFFICES ASSUME Init, NEW c \in Clients PROVE Known(c)
  BY DEF Listed
<1>1. page[c] = Blank /\ client[c].frames = << >> /\ saved = {}
  BY DEF Init
<1>2. \A i \in 1..Len(<< >>) : FALSE
  OBVIOUS
<1>3. Unread(c)
  BY <1>1, <1>2, BlankLaws DEF Unread, Told, Historied
<1> QED BY <1>1, <1>3 DEF Known

(* A member who is connected misses nothing of the conversation that comes *)
(* from his replica: every saved message is shown, or comes in a frame, or *)
(* is about to be broadcast, or crossed the reading of his history --      *)
(* unless he was told that there is no history, or a frame was dropped.    *)
THEOREM MembersMissNothing == Spec => []NothingMissed
<1>1. Init => Base /\ Turns /\ Listed
  BY BaseInit, TurnsInit, ListedInit
<1>2. Base /\ Turns /\ Listed /\ [Next]_vars => (Base /\ Turns /\ Listed)'
  BY BaseStep, TurnsStep, MovesStep, ListedStep
<1>3. Base /\ Listed => NothingMissed
  <2>1. ASSUME Base, Listed, NEW c \in Clients, c \notin lossy, NEW m \in Messages, m \in saved,
               client[c].at = "on", client[c].rep = Home(m), ~HasNoHistory(c), task[m].at # "send"
        PROVE  m \in Soon(c) \cup crossed[c]
    <3>1. Informed(c, m)
      BY <2>1 DEF Listed, Known
    <3>2. m \in Soon(c) \/ m \in crossed[c]
      BY <2>1, <3>1, SoonComing DEF Base, Informed
    <3> QED BY <3>2
  <2> QED BY <2>1 DEF NothingMissed
<1> QED BY <1>1, <1>2, <1>3, PTL DEF Spec
=============================================================================
