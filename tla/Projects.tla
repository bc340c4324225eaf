-------------------------------- MODULE Projects --------------------------------
(***************************************************************************)
(* Projects and the books kept about them: brief revisions and AI usage    *)
(* entries.  Each book is written by handlers that read a row first and    *)
(* write later, while staff may transfer the project between the two.      *)
(* Names are chosen so that OrganizationProofs can extend OrgOwners along   *)
(* with this module.                                                       *)
(***************************************************************************)
EXTENDS Naturals

CONSTANTS
    Orgs, Projects, Slugs,
    Handlers,     \* requests under way, of people or of the assistant's tools
    Briefs,       \* texts of a brief, without the empty one
    Entries,      \* ai_usage_entries that may be made: AI calls recorded
    MaxTransfers  \* bound: transfers

ASSUME ProjectsAssumption ==
    /\ "" \notin Briefs /\ "none" \notin Orgs
    /\ MaxTransfers \in Nat

VARIABLES
    project,    \* organization, slug and brief, or None
    revisions,  \* texts kept in brief_revisions of a project
    usage,      \* ai_usage_entries: project and organization of each, or NoEntry
    handler,    \* what each request has read
    (* for the properties: *)
    been,       \* texts a brief has had
    overlapped, \* two edits of the brief overlapped, or a revision failed
    astray,     \* requests whose project was transferred since they read it, or
                \* that could not read it and took another organization
    misfiled,   \* entries such requests wrote, of projects not transferred since
    transfers

books == <<revisions, usage>>
ghosts == <<been, overlapped, astray, misfiled>>
projectVars == <<project, books, handler, ghosts, transfers>>

Texts == Briefs \cup {""}
None == [org |-> "none", slug |-> "none", brief |-> ""]
Project == [org : Orgs, slug : Slugs, brief : Texts]
Exists(p) == project[p] # None

NoEntry == [on |-> "none", org |-> "none"]
Entry == [on : Projects, org : Orgs]

(* The entries of a project, which its costs page adds up.                 *)
Of(p) == {e \in Entries : usage[e] # NoEntry /\ usage[e].on = p}

Idle == [at |-> "idle", on |-> "none", seen |-> "none", new |-> "none"]

BooksInit ==
    /\ project = [p \in Projects |-> None]
    /\ revisions = [p \in Projects |-> {}]
    /\ usage = [e \in Entries |-> NoEntry]
    /\ handler = [h \in Handlers |-> Idle]
    /\ been = [p \in Projects |-> {}]
    /\ overlapped = [p \in Projects |-> FALSE]
    /\ astray = {}
    /\ misfiled = {}
    /\ transfers = 0

Work(h, at, on, seen, new) ==
    /\ handler[h] = Idle
    /\ handler' = [handler EXCEPT ![h] = [at |-> at, on |-> on, seen |-> seen, new |-> new]]
End(h) == handler' = [handler EXCEPT ![h] = Idle]

-----------------------------------------------------------------------------
(* Projects.                                                               *)

(* UNIQUE (org_id, slug).                                                  *)
SlugFree(o, s) == ~\E p \in Projects : project[p].org = o /\ project[p].slug = s

CreateProject(p, o, s) ==
    /\ ~Exists(p) /\ SlugFree(o, s)
    /\ project' = [project EXCEPT ![p] = [org |-> o, slug |-> s, brief |-> ""]]
    /\ been' = [been EXCEPT ![p] = {""}]
    /\ UNCHANGED <<books, handler, overlapped, astray, misfiled, transfers>>

(* Mutant: the usage entries stay behind.                                  *)
MovedLeftBehind(p, o) == usage
(* UPDATE ai_usage_entries SET org_id, all of the project.                 *)
Moved(p, o) == [e \in Entries |-> IF e \in Of(p) THEN [usage[e] EXCEPT !.org = o] ELSE usage[e]]

(* Mutant: the target is not looked at.                                    *)
MayTransferOnto(p, o) == project[p].org # o
(* A slug the target organization has already rolls the transfer back.     *)
MayTransfer(p, o) == project[p].org # o /\ SlugFree(o, project[p].slug)

TransferProject(p, o) ==
    /\ Exists(p) /\ MayTransfer(p, o) /\ transfers < MaxTransfers
    /\ project' = [project EXCEPT ![p].org = o]
    /\ usage' = Moved(p, o)
    /\ astray' = astray \cup {h \in Handlers : handler[h].at = "usage" /\ handler[h].on = p}
    /\ misfiled' = misfiled \ Of(p)
    /\ transfers' = transfers + 1
    /\ UNCHANGED <<revisions, handler, been, overlapped>>

-----------------------------------------------------------------------------
(* The brief: UpdateBrief and the assistant's update_project_brief.        *)

Editing(p) == {h \in Handlers : handler[h].at \in {"brief", "revised"} /\ handler[h].on = p}

(* The project is read for its brief ...                                   *)
ReadBrief(h, p, text) ==
    /\ Exists(p)
    /\ Work(h, "brief", p, project[p].brief, text)
    /\ overlapped' = [overlapped EXCEPT ![p] = @ \/ Editing(p) # {}]
    /\ UNCHANGED <<project, books, been, astray, misfiled, transfers>>

(* Mutant: the text that comes is kept, not the one that goes.             *)
PreviousIsNew(q) == q.new
Previous(q) == q.seen

(* ... the text read becomes a revision; a failure is only logged ...      *)
CreateBriefRevision(h, fails) ==
    LET q == handler[h] IN
    /\ q.at = "brief"
    /\ handler' = [handler EXCEPT ![h].at = "revised"]
    /\ revisions' = IF fails THEN revisions ELSE [revisions EXCEPT ![q.on] = @ \cup {Previous(q)}]
    /\ overlapped' = [overlapped EXCEPT ![q.on] = @ \/ fails]
    /\ UNCHANGED <<project, usage, been, astray, misfiled, transfers>>

(* ... and the new one replaces whatever stands there, if this succeeds.   *)
UpdateProjectBrief(h, fails) ==
    LET q == handler[h] IN
    /\ q.at = "revised"
    /\ End(h)
    /\ IF fails THEN UNCHANGED <<project, been>>
       ELSE /\ project' = [project EXCEPT ![q.on].brief = q.new]
            /\ been' = [been EXCEPT ![q.on] = @ \cup {q.new}]
    /\ UNCHANGED <<books, overlapped, astray, misfiled, transfers>>

(* A review is a revision without a text: it says that somebody looked, and *)
(* not at which text.                                                      *)
MarkBriefReviewed(p) ==
    /\ Exists(p)
    /\ revisions' = [revisions EXCEPT ![p] = @ \cup {""}]
    /\ UNCHANGED <<project, usage, handler, ghosts, transfers>>

-----------------------------------------------------------------------------
(* AI usage: recordAIUsage and GenerateImage read the organization of the  *)
(* project, the image before it is made and uploaded.  (Chats that have no *)
(* project are left out: their entries are on no project's page.)          *)

ReadOrg(h, p) ==
    /\ Exists(p)
    /\ Work(h, "usage", p, project[p].org, "none")
    /\ UNCHANGED <<project, books, ghosts, transfers>>

(* A chat whose project cannot be read, for whatever reason, is booked to  *)
(* the first organization of the member who asked, and to the project.     *)
FallBack(h, p, o) ==
    /\ Exists(p)
    /\ Work(h, "usage", p, o, "none")
    /\ astray' = astray \cup {h}
    /\ UNCHANGED <<project, books, been, overlapped, misfiled, transfers>>

CreateAIUsageEntry(h, e) ==
    LET q == handler[h] IN
    /\ q.at = "usage" /\ usage[e] = NoEntry
    /\ End(h)
    /\ usage' = [usage EXCEPT ![e] = [on |-> q.on, org |-> q.seen]]
    /\ astray' = astray \ {h}
    /\ misfiled' = IF h \in astray THEN misfiled \cup {e} ELSE misfiled
    /\ UNCHANGED <<project, revisions, been, overlapped, transfers>>

(* The image cannot be made or uploaded, the member has no organization to *)
(* fall back on, or the INSERT fails: no entry.                            *)
UsageUnrecorded(h) ==
    /\ handler[h].at = "usage"
    /\ End(h)
    /\ astray' = astray \ {h}
    /\ UNCHANGED <<project, books, been, overlapped, misfiled, transfers>>

-----------------------------------------------------------------------------
HandlerStep == \E h \in Handlers :
    \/ \E p \in Projects : ReadOrg(h, p) \/ \E text \in Texts : ReadBrief(h, p, text)
    \/ \E fails \in BOOLEAN : CreateBriefRevision(h, fails) \/ UpdateProjectBrief(h, fails)
    \/ \E p \in Projects, o \in Orgs : FallBack(h, p, o)
    \/ UsageUnrecorded(h) \/ \E e \in Entries : CreateAIUsageEntry(h, e)

BooksNext ==
    \/ HandlerStep
    \/ \E p \in Projects : MarkBriefReviewed(p)
    \/ \E p \in Projects, o \in Orgs :
          TransferProject(p, o) \/ \E s \in Slugs : CreateProject(p, o, s)

BooksSpec == BooksInit /\ [][BooksNext]_projectVars

-----------------------------------------------------------------------------
(* The type invariant; an address names one project.                       *)
BooksTypeOK ==
    /\ project \in [Projects -> Project \cup {None}]
    /\ \A p, q \in Projects : (p # q /\ Exists(p) /\ Exists(q)) =>
          <<project[p].org, project[p].slug>> # <<project[q].org, project[q].slug>>
    /\ revisions \in [Projects -> SUBSET Texts] /\ been \in [Projects -> SUBSET Texts]
    /\ usage \in [Entries -> Entry \cup {NoEntry}]
    /\ overlapped \in [Projects -> BOOLEAN] 
    /\ astray \subseteq Handlers /\ misfiled \subseteq Entries
    /\ transfers \in 0..MaxTransfers

(* Every text a brief has had is still there or in a revision, unless two  *)
(* edits of the brief overlapped or a revision could not be saved:         *)
(* nothing else in the life of a project loses one.                        *)
BriefHistory ==
    \A p \in Projects : overlapped[p] \/
        \A text \in been[p] : text = project[p].brief \/ text \in revisions[p]

(* The costs page of an organization and those of its projects agree:      *)
(* every entry is booked to the organization that has its project, through *)
(* any number of transfers.  Excepted are, until the next transfer, entries *)
(* of requests that were overtaken by a transfer between their read and    *)
(* their write, and of chats that fell back.                               *)
UsageFollowsProject ==
    \A e \in Entries : usage[e] # NoEntry /\ e \notin misfiled =>
        usage[e].org = project[usage[e].on].org

=============================================================================
