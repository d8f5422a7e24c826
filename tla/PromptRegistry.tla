--------------------------- MODULE PromptRegistry ---------------------------
(***************************************************************************)
(* The prompt registry (src/prompt/prompt.go): prompts loaded from a       *)
(* directory, drafts over them in memory, and commits that write a draft   *)
(* back to its file.  One mutex orders the calls; the write of a file is   *)
(* not atomic, it can fail half way, and the process can crash at any      *)
(* point and load the directory again.                                     *)
(*                                                                         *)
(* The identifier of a prompt and of its segment is the one its file names *)
(* or the default made from the path; two paths may have one default, and  *)
(* two files may name one identifier.  A file is whole, cut in its body,   *)
(* cut before the line that ends its header, or (all but) empty.  A        *)
(* content is a text and whether its lines end in CRLF; "cut" is a text    *)
(* with a part missing.  Metadata is None (no map), an empty map, a map,   *)
(* or a map with a value that has a line "---" in it.  The source of a     *)
(* segment falls back like its role and is left out.                       *)
(***************************************************************************)
EXTENDS Integers, FiniteSets

CONSTANTS
  Paths,
  Identifier,    \* Identifier[p][n]: the prompt id the name n stands for in file p
  InitialFile,   \* the files the directory starts with
  Drafts,        \* the drafts that clients save
  MaxCommits,    \* bound: commits begun
  MaxCrashes,    \* bound
  None

Roles == {"system", "developer", "user", "assistant"}
Names == {"named", "default"}
Metadata == {None, "plain", "other", "fenced", "cut"}
Contents == [text : {"a", "b", "", "cut"}, crlf : BOOLEAN]
Segments ==
  [id : Names, role : Roles, priority : Nat, content : Contents, metadata : Metadata]
DraftSegments ==
  [id : Names \cup {""}, role : Roles \cup {"", "other"}, priority : Nat, content : Contents,
   metadata : Metadata \cup {"empty"}]
States == {"whole", "empty", "header", "body"}
Files == [state : States, promptID : Names, order : Nat, segment : Segments]
Records == [promptID : Names, order : Nat, segment : Segments]

ASSUME PromptAssumption ==
  /\ Identifier \in [Paths -> [Names -> STRING]]
  /\ InitialFile \in [Paths -> Files]
  /\ \A p \in Paths : InitialFile[p].state = "whole"
  /\ \A p, q \in Paths :
       Identifier[p][InitialFile[p].promptID] = Identifier[q][InitialFile[q].promptID] => p = q
  /\ \A p \in Paths : ~InitialFile[p].segment.content.crlf
  /\ Drafts \subseteq DraftSegments
  /\ None \notin DraftSegments \cup [path : Paths, segment : Segments, open : BOOLEAN]
  /\ MaxCommits \in Nat /\ MaxCrashes \in Nat

VARIABLES
  file,      \* file[p]: what is on disk
  up,        \* the process runs and has loaded the directory
  record,    \* record[p]: the prompt in memory
  draft,     \* draft[p]: its draft, None when there is none
  commit,    \* the commit that holds the mutex, the segment it writes, and
             \*   whether it has opened (and so truncated) the file
  bounds     \* commits and crashes so far

vars == <<file, up, record, draft, commit, bounds>>

-----------------------------------------------------------------------------
(* loadFile: line ends are normalised; a header is read to the first line  *)
(* that is "---", even one inside a metadata value, and the rest is the    *)
(* content; a file without a header is content from its first byte.        *)
LoadedContent(content) == [content EXCEPT !.crlf = FALSE]
LoadedWhole(segment) ==
  IF segment.metadata = "fenced"
  THEN [segment EXCEPT !.metadata = "cut", !.content = [text |-> "cut", crlf |-> FALSE]]
  ELSE [segment EXCEPT !.content = LoadedContent(@)]

Defaults ==
  [promptID |-> "default", order |-> 0,
   segment |-> [id |-> "default", role |-> "user", priority |-> 0,
                content |-> [text |-> "", crlf |-> FALSE], metadata |-> None]]

Loaded(f) ==
  CASE f.state = "whole" ->
         [promptID |-> f.promptID, order |-> f.order, segment |-> LoadedWhole(f.segment)]
    [] f.state = "body" ->
         [promptID |-> f.promptID, order |-> f.order,
          segment |-> [LoadedWhole(f.segment) EXCEPT !.content = [text |-> "cut", crlf |-> FALSE]]]
    [] f.state = "empty" -> Defaults

Loadable(f) == f.state # "header"  \* else: unterminated frontmatter

Init ==
  /\ file = InitialFile
  /\ up = TRUE
  /\ record = [p \in Paths |-> Loaded(InitialFile[p])]
  /\ draft = [p \in Paths |-> None]
  /\ commit = None
  /\ bounds = [commits |-> 0, crashes |-> 0]

(* normalizeDraftSegment: a draft for another segment or of an unknown     *)
(* role is refused, what it leaves open is filled in from the segment.     *)
Acceptable(base, d) == d.id \in {"", base.id} /\ d.role \in Roles \cup {""}
Normalised(base, d) ==
  [d EXCEPT !.id = base.id,
            !.role = IF @ = "" THEN base.role ELSE @,
            !.metadata = IF @ = None THEN base.metadata
                         ELSE IF @ = "empty" THEN None ELSE @]

(* toSegment.                                                              *)
Priority(base, d) == IF d.priority = 0 THEN base.priority ELSE d.priority
ToSegment(base, d) == [Normalised(base, d) EXCEPT !.priority = Priority(base, d)]

Free == up /\ commit = None

SaveDraft(p, d) ==
  /\ Free
  /\ Acceptable(record[p].segment, d)
  /\ draft' = [draft EXCEPT ![p] = Normalised(record[p].segment, d)]
  /\ UNCHANGED <<file, up, record, commit, bounds>>

-----------------------------------------------------------------------------
(* CommitDraft, under the mutex to its end.  os.WriteFile opens the file   *)
(* and truncates it, writes it in one or more parts, and may fail before   *)
(* and after any of them.  The order of the prompt is not written.         *)
WithoutPriority(id, segment) ==  \* mutant of Marshalled
  [state |-> "empty", promptID |-> id, order |-> 0, segment |-> [segment EXCEPT !.priority = 0]]
Marshalled(id, segment) ==
  [state |-> "empty", promptID |-> id, order |-> 0, segment |-> segment]

CommitBegin(p) ==
  /\ Free
  /\ draft[p] # None
  /\ Acceptable(record[p].segment, draft[p])
  /\ bounds.commits < MaxCommits
  /\ bounds' = [bounds EXCEPT !.commits = @ + 1]
  /\ commit' = [path |-> p, segment |-> ToSegment(record[p].segment, draft[p]), open |-> FALSE]
  /\ UNCHANGED <<file, up, record, draft>>

CommitOpen ==
  /\ commit # None
  /\ ~commit.open
  /\ commit' = [commit EXCEPT !.open = TRUE]
  /\ file' = [file EXCEPT ![commit.path] =
                Marshalled(record[commit.path].promptID, commit.segment)]
  /\ UNCHANGED <<up, record, draft, bounds>>

Further(state) ==
  CASE state = "empty" -> {"header", "body", "whole"}
    [] state = "header" -> {"body", "whole"}
    [] state = "body" -> {"whole"}
    [] OTHER -> {}
CommitWrite ==
  /\ commit # None
  /\ commit.open
  /\ \E state \in Further(file[commit.path].state) :
       file' = [file EXCEPT ![commit.path].state = state]
  /\ UNCHANGED <<up, record, draft, commit, bounds>>

DraftDropped(p) ==  \* mutant of CommitFailed: the draft is deleted before the write
  draft' = [draft EXCEPT ![p] = None] /\ UNCHANGED record
CommitFailed(p) == UNCHANGED <<record, draft>>
CommitFail ==
  /\ commit # None
  /\ CommitFailed(commit.path)
  /\ commit' = None
  /\ UNCHANGED <<file, up, bounds>>

Committed(p, segment) ==
  /\ record' = [record EXCEPT ![p].segment = segment]
  /\ draft' = [draft EXCEPT ![p] = None]
CommitEnd ==
  /\ commit # None
  /\ commit.open
  /\ file[commit.path].state = "whole"
  /\ Committed(commit.path, commit.segment)
  /\ commit' = None
  /\ UNCHANGED <<file, up, bounds>>

-----------------------------------------------------------------------------
(* The process dies; drafts were only in memory.                           *)
Crash ==
  /\ up
  /\ bounds.crashes < MaxCrashes
  /\ bounds' = [bounds EXCEPT !.crashes = @ + 1]
  /\ up' = FALSE
  /\ commit' = None
  /\ draft' = [p \in Paths |-> None]
  /\ UNCHANGED <<file, record>>

(* LoadDir: one file that cannot be loaded fails the whole directory, and  *)
(* so do two prompts of one identifier.                                    *)
PromptID(p) == Identifier[p][Loaded(file[p]).promptID]
DirLoads ==
  /\ \A p \in Paths : Loadable(file[p])
  /\ \A p, q \in Paths : PromptID(p) = PromptID(q) => p = q

LoadDir ==
  /\ ~up
  /\ DirLoads
  /\ up' = TRUE
  /\ record' = [p \in Paths |-> Loaded(file[p])]
  /\ UNCHANGED <<file, draft, commit, bounds>>

(* An operator puts a torn file back when LoadDir refuses the directory.   *)
Repair(p) ==
  /\ ~up
  /\ ~DirLoads
  /\ file[p].state # "whole"
  /\ file' = [file EXCEPT ![p] = InitialFile[p]]
  /\ UNCHANGED <<up, record, draft, commit, bounds>>

Next ==
  \/ \E p \in Paths : (\E d \in Drafts : SaveDraft(p, d)) \/ CommitBegin(p) \/ Repair(p)
  \/ CommitOpen \/ CommitWrite \/ CommitFail \/ CommitEnd
  \/ Crash \/ LoadDir

Spec == Init /\ [][Next]_vars

-----------------------------------------------------------------------------
(* Properties                                                              *)

(* Every variable has its type.                                            *)
TypeOK ==
  /\ file \in [Paths -> Files]
  /\ up \in BOOLEAN
  /\ record \in [Paths -> Records]
  /\ draft \in [Paths -> DraftSegments \cup {None}]
  /\ commit \in [path : Paths, segment : Segments, open : BOOLEAN] \cup {None}
  /\ bounds \in [commits : 0 .. MaxCommits, crashes : 0 .. MaxCrashes]

(* Get: the draft over the record.                                         *)
View(p) ==
  IF draft[p] = None THEN record[p].segment ELSE ToSegment(record[p].segment, draft[p])

(* A commit, whether it succeeds or fails, changes nothing of what Get     *)
(* returns for any prompt: the draft shown before is the prompt after.     *)
CommitStep == commit # None /\ commit' = None /\ up'
CommitKeepsView == [][CommitStep => \A p \in Paths : View(p)' = View(p)]_vars

(* What a file would load as is prompt r: but for line ends, for the       *)
(* order, which a commit does not write, and for the text and metadata of  *)
(* a segment with a metadata value that has a line "---" in it.            *)
Restores(f, r) ==
  /\ Loadable(f)
  /\ Loaded(f).promptID = r.promptID
  /\ Loaded(f).order \in {r.order, 0}
  /\ \/ r.segment.metadata = "fenced"
     \/ Loaded(f).segment = [r.segment EXCEPT !.content = LoadedContent(@)]

(* While the process is up, a restart would bring every prompt without a   *)
(* draft back as it is in memory; a file that a failed commit left torn,   *)
(* or newer than the prompt in memory, has its draft still there to commit *)
(* it again; and when there are no drafts LoadDir takes the directory.     *)
(* (A crash during a commit may leave a torn file and lose both texts:     *)
(* what is loaded then, if anything, is what this starts from again.)      *)
DiskAgrees ==
  up =>
    /\ \A p \in Paths : draft[p] # None \/ Restores(file[p], record[p])
    /\ (\A p \in Paths : draft[p] = None) => DirLoads
=============================================================================
