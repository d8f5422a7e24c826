---------------------------- MODULE PromptProofs ----------------------------
(***************************************************************************)
(* Theorems about PromptRegistry, for every set of prompts and drafts and  *)
(* any number of commits and crashes.                                      *)
(***************************************************************************)
EXTENDS PromptRegistry, TLAPS

(* What a commit under way has in its hands: the draft it started from is  *)
(* still there, and the file holds, as far as it was written, the segment  *)
(* that the draft makes of the record.  The mutex is what keeps this true. *)
Writing ==
  commit # None =>
    LET p == commit.path
    IN /\ up
       /\ draft[p] # None
       /\ commit.segment = ToSegment(record[p].segment, draft[p])
       /\ commit.open => file[p] = [Marshalled(record[p].promptID, commit.segment) EXCEPT !.state = file[p].state]

(* Drafts die with the process.                                            *)
Undrafted == ~up => \A p \in Paths : draft[p] = None

(* The file of a prompt without a draft loads as the prompt in memory, and *)
(* no two prompts in memory have one identifier.                           *)
Kept == up => \A p \in Paths : draft[p] # None \/ Restores(file[p], record[p])
Distinct ==
  up => \A p, q \in Paths :
          Identifier[p][record[p].promptID] = Identifier[q][record[q].promptID] => p = q

Inv == TypeOK /\ Writing /\ Undrafted /\ Kept /\ Distinct

-----------------------------------------------------------------------------
(* Loading and drafts.                                                     *)
LEMMA NoneIsNoDraft == \A d \in DraftSegments : d # None
  BY PromptAssumption

Commits == [path : Paths, segment : Segments, open : BOOLEAN]
LEMMA NoneIsNoCommit == \A c \in Commits : c # None
  BY PromptAssumption DEF Commits

LEMMA LoadedContentType ==
  ASSUME NEW content \in Contents
  PROVE  LoadedContent(content) \in Contents /\ LoadedContent(content).crlf = FALSE
  BY DEF LoadedContent, Contents

LEMMA LoadedWholeType ==
  ASSUME NEW s \in Segments
  PROVE  LoadedWhole(s) \in Segments /\ LoadedWhole(s).content.crlf = FALSE
<1>1. LoadedContent(s.content) \in Contents /\ LoadedContent(s.content).crlf = FALSE
  BY LoadedContentType DEF Segments
<1>2. [text |-> "cut", crlf |-> FALSE] \in Contents
  BY DEF Contents
<1>3. QED
  BY <1>1, <1>2 DEF LoadedWhole, Segments, Metadata

(* What was loaded is a record, and loads as itself: line ends are         *)
(* normalised once.                                                        *)
LEMMA LoadedType ==
  ASSUME NEW f \in Files, Loadable(f)
  PROVE  /\ Loaded(f) \in Records
         /\ Loaded(f).segment = [Loaded(f).segment EXCEPT !.content = LoadedContent(@)]
<1>1. /\ f.promptID \in Names /\ f.order \in Nat /\ f.segment \in Segments
      /\ f.state \in {"whole", "empty", "body"}
  BY DEF Files, States, Loadable
<1>2. Loaded(f) \in Records /\ Loaded(f).segment.content.crlf = FALSE
  <2>1. LoadedWhole(f.segment) \in Segments /\ LoadedWhole(f.segment).content.crlf = FALSE
    BY <1>1, LoadedWholeType
  <2>2. [text |-> "cut", crlf |-> FALSE] \in Contents /\ [text |-> "", crlf |-> FALSE] \in Contents
    BY DEF Contents
  <2>3. CASE f.state = "whole"
    BY <1>1, <2>1, <2>3 DEF Loaded, Records
  <2>4. CASE f.state = "body"
    BY <1>1, <2>1, <2>2, <2>4 DEF Loaded, Records, Segments
  <2>5. CASE f.state = "empty"
    BY <2>2, <2>5 DEF Loaded, Defaults, Records, Segments, Names, Roles, Metadata
  <2>6. QED
    BY <1>1, <2>3, <2>4, <2>5
<1>3. PICK r \in Records : r = Loaded(f)
  BY <1>2
<1>4. r.segment \in Segments /\ r.segment.content \in Contents /\ r.segment.content.crlf = FALSE
  BY <1>2, <1>3 DEF Records, Segments
<1>5. LoadedContent(r.segment.content) = r.segment.content
  BY <1>4 DEF LoadedContent, Contents
<1>6. [r.segment EXCEPT !.content = LoadedContent(@)] = r.segment
  BY <1>4, <1>5 DEF Segments
<1>7. QED
  BY <1>2, <1>3, <1>6

LEMMA NormalisedType ==
  ASSUME NEW base \in Segments, NEW d \in DraftSegments
  PROVE  Normalised(base, d) \in DraftSegments
  BY DEF Normalised, DraftSegments, Segments, Metadata

LEMMA ToSegmentType ==
  ASSUME NEW base \in Segments, NEW d \in DraftSegments, Acceptable(base, d)
  PROVE  ToSegment(base, d) \in Segments
  BY DEF ToSegment, Priority, Acceptable, Normalised, DraftSegments, Segments, Metadata

(* What is loaded would be loaded again.                                   *)
LEMMA RestoresItself ==
  ASSUME NEW f \in Files, Loadable(f)
  PROVE  Restores(f, Loaded(f))
<1>1. PICK r \in Records : r = Loaded(f)
  BY LoadedType
<1>2. r.segment = [r.segment EXCEPT !.content = LoadedContent(@)]
  BY <1>1, LoadedType
<1>3. QED
  BY <1>1, <1>2 DEF Restores

LEMMA FileStates ==
  /\ \A f \in Files : f.state \in States
  /\ \A f \in Files, state \in States :
       [f EXCEPT !.state = state] \in Files /\ [f EXCEPT !.state = state].state = state
  /\ \A id \in Names, s \in Segments : Marshalled(id, s) \in Files
  BY DEF Files, States, Marshalled

-----------------------------------------------------------------------------
LEMMA Starts == Init => Inv
<1> SUFFICES ASSUME Init PROVE Inv
  OBVIOUS
<1>1. \A p \in Paths : InitialFile[p] \in Files /\ Loadable(InitialFile[p])
  BY PromptAssumption DEF Loadable
<1>2. TypeOK
  <2>1. record \in [Paths -> Records]
    BY <1>1, LoadedType DEF Init
  <2>2. file \in [Paths -> Files] /\ MaxCommits \in Nat /\ MaxCrashes \in Nat
    BY PromptAssumption DEF Init
  <2>3. QED
    BY <2>1, <2>2 DEF Init, TypeOK
<1>3. Kept
  BY <1>1, RestoresItself DEF Init, Kept
<1>4. Distinct
  BY PromptAssumption DEF Init, Distinct, Loaded
<1>5. QED
  BY <1>2, <1>3, <1>4 DEF Init, Inv, Writing, Undrafted

LEMMA SaveDraftKeeps ==
  ASSUME Inv, NEW p \in Paths, NEW d \in Drafts, SaveDraft(p, d) PROVE Inv'
<1>1. Normalised(record[p].segment, d) \in DraftSegments
  BY NormalisedType, PromptAssumption DEF Inv, TypeOK, Records
<1>2. Normalised(record[p].segment, d) # None
  BY <1>1, NoneIsNoDraft
<1>3. TypeOK'
  BY <1>1 DEF Inv, TypeOK, SaveDraft
<1>4. Kept'
  BY <1>2 DEF Inv, TypeOK, Kept, SaveDraft
<1>5. QED
  BY <1>3, <1>4 DEF Inv, Writing, Undrafted, Distinct, SaveDraft, Free

LEMMA CommitBeginKeeps == ASSUME Inv, NEW p \in Paths, CommitBegin(p) PROVE Inv'
<1> DEFINE s == ToSegment(record[p].segment, draft[p])
<1>1. draft[p] \in DraftSegments /\ record[p].segment \in Segments
  BY DEF Inv, TypeOK, CommitBegin, Records
<1>2. s \in Segments
  BY <1>1, ToSegmentType DEF CommitBegin
<1>3. /\ commit' = [path |-> p, segment |-> s, open |-> FALSE]
      /\ UNCHANGED <<file, up, record, draft>>
      /\ up /\ draft[p] # None
  BY DEF CommitBegin, Free
<1>4. bounds' \in [commits : 0 .. MaxCommits, crashes : 0 .. MaxCrashes]
  BY PromptAssumption DEF CommitBegin, Inv, TypeOK
<1> HIDE DEF s
<1>5. TypeOK'
  BY <1>2, <1>3, <1>4 DEF Inv, TypeOK
<1>6. Writing'
  BY <1>3 DEF Writing, s
<1>7. QED
  BY <1>3, <1>5, <1>6 DEF Inv, Undrafted, Kept, Distinct

LEMMA CommitOpenKeeps == ASSUME Inv, CommitOpen PROVE Inv'
<1>1. commit \in Commits /\ commit # None
  BY DEF Commits, Inv, TypeOK, CommitOpen
<1>2. PICK p \in Paths : p = commit.path
  BY <1>1 DEF Commits
<1> DEFINE new == Marshalled(record[p].promptID, commit.segment)
<1>3. /\ commit' = [commit EXCEPT !.open = TRUE]
      /\ file' = [file EXCEPT ![p] = new]
      /\ UNCHANGED <<up, record, draft, bounds>>
  BY <1>2 DEF CommitOpen
<1>4. new \in Files
  BY <1>1, FileStates DEF Commits, Inv, TypeOK, Records
<1>5. /\ commit' \in Commits /\ commit'.path = p /\ commit'.segment = commit.segment
  BY <1>1, <1>2, <1>3 DEF Commits
<1>6. new = [new EXCEPT !.state = new.state]
  BY DEF Marshalled
<1>7. up /\ draft[p] # None /\ commit.segment = ToSegment(record[p].segment, draft[p])
  BY <1>1, <1>2 DEF Inv, Writing
<1> HIDE DEF new
<1>8. TypeOK'
  BY <1>3, <1>4, <1>5 DEF Inv, TypeOK, Commits
<1>9. Writing'
  <2>1. file'[p] = new
    BY <1>3 DEF Inv, TypeOK
  <2>2. file'[p] = [Marshalled(record[p].promptID, commit.segment) EXCEPT !.state = file'[p].state]
    BY <1>6, <2>1 DEF new
  <2>3. QED
    BY <1>3, <1>5, <1>7, <2>2 DEF Writing
<1>10. Kept'
  BY <1>3, <1>7 DEF Inv, TypeOK, Kept
<1>11. QED
  BY <1>3, <1>7, <1>8, <1>9, <1>10 DEF Inv, Undrafted, Distinct

LEMMA CommitWriteKeeps == ASSUME Inv, CommitWrite PROVE Inv'
<1>1. commit \in Commits /\ commit # None
  BY DEF Commits, Inv, TypeOK, CommitWrite
<1>2. PICK p \in Paths : p = commit.path
  BY <1>1 DEF Commits
<1>3. PICK state \in Further(file[p].state) : file' = [file EXCEPT ![p].state = state]
  BY <1>2 DEF CommitWrite
<1>4. UNCHANGED <<up, record, draft, commit, bounds>>
  BY DEF CommitWrite
<1>5. state \in States
  BY FileStates DEF Further, Inv, TypeOK, States
<1>6. [file[p] EXCEPT !.state = state] \in Files
  BY <1>5, FileStates DEF Inv, TypeOK
<1>7. TypeOK'
  BY <1>3, <1>4, <1>6 DEF Inv, TypeOK
<1>8. Writing'
  <2>1. file[p] = [Marshalled(record[p].promptID, commit.segment) EXCEPT !.state = file[p].state]
    BY <1>1, <1>2 DEF Inv, Writing, CommitWrite
  <2>2. file'[p] = [file[p] EXCEPT !.state = state]
    BY <1>3 DEF Inv, TypeOK
  <2>3. file'[p] = [Marshalled(record[p].promptID, commit.segment) EXCEPT !.state = file'[p].state]
    BY <2>1, <2>2 DEF Marshalled
  <2>4. QED
    BY <1>1, <1>2, <1>4, <2>3 DEF Inv, Writing
<1>9. Kept'
  <2>1. draft[p] # None
    BY <1>1, <1>2 DEF Inv, Writing
  <2>2. QED
    BY <1>3, <1>4, <2>1 DEF Inv, TypeOK, Kept
<1>10. QED
  BY <1>4, <1>7, <1>8, <1>9 DEF Inv, Undrafted, Distinct

LEMMA CommitFailKeeps == ASSUME Inv, CommitFail PROVE Inv'
  BY DEF Inv, TypeOK, Writing, Undrafted, Kept, Distinct, CommitFail, CommitFailed

(* The file is whole and holds the segment the record takes over.          *)
LEMMA CommitEndKeeps == ASSUME Inv, CommitEnd PROVE Inv'
<1>1. commit \in Commits /\ commit # None
  BY DEF Commits, Inv, TypeOK, CommitEnd
<1>2. PICK p \in Paths : p = commit.path
  BY <1>1 DEF Commits
<1>3. PICK s \in Segments : s = commit.segment
  BY <1>1 DEF Commits
<1>4. /\ record' = [record EXCEPT ![p].segment = s]
      /\ draft' = [draft EXCEPT ![p] = None]
      /\ commit' = None
      /\ file[p].state = "whole" /\ commit.open
      /\ UNCHANGED <<file, up, bounds>>
  BY <1>2, <1>3 DEF CommitEnd, Committed
<1>5. record[p] \in Records
  BY DEF Inv, TypeOK
<1>6. /\ record'[p] = [record[p] EXCEPT !.segment = s]
      /\ \A q \in Paths \ {p} : record'[q] = record[q] /\ draft'[q] = draft[q]
      /\ draft'[p] = None
  BY <1>4 DEF Inv, TypeOK
<1>7. TypeOK'
  BY <1>4, <1>5 DEF Inv, TypeOK, Records
<1>8. Restores(file[p], record'[p])
  <2>1. file[p] = [Marshalled(record[p].promptID, s) EXCEPT !.state = file[p].state]
    BY <1>1, <1>2, <1>3, <1>4 DEF Inv, Writing
  <2>2. /\ file[p].state = "whole" /\ file[p].promptID = record[p].promptID
        /\ file[p].order = 0 /\ file[p].segment = s
    BY <1>4, <2>1 DEF Marshalled
  <2>3. /\ Loadable(file[p]) /\ Loaded(file[p]).promptID = record[p].promptID
        /\ Loaded(file[p]).order = 0 /\ Loaded(file[p]).segment = LoadedWhole(s)
    BY <2>2 DEF Loadable, Loaded
  <2>4. record'[p].promptID = record[p].promptID /\ record'[p].segment = s
    BY <1>5, <1>6 DEF Records
  <2>5. s.metadata # "fenced" => LoadedWhole(s) = [s EXCEPT !.content = LoadedContent(@)]
    BY DEF LoadedWhole
  <2>6. QED
    BY <2>3, <2>4, <2>5 DEF Restores
<1>9. Kept'
  <2>1. ASSUME up', NEW q \in Paths, draft'[q] = None PROVE Restores(file'[q], record'[q])
    <3>1. CASE q = p
      BY <1>4, <1>8, <3>1
    <3>2. CASE q # p
      <4>1. Restores(file[q], record[q])
        BY <1>4, <1>6, <2>1, <3>2 DEF Inv, Kept
      <4>2. QED
        BY <1>4, <1>6, <3>2, <4>1 DEF Restores
    <3>3. QED
      BY <3>1, <3>2
  <2>2. QED
    BY <2>1 DEF Kept
<1>10. Distinct'
  <2>1. \A q \in Paths : record'[q].promptID = record[q].promptID
    BY <1>5, <1>6 DEF Records
  <2>2. QED
    BY <1>4, <2>1 DEF Inv, Distinct
<1>11. up
  BY <1>1 DEF Inv, Writing
<1>12. QED
  BY <1>4, <1>7, <1>9, <1>10, <1>11 DEF Inv, Writing, Undrafted

LEMMA CrashKeeps == ASSUME Inv, Crash PROVE Inv'
<1>1. bounds' \in [commits : 0 .. MaxCommits, crashes : 0 .. MaxCrashes]
  BY PromptAssumption DEF Crash, Inv, TypeOK
<1>2. QED
  BY <1>1 DEF Inv, TypeOK, Writing, Undrafted, Kept, Distinct, Crash

LEMMA LoadDirKeeps == ASSUME Inv, LoadDir PROVE Inv'
<1>1. \A p \in Paths : file[p] \in Files /\ Loadable(file[p])
  BY DEF Inv, TypeOK, LoadDir, DirLoads
<1>2. TypeOK'
  BY <1>1, LoadedType DEF Inv, TypeOK, LoadDir
<1>3. Kept'
  BY <1>1, RestoresItself DEF LoadDir, Kept
<1>4. Distinct'
  BY DEF LoadDir, DirLoads, PromptID, Distinct
<1>5. Writing'
  BY DEF Inv, Writing, LoadDir
<1>6. QED
  BY <1>2, <1>3, <1>4, <1>5 DEF Inv, Undrafted, LoadDir

LEMMA RepairKeeps == ASSUME Inv, NEW p \in Paths, Repair(p) PROVE Inv'
<1>1. InitialFile[p] \in Files
  BY PromptAssumption
<1>2. QED
  BY <1>1 DEF Inv, TypeOK, Writing, Undrafted, Kept, Distinct, Repair

LEMMA Steps == Inv /\ [Next]_vars => Inv'
<1> SUFFICES ASSUME Inv, [Next]_vars PROVE Inv'
  OBVIOUS
<1>1. CASE UNCHANGED vars
  BY <1>1 DEF vars, Inv, TypeOK, Writing, Undrafted, Kept, Distinct, Restores
<1>2. QED
  BY <1>1, SaveDraftKeeps, CommitBeginKeeps, CommitOpenKeeps, CommitWriteKeeps, CommitFailKeeps, CommitEndKeeps,
     CrashKeeps, LoadDirKeeps, RepairKeeps DEF Next

LEMMA RegistryInductive == Spec => []Inv
  BY Starts, Steps, PTL DEF Spec

(* Every variable keeps its type: a draft that was accepted always makes a *)
(* segment that can be written and loaded.                                 *)
THEOREM RegistryTypes == Spec => []TypeOK
<1>1. Inv => TypeOK
  BY DEF Inv
<1>2. QED
  BY RegistryInductive, <1>1, PTL

(* While the process is up a restart would bring every prompt without a    *)
(* draft back as it is in memory, up to what a file cannot hold, and       *)
(* LoadDir would take the directory, wherever writes failed and the        *)
(* process died before.                                                    *)
THEOREM DiskAlwaysAgrees == Spec => []DiskAgrees
<1>1. Inv => DiskAgrees
  <2> SUFFICES ASSUME Inv, up, \A p \in Paths : draft[p] = None PROVE DirLoads
    BY DEF Inv, Kept, DiskAgrees
  <2>1. \A p \in Paths : Restores(file[p], record[p])
    BY DEF Inv, Kept
  <2>2. \A p \in Paths : Loadable(file[p]) /\ PromptID(p) = Identifier[p][record[p].promptID]
    BY <2>1 DEF Restores, PromptID
  <2>3. QED
    BY <2>2 DEF Inv, Distinct, DirLoads
<1>2. QED
  BY RegistryInductive, <1>1, PTL

(* A commit, whether it succeeds or fails, changes nothing of what Get     *)
(* returns.                                                                *)
THEOREM CommitsKeepViews == Spec => CommitKeepsView
<1>1. Inv /\ [Next]_vars => [CommitStep => \A p \in Paths : View(p)' = View(p)]_vars
  <2> SUFFICES ASSUME Inv, Next, CommitStep PROVE \A p \in Paths : View(p)' = View(p)
    OBVIOUS
  <2>1. commit \in Commits /\ commit # None
    BY DEF Commits, Inv, TypeOK, CommitStep
  <2>2. CASE CommitFail
    BY <2>2 DEF CommitFail, CommitFailed, View
  <2>3. CASE CommitEnd
    <3>1. PICK p \in Paths : p = commit.path
      BY <2>1 DEF Commits
    <3>2. PICK s \in Segments : s = commit.segment
      BY <2>1 DEF Commits
    <3>3. /\ record'[p].segment = s /\ draft'[p] = None
          /\ \A q \in Paths \ {p} : record'[q] = record[q] /\ draft'[q] = draft[q]
      BY <2>3, <3>1, <3>2 DEF CommitEnd, Committed, Inv, TypeOK, Records
    <3>4. View(p) = s
      BY <2>1, <3>1, <3>2 DEF View, Inv, Writing
    <3>5. QED
      BY <3>3, <3>4 DEF View
  <2>4. ASSUME NEW p \in Paths, CommitBegin(p) PROVE FALSE
    BY <2>1, <2>4 DEF CommitBegin, Free
  <2>5. CASE UNCHANGED commit
    BY <2>1, <2>5 DEF CommitStep
  <2>6. ASSUME CommitOpen PROVE FALSE
    <3>1. commit' \in Commits
      BY <2>1, <2>6 DEF CommitOpen, Commits
    <3>2. QED
      BY <3>1, NoneIsNoCommit DEF CommitStep
  <2>7. QED
    BY <2>2, <2>3, <2>4, <2>5, <2>6
       DEF Next, CommitStep, SaveDraft, CommitWrite, Crash, LoadDir, Repair
<1>2. QED
  BY RegistryInductive, <1>1, PTL DEF Spec, CommitKeepsView
=============================================================================
