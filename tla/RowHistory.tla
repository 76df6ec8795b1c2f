----------------------------- MODULE RowHistory -----------------------------
(***************************************************************************)
(* The earlier states of a row (src/features/row/previous-row-states),     *)
(* read page by page while drafts are committed and branches are forked    *)
(* and deleted.                                                            *)
(*                                                                         *)
(* One logical row is followed: of each committed revision the version of  *)
(* it that is linked, or None.  Drafts are not read, so an edit happens    *)
(* with its commit.  Revisions are named by their sequence, a number that  *)
(* no two of them share, in order of creation.  A page is two statements,  *)
(* one that looks the row up and one that reads its history; what the      *)
(* first finds in a committed revision stays, so a page is read as of the  *)
(* second, which may find the revision gone.                               *)
(***************************************************************************)
EXTENDS Integers, SequencesExt

CONSTANTS
  Branches,      \* branch ids
  RootBranch,    \* the branch a project is created with
  MaxSequence,   \* the bound on revisions that are ever committed
  RowVersions,   \* Row.versionId values; the bound on live versions
  RowIds,        \* the row's public ids (Row.id)
  Hashes,        \* the hashes of its data (Row.hash)
  PageSizes,     \* how many states a client asks for
  None           \* no record

RevisionIds == 1..MaxSequence

RowRecord == [versionId : RowVersions, id : RowIds, hash : Hashes]
CommitRecord ==
  [branch : Branches, parent : RevisionIds \cup {None}, isStart : BOOLEAN,
   row : RowRecord \cup {None}]

ASSUME BoundsAssumption == MaxSequence \in Nat \ {0} /\ PageSizes \subseteq Nat \ {0}
ASSUME RootAssumption == RootBranch \in Branches
ASSUME NoneAssumption ==
  None \notin Nat \cup RowVersions \cup RowRecord \cup CommitRecord

VARIABLES
  commits,        \* committed revisions, by sequence
  draftSequence,  \* the sequence of each branch's draft, or None
  lastSequence,   \* the sequence given last
  reader          \* a client: whose history it reads, and what it has got

store == <<commits, draftSequence, lastSequence>>
vars == <<commits, draftSequence, lastSequence, reader>>

NoReader == [tip |-> None, got |-> <<>>, at |-> "reading"]

-----------------------------------------------------------------------------
(* Branches and commits. *)

CommitsOf(b) == {r \in RevisionIds : commits[r] # None /\ commits[r].branch = b}
BranchExists(b) == CommitsOf(b) # {}
HeadOf(b) == Max(CommitsOf(b))

HasRow(r) == commits[r] # None /\ commits[r].row # None
UnusedVersions ==
  RowVersions \ {commits[r].row.versionId : r \in {q \in RevisionIds : HasRow(q)}}

\* A new version of the row: an update, a rename, both, or an edit and its
\* undoing.
Clones ==
  IF UnusedVersions = {} THEN {}
  ELSE [versionId : {CHOOSE v \in UnusedVersions : TRUE}, id : RowIds, hash : Hashes]

\* What a draft has made of the row: nothing (other tables have changed), its
\* removal, a new version, or its creation.  A row that was removed everywhere
\* and is created again is another row.
Edited(b) ==
  LET old == commits[HeadOf(b)].row
  IN  {old, None} \cup IF old # None \/ UnusedVersions = RowVersions THEN Clones ELSE {}

\* The draft becomes the head under the sequence it has had since the commit
\* before; the next draft gets a new one.
CommitDraft(b) ==
  /\ BranchExists(b) /\ draftSequence[b] \in RevisionIds
  /\ \E row \in Edited(b) :
       commits' = [commits EXCEPT ![draftSequence[b]] =
                     [branch |-> b, parent |-> HeadOf(b), isStart |-> FALSE, row |-> row]]
  /\ draftSequence' = [draftSequence EXCEPT ![b] = lastSequence + 1]
  /\ lastSequence' = lastSequence + 1
  /\ UNCHANGED reader

\* A branch starts with two revisions: its head, then its draft.
CreateBranch(source, b) ==
  /\ commits[source] # None /\ ~BranchExists(b)
  /\ lastSequence + 1 \in RevisionIds
  /\ commits' = [commits EXCEPT ![lastSequence + 1] =
                   [branch |-> b, parent |-> source, isStart |-> TRUE, row |-> commits[source].row]]
  /\ draftSequence' = [draftSequence EXCEPT ![b] = lastSequence + 2]
  /\ lastSequence' = lastSequence + 2
  /\ UNCHANGED reader

HasChildBranch(b) ==
  \E r \in RevisionIds :
    commits[r] # None /\ commits[r].isStart /\ commits[r].parent \in CommitsOf(b)

\* Its revisions go; a start that outlives its parent has its parentId set to
\* NULL.
DeleteBranch(b) ==
  /\ BranchExists(b) /\ b # RootBranch
  /\ ~HasChildBranch(b)
  /\ commits' = [r \in RevisionIds |->
                   IF r \in CommitsOf(b) THEN None
                   ELSE IF commits[r] # None /\ commits[r].parent \in CommitsOf(b)
                        THEN [commits[r] EXCEPT !.parent = None]
                        ELSE commits[r]]
  /\ draftSequence' = [draftSequence EXCEPT ![b] = None]
  /\ UNCHANGED <<lastSequence, reader>>

-----------------------------------------------------------------------------
(* The ancestry, as one interval of sequences to a branch. *)

ParentOf(r) == IF commits[r] = None THEN None ELSE commits[r].parent
StartOf(b) == Min({r \in CommitsOf(b) : commits[r].isStart})

\* LINEAGE_SQL: the branch up to the tip, its source up to the fork, and so on.
Lineage[tip \in RevisionIds] ==
  IF commits[tip] = None THEN {}
  ELSE LET b == commits[tip].branch
           source == ParentOf(StartOf(b))
       IN  {[branch |-> b, lo |-> StartOf(b), hi |-> tip]}
             \cup IF source = None THEN {} ELSE Lineage[source]

\* lineage_integrity: a fork whose source is lost, a draft below the tip.  One
\* project is modelled, and parents are older than their children.
HasGap(lineage) ==
  \E i \in lineage :
    ParentOf(i.lo) = None /\ \E r \in RevisionIds : commits[r] # None /\ r < i.lo
HasDraft(lineage) == \E i \in lineage : draftSequence[i.branch] <= i.hi

-----------------------------------------------------------------------------
(* Which revision introduced which version. *)

\* rowStateProbeSql: the version in the branch's last revision up to s.
VersionAt(b, s) ==
  LET row == commits[Max({r \in CommitsOf(b) : r <= s})].row
  IN  IF row = None THEN None ELSE row.versionId

AtStart(i) == VersionAt(i.branch, i.lo)
AtEnd(i) == VersionAt(i.branch, i.hi)

Intervals == [branch : Branches, lo : RevisionIds, hi : RevisionIds]
Middle(i) == i.lo + (i.hi - i.lo) \div 2

\* Mutated: a change is dated to the revision before it.
DatedBefore(i) == {i.lo}

\* Where ends that differ are adjacent, the row changed.
Dated(i) == {i.hi}

\* The recursive segments: what has different ends is halved.
Steps[i \in Intervals] ==
  IF AtStart(i) = AtEnd(i) THEN {}
  ELSE IF i.hi - i.lo = 1 THEN Dated(i)
  ELSE Steps[[i EXCEPT !.hi = Middle(i)]] \cup Steps[[i EXCEPT !.lo = Middle(i)]]

\* interval_seams: what the older part of the ancestry ends with.
BeforeStart(lineage, i) ==
  LET older == {j \in lineage : j.hi < i.lo}
  IN  IF older = {} THEN None
      ELSE AtEnd(CHOOSE j \in older : \A k \in older : k.hi <= j.hi)

\* introduction_events, with the revision of each.
Bisected(lineage) ==
  (UNION {{<<VersionAt(i.branch, s), s>> : s \in Steps[i]} : i \in lineage})
    \cup {<<AtStart(i), i.lo>> : i \in {j \in lineage : BeforeStart(lineage, j) # AtStart(j)}}

\* SCAN_INTRODUCTIONS_SQL: every revision of the ancestry that has a version.
Scanned(lineage) ==
  UNION {{<<commits[r].row.versionId, r>> :
            r \in {q \in CommitsOf(i.branch) : HasRow(q) /\ q <= i.hi}} : i \in lineage}

\* The code takes one or the other by how many versions the row has, orphans
\* included; here each page may be found either way.
Strategies == {"bisect", "scan"}
Found(strategy, lineage) ==
  {e \in IF strategy = "bisect" THEN Bisected(lineage) ELSE Scanned(lineage) : e[1] # None}

\* Each version counts once, from its oldest revision on.
Introductions(strategy, lineage) ==
  LET found == Found(strategy, lineage)
  IN  {e[2] : e \in {f \in found : \A g \in found : f[1] = g[1] => f[2] <= g[2]}}

\* A row that vanishes below the tip: seen by the bisection, at the revisions
\* it looks at.
RowReappears(lineage) ==
  \E i \in lineage :
    \/ \E s \in Steps[i] : VersionAt(i.branch, s) = None
    \/ AtStart(i) = None /\ BeforeStart(lineage, i) # None

-----------------------------------------------------------------------------
(* The events, newest first, and their pages. *)

ChangeKinds(old, new) ==
  (IF old.id # new.id THEN {"renamed"} ELSE {})
    \cup (IF old.hash # new.hash THEN {"modified"} ELSE {})

\* semantic_events: what an introduction changed; a clone without a change is
\* no event.
IntroducedBy(introductions, s) ==
  LET older == {q \in introductions : q < s}
  IN  IF older = {} THEN {"created"}
      ELSE ChangeKinds(commits[Max(older)].row, commits[s].row)

Event(s, kinds) == [revision |-> s, row |-> commits[s].row, introducedBy |-> kinds]
Newest(events) ==
  [k \in 1..Cardinality(events) |->
     CHOOSE e \in events : Cardinality({f \in events : f.revision > e.revision}) = k - 1]

\* previous_events: all but the newest, which is the state the tip has.
PreviousEvents(strategy, lineage) ==
  LET introductions == Introductions(strategy, lineage)
      events == {Event(s, IntroducedBy(introductions, s)) : s \in introductions}
      stream == Newest({e \in events : e.introducedBy # {}})
  IN  IF stream = <<>> THEN <<>> ELSE Tail(stream)

Refused(strategy, lineage) ==
  \/ HasGap(lineage)
  \/ HasDraft(lineage)
  \/ strategy = "bisect" /\ RowReappears(lineage)

\* A stream from the first of some positions on.
From(stream, positions) ==
  IF positions = {} THEN <<>> ELSE SubSeq(stream, Min(positions), Len(stream))

\* Mutated: the page starts with the event the last one ended with.
RestFrom(stream, after) ==
  From(stream, {k \in DOMAIN stream : after = None \/ stream[k].revision <= after})

\* page_plus_one, without its limit: the events after the cursor.
Rest(stream, after) ==
  From(stream, {k \in DOMAIN stream : after = None \/ stream[k].revision < after})

\* cursor_check: the cursor names an event of this very history.
CursorValid(stream, after) ==
  after = None \/ \E k \in DOMAIN stream : stream[k].revision = after

-----------------------------------------------------------------------------
(* A client that reads one history from page to page. *)

Open(tip) ==
  /\ reader.tip = None /\ commits[tip] # None
  /\ reader' = [NoReader EXCEPT !.tip = tip]
  /\ UNCHANGED store

\* The cursor is the last event of what was read.
ReadPage(strategy, first) ==
  LET lineage == Lineage[reader.tip]
      stream == PreviousEvents(strategy, lineage)
      after == IF reader.got = <<>> THEN None ELSE Last(reader.got).revision
      rest == Rest(stream, after)
  IN  /\ reader.at = "reading" /\ reader.tip # None /\ HasRow(reader.tip)
      /\ reader' =
           IF Refused(strategy, lineage) \/ ~CursorValid(stream, after)
           THEN [reader EXCEPT !.at = "refused"]
           ELSE [reader EXCEPT !.got = @ \o SubSeq(rest, 1, Min({first, Len(rest)})),
                               !.at = IF Len(rest) > first THEN "reading" ELSE "done"]
      /\ UNCHANGED store

\* The revision was deleted since the last page, or since the lookup.
FindGone ==
  /\ reader.at = "reading" /\ reader.tip # None /\ commits[reader.tip] = None
  /\ reader' = [reader EXCEPT !.at = "refused"]
  /\ UNCHANGED store

Leave ==
  /\ reader # NoReader
  /\ reader' = NoReader
  /\ UNCHANGED store

-----------------------------------------------------------------------------

\* A project starts with a root branch: a head, and a draft of it.
Init ==
  /\ commits = [r \in RevisionIds |->
       IF r = 1 THEN [branch |-> RootBranch, parent |-> None, isStart |-> TRUE, row |-> None]
       ELSE None]
  /\ draftSequence = [b \in Branches |-> IF b = RootBranch THEN 2 ELSE None]
  /\ lastSequence = 2
  /\ reader = NoReader

Next ==
  \/ \E b \in Branches : DeleteBranch(b) \/ CommitDraft(b)
  \/ \E source \in RevisionIds, b \in Branches : CreateBranch(source, b)
  \/ \E tip \in RevisionIds : Open(tip)
  \/ \E strategy \in Strategies, first \in PageSizes : ReadPage(strategy, first)
  \/ FindGone \/ Leave

Spec == Init /\ [][Next]_vars
-----------------------------------------------------------------------------
(* Properties. *)

\* What the history is: the commits from the tip to the root, parent by
\* parent, that changed the row.
Path[tip \in RevisionIds] ==
  {tip} \cup IF ParentOf(tip) = None THEN {} ELSE Path[ParentOf(tip)]

Changed(r) ==
  IF ParentOf(r) = None \/ ~HasRow(ParentOf(r)) THEN {"created"}
  ELSE ChangeKinds(commits[ParentOf(r)].row, commits[r].row)

PreviousChanges(tip) ==
  Tail(Newest({Event(r, Changed(r)) :
                 r \in {q \in Path[tip] : HasRow(q) /\ Changed(q) # {}}}))

\* The history of a committed revision is served as long as the revision is
\* there, across forks of forks and whatever is committed or deleted beside it;
\* and both ways of finding it give exactly the commits that changed the row.
HistoryIsComplete ==
  /\ reader.at = "refused" => commits[reader.tip] = None
  /\ reader.at = "done" /\ HasRow(reader.tip) => reader.got = PreviousChanges(reader.tip)

\* A client that asks for one page after another gets each event once and in
\* order, though revisions come and go, and pages are found in different ways,
\* in between.
PagesJoinUp ==
  reader.tip # None /\ HasRow(reader.tip) =>
    IsPrefix(reader.got, PreviousChanges(reader.tip))
=============================================================================
