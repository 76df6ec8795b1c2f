--------------------------- MODULE BranchHistory ---------------------------
(***************************************************************************)
(* What a project's history promises, with no word of how versions are     *)
(* shared (docs/versioning.md).  A commit holds a content that is never    *)
(* written again; a branch has a head commit and a draft content; work on  *)
(* one branch's draft touches nothing else.                                *)
(***************************************************************************)
CONSTANTS
  Branches, RootBranch, RevisionIds, RootHead,
  Empty,    \* the content of a project that was just created
  None

VARIABLES
  commits,  \* the commits there are: [branch, parent, content], or None
  head,     \* each branch's last commit, or None
  draft     \* each branch's draft content, or None

vars == <<commits, head, draft>>

Init ==
  /\ commits = [r \in RevisionIds |->
       IF r = RootHead THEN [branch |-> RootBranch, parent |-> None, content |-> Empty]
       ELSE None]
  /\ head = [b \in Branches |-> IF b = RootBranch THEN RootHead ELSE None]
  /\ draft = [b \in Branches |-> IF b = RootBranch THEN Empty ELSE None]

\* Any edit, or a revert: another content for one branch's draft.
Edit(b) ==
  /\ head[b] # None
  /\ UNCHANGED head
  /\ DOMAIN draft' = Branches
  /\ \A c \in Branches \ {b} : draft'[c] = draft[c]
  /\ UNCHANGED commits

\* The draft's content becomes the branch's next commit; the draft goes on
\* from it.
Commit(b) ==
  \E r \in RevisionIds :
    /\ head[b] # None
    /\ head' = [head EXCEPT ![b] = r]
    /\ commits[r] = None
    /\ commits' = [commits EXCEPT ![r] =
                     [branch |-> b, parent |-> head[b], content |-> draft[b]]]
    /\ UNCHANGED draft

\* A branch starts with a commit of its own that says what the source says.
Fork(source, b) ==
  \E r \in RevisionIds :
    /\ head[b] = None
    /\ head' = [head EXCEPT ![b] = r]
    /\ commits[source] # None /\ commits[r] = None
    /\ commits' = [commits EXCEPT ![r] =
                     [branch |-> b, parent |-> source, content |-> commits[source].content]]
    /\ draft' = [draft EXCEPT ![b] = commits[source].content]

\* Only a branch no other branch was started from can go.
Drop(b) ==
  LET own == {r \in RevisionIds : commits[r] # None /\ commits[r].branch = b}
  IN  /\ head[b] # None /\ b # RootBranch
      /\ head' = [head EXCEPT ![b] = None]
      /\ \A r \in RevisionIds \ own :
           commits[r] # None => commits[r].parent \notin own
      /\ commits' = [r \in RevisionIds |-> IF r \in own THEN None ELSE commits[r]]
      /\ draft' = [draft EXCEPT ![b] = None]

Next ==
  \/ \E b \in Branches : Edit(b) \/ Commit(b) \/ Drop(b)
  \/ \E source \in RevisionIds, b \in Branches : Fork(source, b)

Spec == Init /\ [][Next]_vars
=============================================================================
