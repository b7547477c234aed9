---------------------------- MODULE MCToolCalls -----------------------------
(***************************************************************************)
(* A small instance of ToolCalls for TLC; the rules of AccessControl and   *)
(* the comparison of SyncManifest evaluated on every argument.             *)
(***************************************************************************)
EXTENDS ToolCalls, SyncManifest

\* Words that every stage of a search finds, and letters within a word, which the full
\* text index does not; a search with a filter meets the latter in the files only.
Contents ==
  {[text |-> t, log |-> FALSE] : t \in {{"fts", "like", "file"}, {"like", "file"}}}
    \cup {[text |-> {}, log |-> TRUE]}

Changes == [c \in Category |-> IF c = Watched THEN 3 ELSE 1]

\* A name for every rule, and an agent whose prefix is that of the workflows.
AllNames == {"mine", "theirs", "base", "meta", "boss", "unknown", "notes-agent", "notes_a",
             "workflow-agent", "workflow_mine", "workflow_theirs", "workflow_global"}

Suffixes == [n \in {"workflow_mine", "workflow_theirs", "workflow_global"} |->
  IF n = "workflow_mine" THEN "mine" ELSE IF n = "workflow_theirs" THEN "theirs" ELSE "global"]

Scopes == [d \in Name |-> IF d = "notes-agent" THEN {"notes_a"}
                          ELSE IF d = "workflow-agent" THEN Workflow ELSE {}]

\* Whoever is not listed here is refused (README.md, access control), and who is listed
\* is not unless the category is reserved, of the base, or another device's.
ASSUME AccessAsDocumented == \A c, d \in Name :
  Authorized(c, d) <=>
    /\ c \notin Reserved
    /\ \/ d \in Admins
       \/ /\ c \notin Base
          /\ \/ d \in Registered /\ (c = d \/ OwnWorkflow(c, d))
             \/ c \in Scope[d] \ (Registered \cup Workflow)

\* Manifests are identical if and only if their comparison shows no difference.
ASSUME ManifestsAsDocumented == \A a, b \in Stores :
  Identical(a, b) <=> ToPull(a, b) \cup ToPush(a, b) \cup Conflicts(a, b) = {}

Leaves2  == [a \in Names \X Hashes |-> a]
Digests2 == [S \in SUBSET (Names \X Hashes) |-> S]
=============================================================================
