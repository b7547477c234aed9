------------------------------ MODULE ToolCalls ------------------------------
(***************************************************************************)
(* The calls of one server process (server.rs, http_server.rs), over a     *)
(* store that other processes change as well.  The mutex of the store lets *)
(* one call through at a time, but a call that reads several times reads   *)
(* at several instants, and a call that writes waits for SQLite's lock     *)
(* (WriteTransaction).  A single read is coherent (CategoryReaders) and    *)
(* fails only when its category is changed meanwhile.                      *)
(***************************************************************************)
EXTENDS WriteTransaction, AccessControl, FiniteSets

CONSTANTS
  Category,    \* the categories of this instance
  Self,        \* acl.device_name
  Watched,     \* the category a client keeps a copy of
  Content,     \* records [text, log]: which stages of a search match, and the kind
  Limit,       \* limit of the searches
  MaxChanges,  \* bound: changes of every category
  Absent

ASSUME ToolsAssumption ==
  /\ Category \subseteq Name /\ IsFiniteSet(Category)
  /\ Self \in Name /\ Watched \in Category
  /\ \A x \in Content : x.text \subseteq {"fts", "like", "file"} /\ x.log \in BOOLEAN
  /\ Limit \in Nat \ {0} /\ MaxChanges \in [Category -> Nat]
  /\ Absent \notin Nat
  /\ \A c \in Category, x \in Content : \A n \in 1 .. MaxChanges[c] :
       [id |-> n, text |-> x.text, log |-> x.log] # Absent

VARIABLES
  rows,     \* of every category Absent or [id, text, log], id the version it is
  index,    \* its rows of search_index and search_fts
  commits,  \* how often it was changed
  call,     \* the call under way, or the last one
  at,       \* where it is, "done" if the mutex is free
  todo,     \* categories it has still to read
  got,      \* what it reports
  seen,     \* history: versions its categories had since it began
  known,    \* the hash the client of Watched holds
  copy,     \* the content it holds
  asking,   \* the hash its memory_delta under way has read
  answer    \* what its last memory_delta said, until something else happens

store  == <<rows, index, commits>>
tools  == <<call, at, todo, got, seen>>
client == <<known, copy, asking, answer>>
vars   == <<tvars, store, tools, client>>

\* what a version number stands for: hash and content alike
Id(c) == IF rows[c] = Absent THEN Absent ELSE rows[c].id

Present == {c \in Category : rows[c] # Absent}

IsLog(c) == rows[c] # Absent /\ rows[c].log

NoCall  == [tool |-> "none"]
NotSeen == [c \in Category |-> {}]

Init ==
  /\ TxnInit
  /\ rows = [c \in Category |-> Absent] /\ index = rows
  /\ commits = [c \in Category |-> 0]
  /\ call = NoCall /\ at = "done" /\ todo = {} /\ got = {} /\ seen = NotSeen
  /\ known = Absent /\ copy = Absent /\ asking = Absent /\ answer = "none"

-----------------------------------------------------------------------------
(* Changes of the store. *)

Room(c) == commits[c] < MaxChanges[c]

\* Mutant: a deleted category stays in the index.
IndexedButDeleted(c, row) == IF row = Absent THEN index[c] ELSE row

\* The index is brought up to date in the transaction of the row.
Indexed(c, row) == row

NewRow(c, x) == [id |-> commits[c] + 1, text |-> x.text, log |-> x.log]

Store(c, row) ==
  /\ rows'    = [rows    EXCEPT ![c] = row]
  /\ index'   = [index   EXCEPT ![c] = Indexed(c, row)]
  /\ commits' = [commits EXCEPT ![c] = @ + 1]

Forget == call' = NoCall /\ todo' = {} /\ got' = {} /\ seen' = NotSeen

\* Another process commits something: calls under way may see it, the last answer of
\* memory_delta and the results of the last call are old news.
OtherCommits(c) ==
  /\ Room(c)
  /\ \E row \in {NewRow(c, x) : x \in Content} \cup {Absent} :
       row # rows[c] /\ Store(c, row)
  /\ IF at = "done"
     THEN Forget
     ELSE /\ seen' = [seen EXCEPT ![c] = IF @ = {} THEN {} ELSE @ \cup {Id(c)'}]
          /\ UNCHANGED <<call, todo, got>>
  /\ answer' = IF c = Watched THEN "none" ELSE answer
  /\ UNCHANGED <<at, known, copy, asking>>

OtherEnds ==
  /\ OtherReleases
  /\ (\E c \in Category : OtherCommits(c)) \/ UNCHANGED <<store, tools, client>>

Surroundings ==
  /\ OtherTakes \/ Tick
  /\ UNCHANGED <<store, tools, client>>

-----------------------------------------------------------------------------
(* Calls that change a category. *)

BeginsChange(tool, c, e) ==
  /\ at = "done"
  /\ call' = [tool |-> tool, cat |-> c, expects |-> e]
  /\ Begin
  /\ at' = "change" /\ todo' = {} /\ got' = {} /\ seen' = NotSeen
  /\ UNCHANGED <<store, client>>

\* expected_hash, if any, comes from the client of Watched.
Expected(c) == IF c = Watched THEN {Absent, known} ELSE {Absent}

\* The tools check who asks.
Permitted == {c \in Category : Authorized(c, Self)}

MemoryWrite ==
  \E c \in Permitted : \E e \in Expected(c) : BeginsChange("write", c, e)

MemoryAppend ==
  \E c \in Permitted : BeginsChange("append", c, Absent)

MemoryDelete ==
  \E c \in Permitted : BeginsChange("delete", c, Absent)

\* HTTP knows its callers by one token and checks no rule; /write reads the kind without
\* the lock.
HandleWrite ==
  \E c \in Category : \E e \in Expected(c) : ~IsLog(c) /\ BeginsChange("write", c, e)

HandleDelete ==
  \E c \in Category : BeginsChange("delete", c, Absent)

ChangeCall == MemoryWrite \/ MemoryAppend \/ MemoryDelete \/ HandleWrite \/ HandleDelete

\* A step of the transaction; a call whose transaction ends without a commit ends.
TxnStep ==
  /\ Attempt \/ StillBusy \/ Wakes \/ Begun \/ StatementFails
  /\ at' = IF phase' = "idle" THEN "done" ELSE at
  /\ UNCHANGED <<store, call, todo, got, seen, client>>

\* Mutant: expected_hash is not compared under the lock.
AcceptedUncompared ==
  CASE call.tool = "write" -> ~IsLog(call.cat)
    [] call.tool = "append" -> rows[call.cat] = Absent \/ IsLog(call.cat)
    [] OTHER -> TRUE

\* Kind and expected_hash against what is committed.
Accepted ==
  CASE call.tool = "write" ->
         /\ ~IsLog(call.cat)
         /\ Absent \notin {call.expects, rows[call.cat]} => Id(call.cat) = call.expects
    [] call.tool = "append" -> rows[call.cat] = Absent \/ IsLog(call.cat)
    [] OTHER -> TRUE

Stage ==
  /\ at = "change" /\ Accepted /\ Room(call.cat)
  /\ Commit
  /\ UNCHANGED <<store, tools, client>>

\* A refusal or an error under the lock.
Refused ==
  /\ at = "change"
  /\ RolledBack
  /\ at' = "done"
  /\ UNCHANGED <<store, call, todo, got, seen, client>>

\* What the call stores: an append a log, a write whatever the client sends.
Outcomes(c) ==
  IF call.tool = "delete" THEN {Absent}
  ELSE {NewRow(c, x) : x \in {y \in Content : call.tool = "append" => y.log}}

\* The client of a conditional write holds what it wrote.
Changed ==
  /\ at = "change"
  /\ Committed
  /\ at' = "done"
  /\ \E row \in Outcomes(call.cat) :
       IF row = rows[call.cat] THEN UNCHANGED store ELSE Store(call.cat, row)
  /\ IF call.expects # Absent
     THEN known' = Id(Watched)' /\ copy' = Id(Watched)' /\ answer' = "none"
     ELSE /\ answer' = IF rows'[Watched] # rows[Watched] THEN "none" ELSE answer
          /\ UNCHANGED <<known, copy>>
  /\ UNCHANGED <<call, todo, got, seen, asking>>

-----------------------------------------------------------------------------
(* memory_read and memory_delta of the client. *)

MemoryRead ==
  /\ at = "done" /\ rows[Watched] # Absent
  /\ known' = Id(Watched) /\ copy' = Id(Watched) /\ answer' = "none"
  /\ Forget
  /\ UNCHANGED <<tvars, store, at, asking>>

\* The hash, from the row.
MemoryDelta ==
  /\ at = "done" /\ known # Absent
  /\ IF Id(Watched) \in {Absent, known}
     THEN /\ answer' = IF Id(Watched) = Absent THEN "deleted" ELSE "unchanged"
          /\ known' = Id(Watched) /\ copy' = IF Id(Watched) = Absent THEN Absent ELSE copy
          /\ UNCHANGED <<at, asking>>
     ELSE /\ asking' = Id(Watched) /\ at' = "value" /\ answer' = "none"
          /\ UNCHANGED <<known, copy>>
  /\ Forget
  /\ UNCHANGED <<tvars, store>>

\* Mutant: the content is read first and the hash afterwards.
DeltaHashLast ==
  /\ at = "value" /\ at' = "done" /\ asking' = Absent
  /\ IF Id(Watched) = Absent
     THEN answer' = "none" /\ UNCHANGED <<known, copy>>
     ELSE known' = Id(Watched) /\ copy' = asking /\ answer' = "changed"
  /\ UNCHANGED <<tvars, store, call, todo, got, seen>>

\* The content, in a read of its own; it fails if the category is deleted or, maybe, if
\* it has changed.
DeltaValue ==
  /\ at = "value" /\ at' = "done" /\ asking' = Absent
  /\ \/ /\ Id(Watched) # Absent
        /\ known' = asking /\ copy' = Id(Watched) /\ answer' = "changed"
     \/ /\ Id(Watched) # asking
        /\ answer' = "none" /\ UNCHANGED <<known, copy>>
  /\ UNCHANGED <<tvars, store, call, todo, got, seen>>
-----------------------------------------------------------------------------
(* Calls that read several times. *)

Hit(c) == [cat |-> c, id |-> rows[c].id]

\* A search filters by category, or by date and actor, which select rows as well.
Filters == {Category} \cup {{c} : c \in Category}

BeginsReading(new, where, cats) ==
  /\ at = "done"
  /\ call' = new /\ at' = where /\ todo' = cats /\ got' = {}
  /\ seen' = [c \in Category |-> {Id(c)}]
  /\ UNCHANGED <<tvars, store, client>>

Returns(result) == at' = "done" /\ todo' = {} /\ got' = result

ReadsOn(where, cats, result) == at' = where /\ todo' = cats /\ got' = result

Touched(c) == Cardinality(seen[c]) > 1

\* What read(c) of a category can give, IF it matters only when p holds: the row as it
\* is, or nothing because it is gone or the read failed.
Given(c, p) ==
  (IF c \in Present /\ p THEN {{Hit(c)}} ELSE {{}}) \cup (IF Touched(c) THEN {{}} ELSE {})

\* memory_search and /search.
SearchCall ==
  \E f \in Filters : BeginsReading([tool |-> "search", filter |-> f], "fts", {})

\* memory_search_semantic searches for itself, without filter.
SemanticCall == BeginsReading([tool |-> "semantic", filter |-> Category], "texts", {})

SemanticTexts ==
  /\ at = "texts"
  /\ IF \A c \in Category : index[c] = Absent THEN Returns({}) ELSE ReadsOn("fts", {}, {})
  /\ UNCHANGED <<tvars, store, call, seen, client>>

Most == IF call.tool = "semantic" THEN 3 * Limit ELSE Limit

Found(hits) == IF call.tool = "semantic" THEN ReadsOn("entries", {}, {}) ELSE Returns(hits)

\* The rows of the index one stage matches.
Matches(stage) ==
  {[cat |-> c, id |-> index[c].id] :
     c \in {b \in call.filter : index[b] # Absent /\ stage \in index[b].text}}

\* One query on the index; the best of what it finds, or the next stage.
Query(stage, next) ==
  /\ at = stage
  /\ IF Matches(stage) = {}
     THEN ReadsOn(next, {}, {})
     ELSE \E hits \in (SUBSET Matches(stage)) \ {{}} : Cardinality(hits) <= Most /\ Found(hits)
  /\ UNCHANGED <<tvars, store, call, seen, client>>

SearchFts  == Query("fts", "like")
SearchLike == Query("like", "files")

\* search_in_files: the list, whatever the filter, then one read per category.
ScanList ==
  /\ at = "files"
  /\ IF Present = {} THEN Found({}) ELSE ReadsOn("scan", Present, {})
  /\ UNCHANGED <<tvars, store, call, seen, client>>

\* Mutant: a read that fails ends the scan.
ScanReadUntilError ==
  /\ at = "scan"
  /\ \E c \in todo : \E hits \in Given(c, "file" \in rows[c].text), several \in BOOLEAN :
       LET all == got \cup hits IN
         IF todo = {c} \/ Cardinality(all) >= Most \/ c \notin Present \/ (several /\ hits # {})
         THEN Found(all)
         ELSE ReadsOn("scan", todo \ {c}, all)
  /\ UNCHANGED <<tvars, store, call, seen, client>>

\* One category; several hits in it may use up the limit.
ScanRead ==
  /\ at = "scan"
  /\ \E c \in todo : \E hits \in Given(c, "file" \in rows[c].text), several \in BOOLEAN :
       LET all == got \cup hits IN
         IF todo = {c} \/ Cardinality(all) >= Most \/ (several /\ hits # {})
         THEN Found(all)
         ELSE ReadsOn("scan", todo \ {c}, all)
  /\ UNCHANGED <<tvars, store, call, seen, client>>

\* hybrid_search over all entries, read after the keyword search: which of them score
\* is arithmetic.
SemanticEntries ==
  /\ at = "entries"
  /\ \E result \in SUBSET {[cat |-> c, id |-> index[c].id] : c \in {b \in Category : index[b] # Absent}} :
       Cardinality(result) <= Limit /\ Returns(result)
  /\ UNCHANGED <<tvars, store, call, seen, client>>

\* memory_context.
ContextCall ==
  \E cats \in (SUBSET Category) \ {{}} : BeginsReading([tool |-> "context"], "context", cats)

ContextRead ==
  /\ at = "context"
  /\ \E c \in todo : \E hits \in Given(c, TRUE) :
       IF todo = {c} THEN Returns(got \cup hits) ELSE ReadsOn("context", todo \ {c}, got \cup hits)
  /\ UNCHANGED <<tvars, store, call, seen, client>>

\* memory_list and /list: the rows in one statement, then the counts of stats.
ListCall == BeginsReading([tool |-> "list"], "rows", {})

\* build_manifest of sync_manifest, sync_diff, memory_status and /manifest.
ManifestCall == BeginsReading([tool |-> "manifest"], "rows", {})

ListRows ==
  /\ at = "rows"
  /\ IF call.tool = "list" THEN ReadsOn("stats", {}, {Hit(c) : c \in Present})
     ELSE IF Present = {} THEN Returns({})
     ELSE ReadsOn("versions", Present, {Hit(c) : c \in Present})
  /\ UNCHANGED <<tvars, store, call, seen, client>>

ListStats ==
  /\ at = "stats"
  /\ Returns(got)
  /\ UNCHANGED <<tvars, store, call, seen, client>>

\* get_category_version: of the newest version, 0 if there is none.
Version(c) == IF rows[c] = Absent THEN 0 ELSE rows[c].id

ManifestVersion ==
  /\ at = "versions"
  /\ \E c \in todo : \E entry \in {h \in got : h.cat = c} :
       LET all == (got \ {entry}) \cup {[cat |-> c, id |-> entry.id, version |-> Version(c)]} IN
         IF todo = {c} THEN Returns(all) ELSE ReadsOn("versions", todo \ {c}, all)
  /\ UNCHANGED <<tvars, store, call, seen, client>>

ReadStep ==
  \/ SemanticTexts \/ SearchFts \/ SearchLike \/ ScanList \/ ScanRead \/ SemanticEntries
  \/ ContextRead \/ ListRows \/ ListStats \/ ManifestVersion

ReadCall == SearchCall \/ SemanticCall \/ ContextCall \/ ListCall \/ ManifestCall

Next ==
  \/ ChangeCall \/ TxnStep \/ Stage \/ Refused \/ Changed
  \/ MemoryRead \/ MemoryDelta \/ DeltaValue
  \/ ReadCall \/ ReadStep
  \/ OtherEnds \/ Surroundings

Spec == Init /\ [][Next]_vars

Fairness ==
  /\ WF_vars(TxnStep \/ Changed) /\ WF_vars(Stage \/ Refused)
  /\ WF_vars(ReadStep \/ DeltaValue) /\ WF_vars(Surroundings /\ Tick)

FairSpec == Spec /\ Fairness
-----------------------------------------------------------------------------
(* Properties. *)

\* Every call returns, however long others keep SQLite's lock (lock_deadline_ms; the
\* calls behind it wait for the mutex).
CallsReturn == at # "done" ~> at = "done"

\* A search that reports nothing has missed no category that stayed as it was while it
\* ran: the stages look at different instants, and a category that changes under the
\* scan of the files must not hide the others.
NothingIsMissed ==
  at = "done" /\ call.tool = "search" /\ got = {} =>
    \A c \in Present : ~Touched(c) =>
      /\ "file" \notin rows[c].text
      /\ c \in call.filter => rows[c].text = {}

\* What a call reports of a category it held at some moment of the call; the version a
\* manifest gives is that of its hash, or a later one if the category changed meanwhile.
ReportsAreOfTheCall ==
  at = "done" => \A h \in got :
    /\ h.id \in seen[h.cat]
    /\ call.tool = "manifest" =>
         \/ h.version = h.id
         \/ Touched(h.cat) /\ (h.version > h.id \/ h.version = 0)

-----------------------------------------------------------------------------
(* What a client sees of this is DeltaPolling. *)

Polling == INSTANCE DeltaPolling WITH
  Distinct   <- TRUE,
  MaxChanges <- MaxChanges[Watched],
  stored     <- Id(Watched),
  changes    <- commits[Watched]

ImplementsPolling == Polling!Spec

\* A conditional write of the client replaces the content it holds a copy of, or nothing:
\* hash and copy may come from two reads, and the call may wait long for the lock.
WritesReplaceWhatTheySaw == [][
  Changed /\ call.expects # Absent => Id(Watched) \in {Absent, copy} ]_vars

\* When memory_delta says unchanged, the client's copy is the committed content.
UnchangedIsTrue == answer = "unchanged" => copy = Id(Watched)
=============================================================================
