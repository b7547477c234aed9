---------------------------- MODULE SyncExchange ----------------------------
(***************************************************************************)
(* Fleet sync (sync.rs, memory_sync in server.rs, the sync handlers of     *)
(* http_server.rs): devices write their own store and now and then push    *)
(* what is dirty to a hub, or pull what the hub has.  The request travels  *)
(* over HTTP, may be lost, answered too late or applied after its sender   *)
(* gave up; the device's store mutex is not held meanwhile.                *)
(*                                                                         *)
(* Each mutation of a store is one step (see CategoryStore); a node in     *)
(* Shared has another process that writes the same store.  A hash is the   *)
(* body together with the way its node serializes it.                      *)
(***************************************************************************)
EXTENDS Naturals, FiniteSets

CONSTANTS
  Client,     \* devices with a sync.remote_url
  Hub,        \* the node that serves the HTTP API
  Category, Body,
  Offer,      \* the bodies that may be written at each time
  Style,      \* how each node serializes a value: equal bodies, equal bytes?
  Strategy,   \* sync.conflict_strategy
  Shared,     \* nodes whose store another process writes too
  Quiet,      \* devices that write nothing while their push is under way
  Broken,     \* categories whose file a device cannot read at export
  Skew,       \* whether the clocks of the nodes may differ
  Deletes,    \* whether categories get deleted
  MaxTime,    \* bound: clock values, one per write
  MaxFaults,  \* bound: lost messages, timeouts, I/O errors and crashes
  Absent

Node == Client \cup {Hub}

ASSUME SyncAssumption ==
  /\ Hub \notin Client
  /\ Shared \subseteq Node /\ Quiet \subseteq Client /\ Broken \subseteq Category
  /\ Offer \in [1 .. MaxTime -> SUBSET Body]
  /\ Strategy \in {"last_write_wins", "local_wins", "remote_wins"}
  /\ Skew \in BOOLEAN /\ Deletes \in BOOLEAN
  /\ MaxTime \in Nat /\ MaxFaults \in Nat

VARIABLES
  row,      \* the category rows of each node
  dirty,    \* sync_dirty of each node
  alias,    \* sync_state remote_hash:<name> of each node
  clock,    \* the last timestamp each node has given out
  sync,     \* the push or pull each device runs
  job,      \* apply_sync_envelope running at a node
  wire,     \* requests and responses in flight
  faults,   \* faults so far
  offered   \* for the properties: versions the hub has ruled on

vars == <<row, dirty, alias, clock, sync, job, wire, faults, offered>>

Hash     == Body \X {Style[n] : n \in Node}
Version  == [body : Body, at : 1 .. MaxTime, by : Node]
Mark     == {"clean", "upsert", "delete"}
Alias    == [remote : Hash, by : Node, physical : Hash]
Item     == [cat : Category, version : Version, hash : Hash]
Envelope == [items : SUBSET Item, gone : SUBSET Category]
Sync     == [pc : {"idle", "exported", "pushing", "pulling"},
             env : Envelope, names : SUBSET Category]
Job      == [stage : {"free", "deciding", "upserting", "clearing"},
             env : Envelope, item : Item \cup {Absent}, cat : Category \cup {Absent},
             failed : BOOLEAN, client : Client \cup {Absent}, open : BOOLEAN]
Message  == [kind : {"import", "export", "imported", "exported"}, client : Client,
             env : Envelope, ok : BOOLEAN, open : BOOLEAN]

ASSUME AbsentAssumption == Absent \notin Alias

Empty   == [items |-> {}, gone |-> {}]
Idle    == [pc |-> "idle", env |-> Empty, names |-> {}]
FreeJob == [stage |-> "free", env |-> Empty, item |-> Absent, cat |-> Absent,
            failed |-> FALSE, client |-> Absent, open |-> FALSE]

TypeOK ==
  /\ row     \in [Node -> [Category -> Version \cup {Absent}]]
  /\ dirty   \in [Node -> [Category -> Mark]]
  /\ alias   \in [Node -> [Category -> Alias \cup {Absent}]]
  /\ clock   \in [Node -> 0 .. MaxTime]
  /\ sync    \in [Client -> Sync]
  /\ job     \in [Node -> Job]
  /\ wire    \subseteq Message
  /\ faults  \in 0 .. MaxFaults
  /\ offered \in [Category -> SUBSET Version]

Init ==
  /\ row     = [n \in Node |-> [c \in Category |-> Absent]]
  /\ dirty   = [n \in Node |-> [c \in Category |-> "clean"]]
  /\ alias   = [n \in Node |-> [c \in Category |-> Absent]]
  /\ clock   = [n \in Node |-> 0]
  /\ sync    = [n \in Client |-> Idle]
  /\ job     = [n \in Node |-> FreeJob]
  /\ wire    = {}
  /\ faults  = 0
  /\ offered = [c \in Category |-> {}]

-----------------------------------------------------------------------------
(* Local mutations. *)

HashOn(n, b) == <<b, Style[n]>>

\* A timestamp is later than the node's own; without skew, than everybody's.
Stamp(n, t) ==
  /\ t \in 1 .. MaxTime /\ t > clock[n]
  /\ ~Skew => \A m \in Node : t > clock[m]

\* The store mutex is held while an envelope is exported or applied, not while
\* the remote is awaited; other processes do not know it.
MayWrite(n) ==
  /\ n \in Shared \/ (job[n].stage = "free" /\ (n \in Client => sync[n].pc # "exported"))
  /\ n \in Quiet => sync[n].pc \notin {"exported", "pushing"}

Write(n, c) == \E t \in 1 .. MaxTime : \E b \in Offer[t] :
  /\ MayWrite(n) /\ Stamp(n, t)
  /\ row'   = [row   EXCEPT ![n][c] = [body |-> b, at |-> t, by |-> n]]
  /\ dirty' = [dirty EXCEPT ![n][c] = "upsert"]
  /\ clock' = [clock EXCEPT ![n] = t]
  /\ offered' = IF n = Hub THEN [offered EXCEPT ![c] = @ \cup {row'[n][c]}] ELSE offered
  /\ UNCHANGED <<alias, sync, job, wire, faults>>

\* Store::delete removes the row and the alias and queues the deletion.
Remove(n, c) ==
  /\ row'   = [row   EXCEPT ![n][c] = Absent]
  /\ alias' = [alias EXCEPT ![n][c] = Absent]
  /\ dirty' = [dirty EXCEPT ![n][c] = "delete"]

Delete(n, c) == \E t \in 1 .. MaxTime :
  /\ Deletes /\ MayWrite(n) /\ Stamp(n, t)
  /\ Remove(n, c)
  /\ clock' = [clock EXCEPT ![n] = t]
  /\ UNCHANGED <<sync, job, wire, faults, offered>>

-----------------------------------------------------------------------------
(* Export, on either side. *)

ItemsOf(n, cs) ==
  {[cat |-> c, version |-> row[n][c], hash |-> HashOn(n, row[n][c].body)] :
     c \in {d \in cs : row[n][d] # Absent}}

\* export_dirty_envelope: a category that cannot be read is skipped.
DirtyEnvelope(n) ==
  LET marked(op) == {c \in Category : dirty[n][c] = op}
  IN  [items |-> ItemsOf(n, marked("upsert") \ Broken),
       gone  |-> marked("delete")]

\* push_dirty: one lock of the mutex, but two looks at the queue.
PushExport(n) ==
  /\ sync[n].pc = "idle" /\ DirtyEnvelope(n) # Empty
  /\ sync' = [sync EXCEPT ![n] = [@ EXCEPT !.pc = "exported", !.env = DirtyEnvelope(n)]]
  /\ UNCHANGED <<row, dirty, alias, clock, job, wire, faults, offered>>

PushSend(n) ==
  LET names == {c \in Category : dirty[n][c] # "clean"} IN
  /\ sync[n].pc = "exported"
  /\ sync' = [sync EXCEPT ![n] = [@ EXCEPT !.pc = "pushing", !.names = names]]
  /\ wire' = wire \cup {[kind |-> "import", client |-> n, env |-> sync[n].env,
                         ok |-> TRUE, open |-> TRUE]}
  /\ UNCHANGED <<row, dirty, alias, clock, job, faults, offered>>

PullSend(n) ==
  /\ sync[n].pc = "idle"
  /\ sync' = [sync EXCEPT ![n].pc = "pulling"]
  /\ wire' = wire \cup {[kind |-> "export", client |-> n, env |-> Empty,
                         ok |-> TRUE, open |-> TRUE]}
  /\ UNCHANGED <<row, dirty, alias, clock, job, faults, offered>>

\* handle_sync_export: every category of the hub, and no deletion.
HubExports(m) ==
  /\ m \in wire /\ m.kind = "export"
  /\ job[Hub].stage = "free"
  /\ wire' = (wire \ {m}) \cup
       (IF m.open THEN {[m EXCEPT !.kind = "exported",
                                  !.env = [Empty EXCEPT !.items = ItemsOf(Hub, Category)]]}
                  ELSE {})
  /\ UNCHANGED <<row, dirty, alias, clock, sync, job, faults, offered>>

-----------------------------------------------------------------------------
(* apply_sync_envelope. *)

StartJob(n, m) ==
  /\ job[n].stage = "free"
  /\ job'  = [job EXCEPT ![n] = [FreeJob EXCEPT !.stage = "deciding", !.env = m.env,
                                                !.client = m.client, !.open = m.open]]
  /\ wire' = wire \ {m}
  /\ UNCHANGED <<row, dirty, alias, clock, sync, faults, offered>>

HubImports(m) == m \in wire /\ m.kind = "import" /\ StartJob(Hub, m)

PullArrives(m) ==
  m \in wire /\ m.kind = "exported" /\ sync[m.client].pc = "pulling" /\ StartJob(m.client, m)

\* Mutant: the alias counts whatever the local bytes have become since.
HoldsByAliasAlone(n, e) ==
  \/ HashOn(n, row[n][e.cat].body) = e.hash
  \/ alias[n][e.cat] # Absent /\ alias[n][e.cat].remote = e.hash /\ alias[n][e.cat].by = e.version.by

\* Mutant: the alias is ignored.
HoldsByHashAlone(n, e) == HashOn(n, row[n][e.cat].body) = e.hash

\* holds_remote_version: the same bytes, or the last import of exactly that version.
Holds(n, e) ==
  LET physical == HashOn(n, row[n][e.cat].body) IN
  \/ physical = e.hash
  \/ alias[n][e.cat] = [remote |-> e.hash, by |-> e.version.by, physical |-> physical]

\* Mutant: the remote version always wins.
RemoteWinsAlways(n, e) == TRUE

\* resolve_conflict
RemoteWins(n, e) ==
  CASE Strategy = "local_wins"  -> FALSE
    [] Strategy = "remote_wins" -> TRUE
    [] OTHER                    -> e.version.at >= row[n][e.cat].at

Offered(n, e) ==
  offered' = IF n = Hub THEN [offered EXCEPT ![e.cat] = @ \cup {e.version}] ELSE offered

\* get_meta, holds_remote_version and resolve_conflict: outside the write lock.
Decide(n) == \E e \in job[n].env.items :
  /\ job[n].stage = "deciding"
  /\ IF row[n][e.cat] = Absent \/ (~Holds(n, e) /\ RemoteWins(n, e))
     THEN /\ job' = [job EXCEPT ![n] = [@ EXCEPT !.stage = "upserting", !.item = e]]
          /\ UNCHANGED offered
     ELSE /\ job' = [job EXCEPT ![n].env.items = @ \ {e}]
          /\ Offered(n, e)
  /\ UNCHANGED <<row, dirty, alias, clock, sync, wire, faults>>

\* Mutant: the import is signed by the node that takes it.
UpsertSignedLocally(n) ==
  LET e == job[n].item IN
  /\ job[n].stage = "upserting"
  /\ row'   = [row EXCEPT ![n][e.cat] = [e.version EXCEPT !.by = n]]
  /\ alias' = [alias EXCEPT ![n][e.cat] = [remote |-> e.hash, by |-> e.version.by,
                                           physical |-> HashOn(n, e.version.body)]]
  /\ job'   = [job EXCEPT ![n] = [@ EXCEPT !.stage = "clearing", !.cat = e.cat]]
  /\ Offered(n, e)
  /\ UNCHANGED <<dirty, clock, sync, wire, faults>>

\* upsert_synced_category keeps the peer's stamp and records the alias.
Upsert(n) ==
  LET e == job[n].item IN
  /\ job[n].stage = "upserting"
  /\ row'   = [row EXCEPT ![n][e.cat] = e.version]
  /\ alias' = [alias EXCEPT ![n][e.cat] = [remote |-> e.hash, by |-> e.version.by,
                                           physical |-> HashOn(n, e.version.body)]]
  /\ job'   = [job EXCEPT ![n] = [@ EXCEPT !.stage = "clearing", !.cat = e.cat]]
  /\ Offered(n, e)
  /\ UNCHANGED <<dirty, clock, sync, wire, faults>>

\* A deletion is applied whatever the local version is.
ApplyDeletion(n) == \E c \in job[n].env.gone :
  /\ job[n].stage = "deciding" /\ job[n].env.items = {}
  /\ Remove(n, c)
  /\ job' = [job EXCEPT ![n] = [@ EXCEPT !.stage = "clearing", !.cat = c]]
  /\ UNCHANGED <<clock, sync, wire, faults, offered>>

\* clear_dirty, a transaction of its own; then the next entry.
ClearApplied(n) ==
  LET env == job[n].env  c == job[n].cat IN
  /\ job[n].stage = "clearing"
  /\ dirty' = [dirty EXCEPT ![n][c] = "clean"]
  /\ job' = [job EXCEPT ![n] =
       [@ EXCEPT !.stage = "deciding", !.item = Absent, !.cat = Absent,
                 !.env = IF job[n].item # Absent
                         THEN [env EXCEPT !.items = env.items \ {job[n].item}]
                         ELSE [env EXCEPT !.gone = env.gone \ {c}]]]
  /\ UNCHANGED <<row, alias, clock, sync, wire, faults, offered>>

\* An entry or a deletion fails: the error is recorded, the loop goes on.
EntryFails(n) ==
  /\ faults < MaxFaults
  /\ \/ /\ job[n].stage = "upserting"
        /\ job' = [job EXCEPT ![n] = [@ EXCEPT !.stage = "deciding", !.failed = TRUE, !.item = Absent,
                                               !.env.items = job[n].env.items \ {job[n].item}]]
     \/ /\ job[n].stage = "deciding" /\ job[n].env.items = {}
        /\ \E c \in job[n].env.gone :
             job' = [job EXCEPT ![n] = [@ EXCEPT !.failed = TRUE, !.env.gone = job[n].env.gone \ {c}]]
  /\ faults' = faults + 1
  /\ UNCHANGED <<row, dirty, alias, clock, sync, wire, offered>>

\* The hub answers if the client still waits; a pull ends.
EndJob(n, ok) ==
  /\ job' = [job EXCEPT ![n] = FreeJob]
  /\ IF n = Hub
     THEN /\ wire' = wire \cup
               (IF job[n].open THEN {[kind |-> "imported", client |-> job[n].client, env |-> Empty,
                                      ok |-> ok, open |-> TRUE]}
                               ELSE {})
          /\ UNCHANGED sync
     ELSE sync' = [sync EXCEPT ![n] = Idle] /\ UNCHANGED wire
  /\ UNCHANGED <<row, dirty, alias, clock, offered>>

FinishJob(n) ==
  /\ job[n].stage = "deciding" /\ job[n].env = Empty
  /\ EndJob(n, ~job[n].failed)
  /\ UNCHANGED faults

\* clear_dirty fails: apply_sync_envelope returns the error at once.
ClearFails(n) ==
  /\ job[n].stage = "clearing" /\ faults < MaxFaults
  /\ EndJob(n, FALSE)
  /\ faults' = faults + 1

-----------------------------------------------------------------------------
(* The device after a push. *)

\* Mutant: the queue is cleared whatever the remote answered.
PushDoneIgnoringErrors(m) ==
  LET n == m.client IN
  /\ m \in wire /\ m.kind = "imported" /\ sync[n].pc = "pushing"
  /\ dirty' = [dirty EXCEPT ![n] = [c \in Category |-> IF c \in sync[n].names THEN "clean" ELSE @[c]]]
  /\ sync'  = [sync EXCEPT ![n] = Idle]
  /\ wire'  = wire \ {m}
  /\ UNCHANGED <<row, alias, clock, job, faults, offered>>

\* Only an answer without errors clears the names that were dirty before the await.
PushDone(m) ==
  LET n == m.client IN
  /\ m \in wire /\ m.kind = "imported" /\ sync[n].pc = "pushing"
  /\ dirty' = [dirty EXCEPT ![n] = [c \in Category |->
                 IF m.ok /\ c \in sync[n].names THEN "clean" ELSE @[c]]]
  /\ sync'  = [sync EXCEPT ![n] = Idle]
  /\ wire'  = wire \ {m}
  /\ UNCHANGED <<row, alias, clock, job, faults, offered>>

-----------------------------------------------------------------------------
(* Faults. *)

\* Nobody waits for an answer to the device's request any more.
Orphaned(n) ==
  {IF m.client = n THEN [m EXCEPT !.open = FALSE] ELSE m :
     m \in {k \in wire : k.client # n \/ k.kind \in {"import", "export"}}}

OrphanedJobs(n) == [m \in Node |->
  IF m = n THEN FreeJob
  ELSE IF job[m].client = n THEN [job[m] EXCEPT !.open = FALSE] ELSE job[m]]

\* The request times out or the connection breaks: the call fails, but what was
\* sent may still be applied.
Timeout(n) ==
  /\ sync[n].pc \in {"pushing", "pulling"} /\ job[n].stage = "free" /\ faults < MaxFaults
  /\ sync' = [sync EXCEPT ![n] = Idle]
  /\ wire' = Orphaned(n)
  /\ job'  = OrphanedJobs(n)
  /\ faults' = faults + 1
  /\ UNCHANGED <<row, dirty, alias, clock, offered>>

LoseRequest(m) ==
  /\ m \in wire /\ m.kind = "import" /\ ~m.open
  /\ wire' = wire \ {m}
  /\ UNCHANGED <<row, dirty, alias, clock, sync, job, faults, offered>>

\* The process dies: its rows, queue and aliases stay, what it was doing is gone.
CrashClient(n) ==
  /\ faults < MaxFaults /\ sync[n] # Idle
  /\ sync' = [sync EXCEPT ![n] = Idle]
  /\ wire' = Orphaned(n)
  /\ job'  = OrphanedJobs(n)
  /\ faults' = faults + 1
  /\ UNCHANGED <<row, dirty, alias, clock, offered>>

\* The client sees a broken connection: an answer that is not a success.
CrashHub ==
  /\ faults < MaxFaults /\ job[Hub].stage # "free"
  /\ EndJob(Hub, FALSE)
  /\ faults' = faults + 1

-----------------------------------------------------------------------------

Apply(n) ==
  Decide(n) \/ Upsert(n) \/ ApplyDeletion(n) \/ ClearApplied(n) \/ FinishJob(n)

Serve(n) == \E m \in wire : m.client = n /\ (HubExports(m) \/ HubImports(m))

Receive(n) == \E m \in wire : m.client = n /\ (PullArrives(m) \/ PushDone(m))

Next ==
  \/ \E n \in Node :
       \/ \E c \in Category : Write(n, c) \/ Delete(n, c)
       \/ Apply(n) \/ EntryFails(n) \/ ClearFails(n)
  \/ \E n \in Client :
       \/ PushExport(n) \/ PushSend(n) \/ PullSend(n) \/ Serve(n) \/ Receive(n)
       \/ Timeout(n) \/ CrashClient(n)
  \/ \E m \in wire : LoseRequest(m)
  \/ CrashHub

Spec == Init /\ [][Next]_vars

\* Every device keeps calling memory_sync in both directions, and a call or a
\* handler that can go on does; the hub's mutex starves no device.  Nothing is
\* synced by itself.
SyncingSpec ==
  /\ Spec
  /\ \A n \in Node : WF_vars(Apply(n))
  /\ \A n \in Client :
       /\ WF_vars(PushSend(n)) /\ WF_vars(Receive(n))
       /\ SF_vars(Serve(n)) /\ SF_vars(PushExport(n)) /\ SF_vars(PullSend(n))
-----------------------------------------------------------------------------
(* Properties. *)

\* A device's own version leaves its dirty queue only once the hub has ruled on it.
DirtyUntilOffered == \A n \in Client, c \in Category :
  LET v == row[n][c] IN
  v # Absent /\ v.by = n /\ dirty[n][c] = "clean" => v \in offered[c]

Everywhere(c) ==
  ({row[n][c] : n \in Node} \ {Absent})
    \cup {e.version : e \in {i \in UNION {m.env.items : m \in wire} : i.cat = c}}

\* Whoever holds it, a version stamped by a device is what that device wrote then.
StampsIdentifyVersions == \A c \in Category : \A v, w \in Everywhere(c) :
  v.by = w.by /\ v.at = w.at => v = w

\* Sync never replaces a version with an older one (last_write_wins).
NewerIsNotReplaced == [][
  clock' = clock => \A n \in Node, c \in Category :
    row[n][c] # Absent /\ row'[n][c] # Absent => row'[n][c].at >= row[n][c].at ]_vars

\* Applying an entry without an error leaves a version that is not older than it.
ImportCatchesUp == [][
  \A n \in Node : job'[n].stage # "free" /\ ~job'[n].failed =>
    \A e \in job[n].env.items \ job'[n].env.items :
      LET v == row'[n][e.cat] IN
      v # Absent /\ (v.at >= e.version.at \/ v.body = e.version.body) ]_vars

\* What a node holds from an import is not imported a second time.
NothingIsImportedTwice == [][
  \A n \in Node : job[n].stage = "upserting" /\ job'[n].stage = "clearing" =>
    LET e == job[n].item  known == alias[n][e.cat] IN
    ~(row[n][e.cat] = e.version /\ known # Absent
        /\ known.remote = e.hash /\ known.by = e.version.by) ]_vars

\* Once nobody writes any more, every device ends up with what the hub has.
ReplicasConverge == <>[](\A n \in Client, c \in Category :
  /\ row[n][c] = Absent <=> row[Hub][c] = Absent
  /\ row[n][c] # Absent => row[n][c].body = row[Hub][c].body)
=============================================================================
