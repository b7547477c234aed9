------------------------- MODULE SyncExchangeProofs -------------------------
(***************************************************************************)
(* Theorems about fleet sync, for any number of devices and categories,    *)
(* any values, clocks and faults: what identifies a version, what an       *)
(* import may replace and must reach, and what a push leaves in the queue. *)
(*                                                                         *)
(* Every argument rests on BasicInv, which holds whatever the strategy and *)
(* whoever else writes the stores.  DecidedInv adds what the store mutex   *)
(* gives when nobody else does; OfferInv adds which request a device waits *)
(* for and which entries of its envelope the hub has ruled on.             *)
(***************************************************************************)
EXTENDS SyncExchange, TLAPS

\* An entry that is somewhere under way, and the versions that somebody holds.
UnderWay(i) ==
  \/ \E m \in wire : i \in m.env.items
  \/ \E n \in Node : i \in job[n].env.items
  \/ \E n \in Client : i \in sync[n].env.items

Held(v) ==
  \/ v # Absent /\ \E n \in Node, c \in Category : row[n][c] = v
  \/ \E i \in Item : UnderWay(i) /\ i.version = v

\* A clock is never behind what it has stamped, and a stamp is given once.
StampInv ==
  /\ \A v \in Version : Held(v) => v.at <= clock[v.by]
  /\ \A v, w \in Version : Held(v) /\ Held(w) /\ v.by = w.by /\ v.at = w.at => v = w

\* A hash belongs to the body it travels with, and an alias to the bytes its node stored.
HashInv ==
  /\ \A i \in Item : UnderWay(i) => i.version # Absent /\ i.hash[1] = i.version.body
  /\ \A n \in Node, c \in Category :
       alias[n][c] # Absent => alias[n][c].physical = HashOn(n, alias[n][c].remote[1])

\* What a job is working on, stage by stage.
JobInv == \A n \in Node :
  /\ job[n].stage = "free" => job[n].env = Empty
  /\ job[n].stage # "free" => job[n].client \in Client
  /\ job[n].stage = "deciding" => job[n].item = Absent
  /\ job[n].stage = "upserting" => job[n].item \in job[n].env.items
  /\ job[n].stage = "clearing" /\ job[n].item # Absent =>
       job[n].item \in job[n].env.items /\ job[n].cat = job[n].item.cat

BasicInv == TypeOK /\ StampInv /\ HashInv /\ JobInv

\* What was decided for an entry is still true at the upsert, and the upsert at the clearing.
DecidedInv == \A n \in Node :
  LET e == job[n].item IN
  /\ job[n].stage = "upserting" =>
       row[n][e.cat] = Absent \/ (~Holds(n, e) /\ RemoteWins(n, e))
  /\ job[n].stage = "clearing" /\ e # Absent => row[n][e.cat] = e.version

\* The hub is at work for a device that still waits for the answer.
Awaited(n) == job[Hub].stage # "free" /\ job[Hub].client = n /\ job[Hub].open

\* What a device is doing that waits for the answer to a message of that kind.
Waiting(kind) == IF kind \in {"import", "imported"} THEN "pushing" ELSE "pulling"

\* A device waits for one answer at a time, and there is one request or answer that it waits for.
RequestInv ==
  /\ \A m \in wire : m.kind \in {"imported", "exported"} => m.open
  /\ \A m \in wire : m.open =>
       /\ sync[m.client].pc = Waiting(m.kind)
       /\ ~Awaited(m.client) /\ job[m.client].stage = "free"
       /\ \A k \in wire : k.client = m.client /\ k.open => k = m
  /\ \A n \in Client : Awaited(n) => sync[n].pc = "pushing"
  /\ \A n \in Client : job[n].stage # "free" => sync[n].pc = "pulling"

\* What the hub holds, or sends, it has ruled on.
HubOffers ==
  /\ \A c \in Category : row[Hub][c] \in offered[c] \cup {Absent}
  /\ \A m \in wire : m.kind = "exported" => \A i \in m.env.items : i.version \in offered[i.cat]
  /\ \A n \in Client : \A i \in job[n].env.items : i.version \in offered[i.cat]

\* A device's version is offered, is queued or, while it is pushed, is in the envelope.
QueueInv == \A n \in Client, c \in Category :
  LET v == row[n][c] IN
  /\ v # Absent /\ v.by = n /\ dirty[n][c] # "upsert" => v \in offered[c]
  /\ v # Absent /\ dirty[n][c] = "upsert" /\ sync[n].pc \in {"exported", "pushing"} =>
       \E i \in sync[n].env.items : i.cat = c /\ i.version = v
  /\ job[n].stage = "clearing" /\ job[n].cat = c => v \in offered[c] \cup {Absent}

\* An answer without errors says that every entry of the envelope has been ruled on.
AnswerInv ==
  /\ \A m \in wire : m.kind = "import" /\ m.open => m.env = sync[m.client].env
  /\ \A m \in wire : m.kind = "imported" /\ m.ok =>
       \A i \in sync[m.client].env.items : i.version \in offered[i.cat]
  /\ \A n \in Client : Awaited(n) /\ ~job[Hub].failed =>
       \A i \in sync[n].env.items \ job[Hub].env.items : i.version \in offered[i.cat]
  /\ job[Hub].stage = "clearing" /\ job[Hub].item # Absent =>
       job[Hub].item.version \in offered[job[Hub].item.cat]

OfferInv == RequestInv /\ HubOffers /\ QueueInv /\ AnswerInv

-----------------------------------------------------------------------------
(* The types of the values that the steps build, action by action. *)

LEMMA Constants ==
  /\ Empty \in Envelope /\ Idle \in Sync /\ FreeJob \in Job
  /\ Hub \in Node /\ Hub \notin Client /\ \A n \in Client : n \in Node
BY SyncAssumption DEF Empty, Envelope, Idle, Sync, FreeJob, Job, Node

LEMMA Empties ==
  /\ Empty.items = {} /\ Idle.env = Empty /\ Idle.pc = "idle" /\ FreeJob.env = Empty /\ FreeJob.stage = "free"
  /\ FreeJob.item = Absent /\ FreeJob.client = Absent /\ FreeJob.open = FALSE
BY DEF Empty, Idle, FreeJob

LEMMA ExportedItems ==
  ASSUME row \in [Node -> [Category -> Version \cup {Absent}]], NEW n \in Node, NEW cs \in SUBSET Category
  PROVE  ItemsOf(n, cs) \subseteq Item
BY DEF ItemsOf, Item, Version, HashOn, Hash

LEMMA TypeWrite ==
  ASSUME TypeOK, NEW n \in Node, NEW c \in Category, Write(n, c) \/ Delete(n, c)
  PROVE  TypeOK'
<1>1. CASE Write(n, c)
  <2>1. PICK t \in 1 .. MaxTime, b \in Body :
          /\ row'   = [row   EXCEPT ![n][c] = [body |-> b, at |-> t, by |-> n]]
          /\ dirty' = [dirty EXCEPT ![n][c] = "upsert"]
          /\ clock' = [clock EXCEPT ![n] = t]
          /\ offered' = IF n = Hub THEN [offered EXCEPT ![c] = @ \cup {row'[n][c]}] ELSE offered
    BY <1>1, SyncAssumption DEF Write
  <2>2. [body |-> b, at |-> t, by |-> n] \in Version
    BY DEF Version
  <2>3. row' \in [Node -> [Category -> Version \cup {Absent}]] /\ row'[n][c] \in Version
    BY <2>1, <2>2 DEF TypeOK
  <2>4. UNCHANGED <<alias, sync, job, wire, faults>>
    BY <1>1 DEF Write
  <2>5. clock' \in [Node -> 0 .. MaxTime]
    BY <2>1, SyncAssumption DEF TypeOK
  <2>6. QED
    BY <2>1, <2>3, <2>4, <2>5 DEF TypeOK, Mark
<1>2. CASE Delete(n, c)
  BY <1>2, SyncAssumption DEF Delete, Remove, TypeOK, Mark
<1>3. QED
  BY <1>1, <1>2

LEMMA TypePush ==
  ASSUME TypeOK, NEW n \in Client, PushExport(n) \/ PushSend(n) \/ PullSend(n)
  PROVE  TypeOK'
<1>1. CASE PushExport(n)
  <2>1. DirtyEnvelope(n) \in Envelope
    <3>1. \A cs \in SUBSET Category : ItemsOf(n, cs) \subseteq Item
      BY Constants, ExportedItems DEF TypeOK
    <3>2. QED
      BY <3>1 DEF DirtyEnvelope, Envelope
  <2>2. QED
    BY <1>1, <2>1 DEF PushExport, TypeOK, Sync
<1>2. CASE PushSend(n)
  <2>1. [kind |-> "import", client |-> n, env |-> sync[n].env, ok |-> TRUE, open |-> TRUE] \in Message
    BY DEF TypeOK, Sync, Message
  <2>2. sync' \in [Client -> Sync]
    <3>1. [sync[n] EXCEPT !.pc = "pushing", !.names = {c \in Category : dirty[n][c] # "clean"}] \in Sync
      <4>1. sync[n] \in Sync
        BY DEF TypeOK
      <4>2. QED
        BY <4>1 DEF Sync
    <3>2. QED
      <4>1. sync' = [sync EXCEPT ![n] = [sync[n] EXCEPT !.pc = "pushing",
                                                        !.names = {c \in Category : dirty[n][c] # "clean"}]]
        BY <1>2 DEF PushSend
      <4>2. QED
        BY <3>1, <4>1 DEF TypeOK
  <2>3. QED
    BY <1>2, <2>1, <2>2 DEF PushSend, TypeOK
<1>3. CASE PullSend(n)
  <2>1. [kind |-> "export", client |-> n, env |-> Empty, ok |-> TRUE, open |-> TRUE] \in Message
    BY Constants DEF Message
  <2>2. sync' \in [Client -> Sync]
    <3>1. [sync[n] EXCEPT !.pc = "pulling"] \in Sync
      <4>1. sync[n] \in Sync
        BY DEF TypeOK
      <4>2. QED
        BY <4>1 DEF Sync
    <3>2. QED
      <4>1. sync' = [sync EXCEPT ![n] = [sync[n] EXCEPT !.pc = "pulling"]]
        BY <1>3 DEF PullSend
      <4>2. QED
        BY <3>1, <4>1 DEF TypeOK
  <2>3. QED
    BY <1>3, <2>1, <2>2 DEF PullSend, TypeOK
<1>4. QED
  BY <1>1, <1>2, <1>3

LEMMA TypeMessages ==
  ASSUME TypeOK, NEW m \in wire, HubExports(m) \/ HubImports(m) \/ PullArrives(m) \/ PushDone(m) \/ LoseRequest(m)
  PROVE  TypeOK'
<1> m \in Message
  BY DEF TypeOK
<1>1. CASE HubExports(m)
  <2>1. ItemsOf(Hub, Category) \subseteq Item
    BY Constants, ExportedItems DEF TypeOK
  <2>2. [Empty EXCEPT !.items = ItemsOf(Hub, Category)] \in Envelope
    BY <2>1 DEF Empty, Envelope
  <2>3. [m EXCEPT !.kind = "exported", !.env = [Empty EXCEPT !.items = ItemsOf(Hub, Category)]] \in Message
    BY <2>2 DEF Message
  <2>4. QED
    BY <1>1, <2>3 DEF HubExports, TypeOK
<1>2. CASE HubImports(m) \/ PullArrives(m)
  <2>1. PICK n \in Node : StartJob(n, m)
    BY <1>2, Constants DEF HubImports, PullArrives, Message
  <2>2. [FreeJob EXCEPT !.stage = "deciding", !.env = m.env, !.client = m.client, !.open = m.open] \in Job
    BY DEF FreeJob, Job, Message
  <2>3. QED
    BY <2>1, <2>2 DEF StartJob, TypeOK
<1>3. CASE PushDone(m)
  BY <1>3, Constants DEF PushDone, TypeOK, Message, Mark
<1>4. CASE LoseRequest(m)
  BY <1>4 DEF LoseRequest, TypeOK
<1>5. QED
  BY <1>1, <1>2, <1>3, <1>4

LEMMA TypeEndJob ==
  ASSUME TypeOK, JobInv, NEW n \in Node, NEW ok \in BOOLEAN,
         EndJob(n, ok), faults' \in 0 .. MaxFaults, job[n].stage # "free"
  PROVE  TypeOK'
<1>1. job' \in [Node -> Job]
  BY Constants DEF EndJob, TypeOK
<1>2. CASE n = Hub
  <2>1. job[n].client \in Client
    BY DEF JobInv
  <2>2. [kind |-> "imported", client |-> job[n].client, env |-> Empty, ok |-> ok, open |-> TRUE] \in Message
    BY <2>1, Constants DEF Message
  <2>3. QED
    BY <1>1, <1>2, <2>2 DEF EndJob, TypeOK
<1>3. CASE n # Hub
  BY <1>1, <1>3, Constants DEF EndJob, TypeOK, Node
<1>4. QED
  BY <1>2, <1>3

LEMMA TypeApply ==
  ASSUME TypeOK, JobInv, NEW n \in Node, Apply(n) \/ EntryFails(n) \/ ClearFails(n)
  PROVE  TypeOK'
<1> job[n] \in Job
  BY DEF TypeOK
<1>1. CASE Decide(n)
  <2>1. PICK e \in job[n].env.items :
          \/ job' = [job EXCEPT ![n] = [@ EXCEPT !.stage = "upserting", !.item = e]] /\ UNCHANGED offered
          \/ job' = [job EXCEPT ![n].env.items = @ \ {e}] /\ Offered(n, e)
    BY <1>1 DEF Decide
  <2>2. e \in Item
    BY DEF Job, Envelope
  <2>3. [job[n] EXCEPT !.stage = "upserting", !.item = e] \in Job /\ [job[n] EXCEPT !.env.items = @ \ {e}] \in Job
    BY <2>2 DEF Job, Envelope
  <2>4. job' \in [Node -> Job]
    BY <2>1, <2>3 DEF TypeOK
  <2> UNCHANGED <<row, dirty, alias, clock, sync, wire, faults>>
    BY <1>1 DEF Decide
  <2>5. offered' \in [Category -> SUBSET Version]
    <3>1. e.version \in Version
      BY <2>2 DEF Item
    <3>2. offered' = offered \/ offered' = [offered EXCEPT ![e.cat] = @ \cup {e.version}]
      BY <2>1 DEF Offered
    <3>3. QED
      BY <3>1, <3>2 DEF TypeOK
  <2>6. QED
    BY <2>1, <2>4, <2>5 DEF TypeOK
<1>2. CASE Upsert(n)
  <2>1. job[n].item \in Item /\ job[n].stage = "upserting"
    BY <1>2 DEF Upsert, JobInv, Job, Envelope
  <2>2. [job[n] EXCEPT !.stage = "clearing", !.cat = job[n].item.cat] \in Job
    BY <2>1 DEF Job, Item
  <2>3. [remote |-> job[n].item.hash, by |-> job[n].item.version.by,
         physical |-> HashOn(n, job[n].item.version.body)] \in Alias
    BY <2>1 DEF Alias, Item, Version, HashOn, Hash
  <2>4. offered' \in [Category -> SUBSET Version]
    BY <1>2, <2>1 DEF Upsert, Offered, TypeOK, Item
  <2>5. QED
    BY <1>2, <2>1, <2>2, <2>3, <2>4 DEF Upsert, TypeOK, Item
<1>3. CASE ApplyDeletion(n)
  <2>1. PICK c \in job[n].env.gone :
          Remove(n, c) /\ job' = [job EXCEPT ![n] = [@ EXCEPT !.stage = "clearing", !.cat = c]]
    BY <1>3 DEF ApplyDeletion
  <2> UNCHANGED <<clock, sync, wire, faults, offered>>
    BY <1>3 DEF ApplyDeletion
  <2>2. c \in Category
    BY DEF Job, Envelope
  <2>3. [job[n] EXCEPT !.stage = "clearing", !.cat = c] \in Job
    BY <2>2 DEF Job
  <2>4. QED
    BY <2>1, <2>3 DEF Remove, TypeOK, Mark
<1>4. CASE ClearApplied(n)
  <2>1. job'[n] \in Job /\ job' = [job EXCEPT ![n] = job'[n]]
    BY <1>4 DEF ClearApplied, TypeOK, Job, Envelope
  <2>2. dirty' \in [Node -> [Category -> Mark]]
    BY <1>4 DEF ClearApplied, TypeOK, Mark
  <2>3. QED
    BY <1>4, <2>1, <2>2 DEF ClearApplied, TypeOK
<1>5. CASE EntryFails(n)
  <2>0. /\ faults < MaxFaults /\ faults' = faults + 1
        /\ UNCHANGED <<row, dirty, alias, clock, sync, wire, offered>>
    BY <1>5 DEF EntryFails
  <2>1. CASE job' = [job EXCEPT ![n] = [@ EXCEPT !.stage = "deciding", !.failed = TRUE, !.item = Absent,
                                                 !.env.items = job[n].env.items \ {job[n].item}]]
    <3>1. [job[n] EXCEPT !.stage = "deciding", !.failed = TRUE, !.item = Absent,
                         !.env.items = job[n].env.items \ {job[n].item}] \in Job
      BY DEF Job, Envelope
    <3>2. job' \in [Node -> Job]
      BY <2>1, <3>1 DEF TypeOK
    <3>3. QED
      BY <2>0, <3>2, SyncAssumption DEF TypeOK
  <2>2. ASSUME NEW c \in Category,
               job' = [job EXCEPT ![n] = [@ EXCEPT !.failed = TRUE, !.env.gone = job[n].env.gone \ {c}]]
        PROVE  TypeOK'
    <3>1. [job[n] EXCEPT !.failed = TRUE, !.env.gone = job[n].env.gone \ {c}] \in Job
      BY DEF Job, Envelope
    <3>2. job' \in [Node -> Job]
      BY <2>2, <3>1 DEF TypeOK
    <3>3. QED
      BY <2>0, <3>2, SyncAssumption DEF TypeOK
  <2>3. job[n].env.gone \subseteq Category
    BY DEF Job, Envelope
  <2>4. QED
    BY <1>5, <2>1, <2>2, <2>3 DEF EntryFails
<1>6. CASE FinishJob(n)
  <2>1. job[n].failed \in BOOLEAN
    BY DEF Job
  <2>2. QED
    BY <1>6, <2>1, TypeEndJob DEF FinishJob, TypeOK
<1>7. CASE ClearFails(n)
  <2>1. faults' \in 0 .. MaxFaults
    BY <1>7, SyncAssumption DEF ClearFails, TypeOK
  <2>2. QED
    BY <1>7, <2>1, TypeEndJob DEF ClearFails
<1>8. QED
  BY <1>1, <1>2, <1>3, <1>4, <1>5, <1>6, <1>7 DEF Apply

LEMMA TypeFaults ==
  ASSUME TypeOK, JobInv,
         \/ \E n \in Client : Timeout(n) \/ CrashClient(n)
         \/ CrashHub
  PROVE  TypeOK'
<1>1. ASSUME NEW n \in Client, Timeout(n) \/ CrashClient(n)
      PROVE  TypeOK'
  <2>1. Orphaned(n) \subseteq Message
    <3>1. \A m \in wire : m \in Message /\ [m EXCEPT !.open = FALSE] \in Message
      BY DEF TypeOK, Message
    <3>2. QED
      BY <3>1 DEF Orphaned
  <2>2. OrphanedJobs(n) \in [Node -> Job]
    BY Constants DEF OrphanedJobs, TypeOK, Job
  <2>3. faults' \in 0 .. MaxFaults
    BY <1>1, SyncAssumption DEF Timeout, CrashClient, TypeOK
  <2>4. QED
    BY <1>1, <2>1, <2>2, <2>3, Constants DEF Timeout, CrashClient, TypeOK
<1>2. CASE CrashHub
  <2>1. faults' \in 0 .. MaxFaults
    BY <1>2, SyncAssumption DEF CrashHub, TypeOK
  <2>2. QED
    BY <1>2, <2>1, Constants, TypeEndJob DEF CrashHub
<1>3. QED
  BY <1>1, <1>2

-----------------------------------------------------------------------------
(* What each step does to the jobs. *)

\* Of an entry, or of a deletion, a job changes its stage and nothing but what it handles.
SameRequest(n) ==
  job'[n].client = job[n].client /\ job'[n].open = job[n].open /\ job'[n].failed = job[n].failed

LEMMA JobOfDecide ==
  ASSUME TypeOK, JobInv, NEW n \in Node, Decide(n)
  PROVE  /\ job' = [job EXCEPT ![n] = job'[n]] /\ job[n].stage = "deciding" /\ job[n].item = Absent
         /\ SameRequest(n)
         /\ UNCHANGED <<row, dirty, alias, clock, sync, wire>>
         /\ \E e \in job[n].env.items :
              \/ /\ job'[n].stage = "upserting" /\ job'[n].item = e /\ job'[n].env = job[n].env
                 /\ row[n][e.cat] = Absent \/ (~Holds(n, e) /\ RemoteWins(n, e))
                 /\ offered' = offered
              \/ /\ job'[n].stage = "deciding" /\ job'[n].item = Absent
                 /\ job'[n].env.items = job[n].env.items \ {e}
                 /\ row[n][e.cat] # Absent /\ (Holds(n, e) \/ ~RemoteWins(n, e))
                 /\ Offered(n, e)
<1>1. job[n] \in Job /\ job[n].stage = "deciding" /\ job[n].item = Absent
  BY DEF TypeOK, Decide, JobInv
<1>2. PICK e \in job[n].env.items :
        IF row[n][e.cat] = Absent \/ (~Holds(n, e) /\ RemoteWins(n, e))
        THEN /\ job' = [job EXCEPT ![n] = [@ EXCEPT !.stage = "upserting", !.item = e]]
             /\ UNCHANGED offered
        ELSE /\ job' = [job EXCEPT ![n].env.items = @ \ {e}]
             /\ Offered(n, e)
  BY DEF Decide
<1>3. CASE row[n][e.cat] = Absent \/ (~Holds(n, e) /\ RemoteWins(n, e))
  <2>1. job' = [job EXCEPT ![n] = job'[n]] /\ job'[n] = [job[n] EXCEPT !.stage = "upserting", !.item = e]
    BY <1>2, <1>3 DEF TypeOK
  <2>2. SameRequest(n) /\ job'[n].stage = "upserting" /\ job'[n].item = e /\ job'[n].env = job[n].env
    BY <1>1, <2>1 DEF Job, SameRequest
  <2>3. QED
    BY <1>1, <1>2, <1>3, <2>1, <2>2 DEF Decide
<1>4. CASE ~(row[n][e.cat] = Absent \/ (~Holds(n, e) /\ RemoteWins(n, e)))
  <2>1. job' = [job EXCEPT ![n] = job'[n]]
        /\ job'[n] = [job[n] EXCEPT !.env = [job[n].env EXCEPT !.items = job[n].env.items \ {e}]]
    BY <1>2, <1>4 DEF TypeOK
  <2>2. SameRequest(n) /\ job'[n].stage = "deciding" /\ job'[n].item = Absent
        /\ job'[n].env.items = job[n].env.items \ {e}
    BY <1>1, <2>1 DEF Job, Envelope, SameRequest
  <2>3. QED
    BY <1>1, <1>2, <1>4, <2>1, <2>2 DEF Decide
<1>5. QED
  BY <1>3, <1>4

LEMMA JobOfUpsert ==
  ASSUME TypeOK, JobInv, NEW n \in Node, Upsert(n)
  PROVE  /\ job' = [job EXCEPT ![n] = job'[n]]
         /\ job'[n].stage = "clearing" /\ job'[n].item = job[n].item /\ job'[n].env = job[n].env
         /\ job'[n].cat = job[n].item.cat
         /\ SameRequest(n)
         /\ job[n].stage = "upserting" /\ job[n].item \in job[n].env.items /\ job[n].item \in Item
         /\ UNCHANGED <<dirty, clock, sync, wire>>
<1>1. job[n].stage = "upserting" /\ job[n].item \in job[n].env.items /\ job[n].env.items \subseteq Item
  BY DEF Upsert, JobInv, TypeOK, Job, Envelope
<1>2. job' = [job EXCEPT ![n] = job'[n]] /\ job'[n] = [job[n] EXCEPT !.stage = "clearing", !.cat = job[n].item.cat]
  BY DEF Upsert, TypeOK
<1>3. job[n] \in Job
  BY DEF TypeOK
<1>4. /\ job'[n].stage = "clearing" /\ job'[n].item = job[n].item /\ job'[n].env = job[n].env
      /\ job'[n].cat = job[n].item.cat
      /\ SameRequest(n)
  BY <1>2, <1>3 DEF Job, SameRequest
<1>5. QED
  BY <1>1, <1>2, <1>4 DEF Upsert

LEMMA JobOfDeletion ==
  ASSUME TypeOK, JobInv, NEW n \in Node, ApplyDeletion(n)
  PROVE  /\ job' = [job EXCEPT ![n] = job'[n]]
         /\ \E c \in job[n].env.gone : c \in Category /\ Remove(n, c) /\ job'[n].cat = c
         /\ job'[n].stage = "clearing" /\ job'[n].item = Absent /\ job'[n].env = job[n].env
         /\ SameRequest(n)
         /\ job[n].stage = "deciding" /\ job[n].item = Absent /\ job[n].env.items = {}
         /\ UNCHANGED <<clock, sync, wire, offered>>
<1>1. job[n] \in Job /\ job[n].stage = "deciding" /\ job[n].item = Absent /\ job[n].env.gone \subseteq Category
  BY DEF TypeOK, ApplyDeletion, JobInv, Job, Envelope
<1>2. PICK c \in job[n].env.gone : Remove(n, c) /\ job' = [job EXCEPT ![n] = [@ EXCEPT !.stage = "clearing", !.cat = c]]
  BY DEF ApplyDeletion
<1>3. job' = [job EXCEPT ![n] = job'[n]] /\ job'[n] = [job[n] EXCEPT !.stage = "clearing", !.cat = c]
  BY <1>2 DEF TypeOK
<1>4. /\ job'[n].stage = "clearing" /\ job'[n].item = Absent /\ job'[n].env = job[n].env /\ job'[n].cat = c
      /\ SameRequest(n)
  BY <1>1, <1>3 DEF Job, SameRequest
<1>5. QED
  BY <1>1, <1>2, <1>3, <1>4 DEF ApplyDeletion

LEMMA JobOfClear ==
  ASSUME TypeOK, JobInv, NEW n \in Node, ClearApplied(n)
  PROVE  /\ job' = [job EXCEPT ![n] = job'[n]]
         /\ job'[n].stage = "deciding" /\ job'[n].item = Absent
         /\ job'[n].failed = job[n].failed /\ job'[n].client = job[n].client /\ job'[n].open = job[n].open
         /\ IF job[n].item # Absent
            THEN /\ job'[n].env.items = job[n].env.items \ {job[n].item} /\ job'[n].env.gone = job[n].env.gone
                 /\ job[n].cat = job[n].item.cat /\ job[n].item \in job[n].env.items
            ELSE job'[n].env.items = job[n].env.items
         /\ job[n].stage = "clearing"
         /\ dirty' = [dirty EXCEPT ![n][job[n].cat] = "clean"]
         /\ UNCHANGED <<row, alias, clock, sync, wire, offered>>
<1>1. job[n] \in Job
  BY DEF TypeOK
<1>2. /\ job' = [job EXCEPT ![n] = job'[n]]
      /\ job'[n] = [job[n] EXCEPT !.stage = "deciding", !.item = Absent, !.cat = Absent,
                 !.env = IF job[n].item # Absent
                         THEN [job[n].env EXCEPT !.items = job[n].env.items \ {job[n].item}]
                         ELSE [job[n].env EXCEPT !.gone = job[n].env.gone \ {job[n].cat}]]
  BY DEF ClearApplied, TypeOK
<1>3. /\ job'[n].stage = "deciding" /\ job'[n].item = Absent
      /\ job'[n].failed = job[n].failed /\ job'[n].client = job[n].client /\ job'[n].open = job[n].open
  BY <1>1, <1>2 DEF Job
<1>4. job'[n].env = IF job[n].item # Absent
                    THEN [job[n].env EXCEPT !.items = job[n].env.items \ {job[n].item}]
                    ELSE [job[n].env EXCEPT !.gone = job[n].env.gone \ {job[n].cat}]
  BY <1>1, <1>2 DEF Job
<1>5. job[n].env \in Envelope
  BY <1>1 DEF Job
<1>6. IF job[n].item # Absent
      THEN job'[n].env.items = job[n].env.items \ {job[n].item} /\ job'[n].env.gone = job[n].env.gone
      ELSE job'[n].env.items = job[n].env.items
  BY <1>4, <1>5 DEF Envelope
<1>7. QED
  BY <1>2, <1>3, <1>6 DEF ClearApplied, JobInv

LEMMA JobOfFailure ==
  ASSUME TypeOK, JobInv, NEW n \in Node, EntryFails(n)
  PROVE  /\ job' = [job EXCEPT ![n] = job'[n]]
         /\ job'[n].stage = "deciding" /\ job'[n].item = Absent /\ job'[n].failed
         /\ job'[n].env.items \subseteq job[n].env.items
         /\ job'[n].client = job[n].client /\ job'[n].open = job[n].open
         /\ job[n].stage # "free"
         /\ UNCHANGED <<row, dirty, alias, clock, sync, wire, offered>>
<1> job[n] \in Job
  BY DEF TypeOK
<1>1. CASE /\ job[n].stage = "upserting"
           /\ job' = [job EXCEPT ![n] = [@ EXCEPT !.stage = "deciding", !.failed = TRUE, !.item = Absent,
                                                  !.env.items = job[n].env.items \ {job[n].item}]]
  <2>1. job'[n] = [job[n] EXCEPT !.stage = "deciding", !.failed = TRUE, !.item = Absent,
                                 !.env.items = job[n].env.items \ {job[n].item}]
    BY <1>1 DEF TypeOK
  <2>2. QED
    BY <1>1, <2>1 DEF EntryFails, Job, Envelope, TypeOK
<1>2. ASSUME NEW c \in job[n].env.gone, job[n].stage = "deciding",
             job' = [job EXCEPT ![n] = [@ EXCEPT !.failed = TRUE, !.env.gone = job[n].env.gone \ {c}]]
      PROVE  /\ job'[n].stage = "deciding" /\ job'[n].item = Absent /\ job'[n].failed
             /\ job'[n].env.items \subseteq job[n].env.items
             /\ job'[n].client = job[n].client /\ job'[n].open = job[n].open
             /\ job' = [job EXCEPT ![n] = job'[n]]
  <2>1. job'[n] = [job[n] EXCEPT !.failed = TRUE, !.env.gone = job[n].env.gone \ {c}]
    BY <1>2 DEF TypeOK
  <2>2. QED
    BY <1>2, <2>1 DEF Job, Envelope, TypeOK, JobInv
<1>3. QED
  BY <1>1, <1>2 DEF EntryFails

\* A job that goes on keeps whom it serves, drops entries and takes up none.
LEMMA JobGoesOn ==
  ASSUME TypeOK, JobInv, NEW n \in Node,
         Decide(n) \/ Upsert(n) \/ ApplyDeletion(n) \/ ClearApplied(n) \/ EntryFails(n)
  PROVE  /\ \A k \in Node \ {n} : job'[k] = job[k]
         /\ job[n].stage # "free" /\ job'[n].stage # "free"
         /\ job'[n].env.items \subseteq job[n].env.items
         /\ job'[n].client = job[n].client /\ job'[n].open = job[n].open
         /\ job[n].failed => job'[n].failed
         /\ \/ job'[n].stage = "deciding" /\ job'[n].item = Absent
            \/ job'[n].stage = "upserting" /\ job'[n].item \in job'[n].env.items
            \/ /\ job'[n].stage = "clearing"
               /\ job'[n].item # Absent => job'[n].item \in job'[n].env.items /\ job'[n].cat = job'[n].item.cat
         /\ UNCHANGED <<clock, sync, wire>>
<1> job[n] \in Job
  BY DEF TypeOK
<1>1. CASE Decide(n)
  <2>1. PICK e \in job[n].env.items :
          \/ job'[n].stage = "upserting" /\ job'[n].item = e /\ job'[n].env = job[n].env
          \/ /\ job'[n].stage = "deciding" /\ job'[n].item = Absent
             /\ job'[n].env.items = job[n].env.items \ {e}
    BY <1>1, JobOfDecide
  <2>2. /\ job' = [job EXCEPT ![n] = job'[n]] /\ job[n].stage = "deciding" /\ job[n].item = Absent
        /\ SameRequest(n) /\ UNCHANGED <<clock, sync, wire>>
    BY <1>1, JobOfDecide
  <2>3. \A k \in Node \ {n} : job'[k] = job[k]
    BY <2>2 DEF TypeOK
  <2>4. QED
    BY <2>1, <2>2, <2>3 DEF SameRequest
<1>2. CASE Upsert(n)
  <2>1. \A k \in Node \ {n} : job'[k] = job[k]
    BY <1>2, JobOfUpsert DEF TypeOK
  <2>2. QED
    BY <1>2, <2>1, JobOfUpsert DEF SameRequest
<1>3. CASE ApplyDeletion(n)
  <2>1. \A k \in Node \ {n} : job'[k] = job[k]
    BY <1>3, JobOfDeletion DEF TypeOK
  <2>2. QED
    BY <1>3, <2>1, JobOfDeletion DEF SameRequest
<1>4. CASE ClearApplied(n)
  <2>1. \A k \in Node \ {n} : job'[k] = job[k]
    BY <1>4, JobOfClear DEF TypeOK
  <2>2. job'[n].env.items \subseteq job[n].env.items
    BY <1>4, JobOfClear
  <2>3. QED
    BY <1>4, <2>1, <2>2, JobOfClear
<1>5. CASE EntryFails(n)
  <2>1. \A k \in Node \ {n} : job'[k] = job[k]
    BY <1>5, JobOfFailure DEF TypeOK
  <2>2. QED
    BY <1>5, <2>1, JobOfFailure
<1>6. QED
  BY <1>1, <1>2, <1>3, <1>4, <1>5

LEMMA JobEnds ==
  ASSUME TypeOK, JobInv, NEW n \in Node, FinishJob(n) \/ ClearFails(n) \/ (n = Hub /\ CrashHub)
  PROVE  /\ \E ok \in BOOLEAN : EndJob(n, ok) /\ (ok => ~job[n].failed /\ job[n].env.items = {})
         /\ \A k \in Node : job'[k] = IF k = n THEN FreeJob ELSE job[k]
         /\ job[n].stage # "free"
         /\ \A m \in wire' \ wire : n = Hub /\ m.kind = "imported" /\ m.env = Empty /\ job[n].open /\ m.client = job[n].client
                                      /\ m.open = TRUE
         /\ \A k, m \in wire' \ wire : k = m
         /\ \A m \in wire' \ wire : m.ok => ~job[n].failed /\ job[n].env.items = {}
         /\ wire \subseteq wire' /\ (n # Hub => wire' = wire)
         /\ \A k \in Client : sync'[k] = IF k = n THEN Idle ELSE sync[k]
         /\ UNCHANGED <<row, dirty, alias, clock, offered>>
<1>1. \E ok \in BOOLEAN : EndJob(n, ok) /\ (ok => ~job[n].failed /\ job[n].env.items = {})
  <2>1. FinishJob(n) => EndJob(n, ~job[n].failed) /\ job[n].env.items = {}
    BY Empties DEF FinishJob
  <2>2. (~job[n].failed) \in BOOLEAN
    OBVIOUS
  <2>3. ClearFails(n) => EndJob(n, FALSE)
    BY DEF ClearFails
  <2>4. n = Hub /\ CrashHub => EndJob(n, FALSE)
    BY DEF CrashHub
  <2>5. QED
    BY <2>1, <2>2, <2>3, <2>4
<1>2. job[n].stage # "free"
  BY DEF FinishJob, ClearFails, CrashHub
<1>3. \A k \in Node : job'[k] = IF k = n THEN FreeJob ELSE job[k]
  BY <1>1 DEF EndJob, TypeOK
<1>4. \A k \in Client : sync'[k] = IF k = n THEN Idle ELSE sync[k]
  BY <1>1, Constants DEF EndJob, TypeOK
<1>5. ASSUME NEW ok \in BOOLEAN, EndJob(n, ok), ok => ~job[n].failed /\ job[n].env.items = {}
      PROVE  /\ \A m \in wire' \ wire : n = Hub /\ m.kind = "imported" /\ m.env = Empty /\ job[n].open
                                          /\ m.client = job[n].client /\ m.open = TRUE
             /\ \A k, m \in wire' \ wire : k = m
             /\ \A m \in wire' \ wire : m.ok => ~job[n].failed /\ job[n].env.items = {}
             /\ wire \subseteq wire' /\ (n # Hub => wire' = wire)
             /\ UNCHANGED <<row, dirty, alias, clock, offered>>
  <2>1. CASE n = Hub /\ job[n].open
    <3> DEFINE m == [kind |-> "imported", client |-> job[n].client, env |-> Empty, ok |-> ok, open |-> TRUE]
    <3>1. m.kind = "imported" /\ m.client = job[n].client /\ m.env = Empty /\ m.ok = ok /\ m.open = TRUE
      OBVIOUS
    <3>2. wire' = wire \cup {m} /\ UNCHANGED <<row, dirty, alias, clock, offered>>
      BY <1>5, <2>1 DEF EndJob
    <3> HIDE DEF m
    <3>3. QED
      BY <1>5, <2>1, <3>1, <3>2
  <2>2. CASE n # Hub \/ ~job[n].open
    BY <1>5, <2>2 DEF EndJob
  <2>3. QED
    BY <2>1, <2>2
<1>6. QED
  BY <1>1, <1>2, <1>3, <1>4, <1>5

LEMMA ClientGoesOn ==
  ASSUME TypeOK, NEW n \in Client
  PROVE  /\ PushExport(n) =>
              /\ sync'[n].pc = "exported" /\ sync'[n].env = DirtyEnvelope(n)
              /\ \A k \in Client \ {n} : sync'[k] = sync[k]
         /\ PushSend(n) =>
              /\ sync'[n].pc = "pushing" /\ sync'[n].env = sync[n].env
              /\ sync'[n].names = {c \in Category : dirty[n][c] # "clean"}
              /\ \A k \in Client \ {n} : sync'[k] = sync[k]
         /\ PullSend(n) =>
              /\ sync'[n].pc = "pulling" /\ sync'[n].env = sync[n].env
              /\ \A k \in Client \ {n} : sync'[k] = sync[k]
<1> sync[n] \in Sync
  BY DEF TypeOK
<1>1. ASSUME PushExport(n)
      PROVE  /\ sync'[n].pc = "exported" /\ sync'[n].env = DirtyEnvelope(n)
             /\ \A k \in Client \ {n} : sync'[k] = sync[k]
  <2>1. sync'[n] = [sync[n] EXCEPT !.pc = "exported", !.env = DirtyEnvelope(n)]
        /\ \A k \in Client \ {n} : sync'[k] = sync[k]
    BY <1>1 DEF PushExport, TypeOK
  <2>2. QED
    BY <2>1 DEF Sync
<1>2. ASSUME PushSend(n)
      PROVE  /\ sync'[n].pc = "pushing" /\ sync'[n].env = sync[n].env
             /\ sync'[n].names = {c \in Category : dirty[n][c] # "clean"}
             /\ \A k \in Client \ {n} : sync'[k] = sync[k]
  <2>1. sync'[n] = [sync[n] EXCEPT !.pc = "pushing", !.names = {c \in Category : dirty[n][c] # "clean"}]
        /\ \A k \in Client \ {n} : sync'[k] = sync[k]
    BY <1>2 DEF PushSend, TypeOK
  <2>2. QED
    BY <2>1 DEF Sync
<1>3. ASSUME PullSend(n)
      PROVE  /\ sync'[n].pc = "pulling" /\ sync'[n].env = sync[n].env
             /\ \A k \in Client \ {n} : sync'[k] = sync[k]
  <2>1. sync'[n] = [sync[n] EXCEPT !.pc = "pulling"] /\ \A k \in Client \ {n} : sync'[k] = sync[k]
    BY <1>3 DEF PullSend, TypeOK
  <2>2. QED
    BY <2>1 DEF Sync
<1>4. QED
  BY <1>1, <1>2, <1>3

LEMMA ClientGivesUp ==
  ASSUME TypeOK, NEW n \in Client, Timeout(n) \/ CrashClient(n)
  PROVE  /\ \A m \in wire' : \E k \in wire :
              /\ m.env = k.env /\ m.kind = k.kind /\ m.client = k.client
              /\ IF k.client = n THEN ~m.open /\ k.kind \in {"import", "export"} ELSE m = k
         /\ \A k \in Node : \/ k = n /\ job'[k] = FreeJob
                            \/ /\ k # n /\ job[k].client = n
                               /\ job'[k].failed = job[k].failed
                               /\ job'[k].env = job[k].env /\ job'[k].client = job[k].client
                               /\ job'[k].stage = job[k].stage /\ job'[k].item = job[k].item
                               /\ job'[k].cat = job[k].cat /\ ~job'[k].open
                            \/ k # n /\ job[k].client # n /\ job'[k] = job[k]
         /\ \A k \in Client : sync'[k] = IF k = n THEN Idle ELSE sync[k]
         /\ UNCHANGED <<row, dirty, alias, clock, offered>>
<1>1. wire' = Orphaned(n) /\ job' = OrphanedJobs(n) /\ sync' = [sync EXCEPT ![n] = Idle]
      /\ UNCHANGED <<row, dirty, alias, clock, offered>>
  BY DEF Timeout, CrashClient
<1>2. ASSUME NEW m \in Orphaned(n)
      PROVE  \E k \in wire :
              /\ m.env = k.env /\ m.kind = k.kind /\ m.client = k.client
              /\ IF k.client = n THEN ~m.open /\ k.kind \in {"import", "export"} ELSE m = k
  <2>1. PICK k \in wire : /\ k.client # n \/ k.kind \in {"import", "export"}
                          /\ m = IF k.client = n THEN [k EXCEPT !.open = FALSE] ELSE k
    BY DEF Orphaned
  <2>2. k \in Message
    BY DEF TypeOK
  <2>3. QED
    BY <2>1, <2>2 DEF Message
<1>3. ASSUME NEW k \in Node
      PROVE  \/ k = n /\ job'[k] = FreeJob
             \/ /\ k # n /\ job[k].client = n
                /\ job'[k].failed = job[k].failed
                /\ job'[k].env = job[k].env /\ job'[k].client = job[k].client
                /\ job'[k].stage = job[k].stage /\ job'[k].item = job[k].item
                /\ job'[k].cat = job[k].cat /\ ~job'[k].open
             \/ k # n /\ job[k].client # n /\ job'[k] = job[k]
  <2>1. job'[k] = IF k = n THEN FreeJob
                  ELSE IF job[k].client = n THEN [job[k] EXCEPT !.open = FALSE] ELSE job[k]
    BY <1>1 DEF OrphanedJobs
  <2>2. job[k] \in Job
    BY DEF TypeOK
  <2>3. QED
    BY <2>1, <2>2 DEF Job
<1>4. \A k \in Client : sync'[k] = IF k = n THEN Idle ELSE sync[k]
  BY <1>1 DEF TypeOK
<1>5. QED
  BY <1>1, <1>2, <1>3, <1>4

-----------------------------------------------------------------------------
(* Where the entries and the versions come from. *)

\* An entry under way after a step was under way before, or is exported from a row.
Carried(i) == UnderWay(i) \/ \E n \in Node : i \in ItemsOf(n, Category)

LEMMA ItemsAreCarried ==
  ASSUME TypeOK, JobInv, Next, NEW i, UnderWay(i)'
  PROVE  Carried(i)
<1>1. ASSUME NEW n \in Node, NEW c \in Category, Write(n, c) \/ Delete(n, c)
      PROVE  Carried(i)
  BY <1>1 DEF Write, Delete, UnderWay, Carried
<1>2. ASSUME NEW n \in Node, Decide(n) \/ Upsert(n) \/ ApplyDeletion(n) \/ ClearApplied(n) \/ EntryFails(n)
      PROVE  Carried(i)
  <2>1. \A k \in Node : job'[k].env.items \subseteq job[k].env.items
    BY <1>2, JobGoesOn
  <2>2. sync' = sync /\ wire' = wire
    BY <1>2, JobGoesOn
  <2>3. QED
    BY <2>1, <2>2 DEF UnderWay, Carried
<1>3. ASSUME NEW n \in Node, FinishJob(n) \/ ClearFails(n) \/ (n = Hub /\ CrashHub)
      PROVE  Carried(i)
  <2>1. \A k \in Node : job'[k].env.items \subseteq job[k].env.items
    BY <1>3, JobEnds, Empties
  <2>2. \A k \in Client : sync'[k].env.items \subseteq sync[k].env.items
    BY <1>3, JobEnds, Empties
  <2>3. \A m \in wire' : m \in wire \/ m.env.items = {}
    BY <1>3, JobEnds, Empties
  <2>4. QED
    BY <2>1, <2>2, <2>3 DEF UnderWay, Carried
<1>4. ASSUME NEW n \in Client, PushExport(n) PROVE Carried(i)
  <2>1. wire' = wire /\ job' = job /\ sync' = [sync EXCEPT ![n] = [@ EXCEPT !.pc = "exported", !.env = DirtyEnvelope(n)]]
    BY <1>4 DEF PushExport
  <2>2. sync'[n].env = DirtyEnvelope(n) /\ \A k \in Client \ {n} : sync'[k] = sync[k]
    BY <1>4, ClientGoesOn
  <2>3. DirtyEnvelope(n).items \subseteq ItemsOf(n, Category)
    BY DEF DirtyEnvelope, ItemsOf
  <2>4. QED
    BY <2>1, <2>2, <2>3, Constants DEF UnderWay, Carried
<1>5. ASSUME NEW n \in Client, PushSend(n) \/ PullSend(n) PROVE Carried(i)
  <2>1. job' = job /\ \A k \in Client : sync'[k].env = sync[k].env
    BY <1>5, ClientGoesOn DEF PushSend, PullSend
  <2>2. \A m \in wire' : m \in wire \/ m.env = sync[n].env \/ m.env.items = {}
    BY <1>5 DEF PushSend, PullSend, Empty
  <2>3. QED
    BY <2>1, <2>2 DEF UnderWay, Carried
<1>6. ASSUME NEW m \in wire, HubExports(m) PROVE Carried(i)
  <2>1. job' = job /\ sync' = sync /\ \A k \in wire' : k \in wire \/ k.env.items = ItemsOf(Hub, Category)
    <3>1. [Empty EXCEPT !.items = ItemsOf(Hub, Category)].items = ItemsOf(Hub, Category)
      BY DEF Empty
    <3>2. [m EXCEPT !.kind = "exported", !.env = [Empty EXCEPT !.items = ItemsOf(Hub, Category)]].env.items
            = ItemsOf(Hub, Category)
      BY <3>1 DEF TypeOK, Message
    <3>3. QED
      BY <1>6, <3>2 DEF HubExports
  <2>2. QED
    BY <2>1, Constants DEF UnderWay, Carried
<1>7. ASSUME NEW m \in wire, HubImports(m) \/ PullArrives(m) PROVE Carried(i)
  <2>1. PICK n \in Node : StartJob(n, m)
    BY <1>7, Constants DEF HubImports, PullArrives, TypeOK, Message
  <2>2. \A k \in Node : job'[k].env = job[k].env \/ job'[k].env = m.env
    BY <2>1 DEF StartJob, TypeOK, FreeJob
  <2>3. QED
    BY <2>1, <2>2 DEF StartJob, UnderWay, Carried
<1>8. ASSUME NEW m \in wire, PushDone(m) \/ LoseRequest(m) PROVE Carried(i)
  <2>1. job' = job /\ wire' \subseteq wire
    BY <1>8, Empties DEF PushDone, LoseRequest
  <2>2. \A k \in Client : sync'[k].env.items \subseteq sync[k].env.items
    BY <1>8, Empties DEF PushDone, LoseRequest, TypeOK
  <2>3. QED
    BY <2>1, <2>2 DEF UnderWay, Carried
<1>9. ASSUME NEW n \in Client, Timeout(n) \/ CrashClient(n) PROVE Carried(i)
  <2>1. \A k \in Client : sync'[k].env.items \subseteq sync[k].env.items
    BY <1>9, ClientGivesUp, Empties
  <2>2. \A m \in wire' : \E k \in wire : m.env = k.env
    BY <1>9, ClientGivesUp
  <2>3. \A k \in Node : job'[k].env.items \subseteq job[k].env.items
    BY <1>9, ClientGivesUp, Empties
  <2>4. QED
    BY <2>1, <2>2, <2>3 DEF UnderWay, Carried
<1>10. QED
  BY <1>1, <1>2, <1>3, <1>4, <1>5, <1>6, <1>7, <1>8, <1>9, Constants DEF Next, Apply, Serve, Receive

\* What this step writes into a category is the entry that the node's job has decided for.
Imports(n, c) ==
  LET e == job[n].item IN
  job[n].stage = "upserting" /\ e \in Item /\ UnderWay(e) /\ c = e.cat /\ row'[n][c] = e.version

\* A row that changes becomes absent, a version under way or the version that is written now.
LEMMA RowsAreCarried ==
  ASSUME TypeOK, JobInv, Next
  PROVE  \/ /\ clock' = clock
            /\ \A n \in Node, c \in Category : row'[n][c] # row[n][c] /\ row'[n][c] # Absent => Imports(n, c)
         \/ \E n \in Node, t \in 1 .. MaxTime : \E v :
              /\ t > clock[n] /\ clock' = [clock EXCEPT ![n] = t]
              /\ v.by = n /\ v.at = t
              /\ \A k \in Node, c \in Category : row'[k][c] \in {row[k][c], Absent, v}
              /\ UNCHANGED <<sync, job, wire>>
<1> DEFINE Quietly == /\ clock' = clock
                      /\ \A n \in Node, c \in Category : row'[n][c] # row[n][c] /\ row'[n][c] # Absent => Imports(n, c)
           Stamped == \E n \in Node, t \in 1 .. MaxTime : \E v :
              /\ t > clock[n] /\ clock' = [clock EXCEPT ![n] = t]
              /\ v.by = n /\ v.at = t
              /\ \A k \in Node, c \in Category : row'[k][c] \in {row[k][c], Absent, v}
              /\ UNCHANGED <<sync, job, wire>>
<1>1. ASSUME NEW n \in Node, NEW c \in Category, Write(n, c) PROVE Stamped
  <2>1. PICK t \in 1 .. MaxTime, b \in Body :
          /\ t > clock[n] /\ clock' = [clock EXCEPT ![n] = t]
          /\ row' = [row EXCEPT ![n][c] = [body |-> b, at |-> t, by |-> n]]
          /\ UNCHANGED <<sync, job, wire>>
    BY <1>1, SyncAssumption DEF Write, Stamp
  <2> DEFINE v == [body |-> b, at |-> t, by |-> n]
  <2>2. v.by = n /\ v.at = t
    OBVIOUS
  <2>3. \A k \in Node, d \in Category : row'[k][d] \in {row[k][d], Absent, v}
    BY <2>1 DEF TypeOK
  <2> HIDE DEF v
  <2>4. QED
    BY <2>1, <2>2, <2>3
<1>2. ASSUME NEW n \in Node, NEW c \in Category, Delete(n, c) PROVE Stamped
  <2>1. PICK t \in 1 .. MaxTime :
          /\ t > clock[n] /\ clock' = [clock EXCEPT ![n] = t]
          /\ row' = [row EXCEPT ![n][c] = Absent]
          /\ UNCHANGED <<sync, job, wire>>
    BY <1>2 DEF Delete, Stamp, Remove
  <2> DEFINE v == [at |-> t, by |-> n]
  <2>2. v.by = n /\ v.at = t
    OBVIOUS
  <2>3. \A k \in Node, d \in Category : row'[k][d] \in {row[k][d], Absent, v}
    BY <2>1 DEF TypeOK
  <2> HIDE DEF v
  <2>4. QED
    BY <2>1, <2>2, <2>3
<1>3. ASSUME UNCHANGED <<row, clock>> PROVE Quietly
  BY <1>3
<1>4. ASSUME NEW n \in Node, Decide(n) \/ ClearApplied(n) \/ EntryFails(n) PROVE UNCHANGED <<row, clock>>
  BY <1>4, JobOfDecide, JobOfClear, JobOfFailure
<1>5. ASSUME NEW n \in Node, Upsert(n) PROVE Quietly
  <2>1. job[n].item \in job[n].env.items /\ job[n].item \in Item /\ clock' = clock
    BY <1>5, JobOfUpsert
  <2>2. row' = [row EXCEPT ![n][job[n].item.cat] = job[n].item.version]
    BY <1>5 DEF Upsert
  <2>3. \A k \in Node, c \in Category : row'[k][c] # row[k][c] =>
          k = n /\ c = job[n].item.cat /\ row'[k][c] = job[n].item.version
    BY <2>2 DEF TypeOK
  <2>4. UnderWay(job[n].item) /\ job[n].stage = "upserting"
    BY <1>5, <2>1, JobOfUpsert DEF UnderWay
  <2>5. QED
    BY <2>1, <2>3, <2>4 DEF Imports
<1>6. ASSUME NEW n \in Node, ApplyDeletion(n) PROVE Quietly
  <2>1. PICK c \in Category : Remove(n, c) /\ clock' = clock
    BY <1>6, JobOfDeletion
  <2>2. \A k \in Node, d \in Category : row'[k][d] # row[k][d] => row'[k][d] = Absent
    BY <2>1 DEF Remove, TypeOK
  <2>3. QED
    BY <2>1, <2>2
<1>7. ASSUME NEW n \in Node, FinishJob(n) \/ ClearFails(n) \/ (n = Hub /\ CrashHub) PROVE UNCHANGED <<row, clock>>
  BY <1>7, JobEnds
<1>8. ASSUME NEW n \in Client,
             PushExport(n) \/ PushSend(n) \/ PullSend(n) \/ Serve(n) \/ Receive(n) \/ Timeout(n) \/ CrashClient(n)
      PROVE  UNCHANGED <<row, clock>>
  BY <1>8 DEF PushExport, PushSend, PullSend, Serve, Receive, Timeout, CrashClient,
              HubExports, HubImports, PullArrives, PushDone, StartJob
<1>9. (\E m \in wire : LoseRequest(m)) => UNCHANGED <<row, clock>>
  BY DEF LoseRequest
<1> HIDE DEF Quietly, Stamped
<1>10. Quietly \/ Stamped
  BY <1>1, <1>2, <1>3, <1>4, <1>5, <1>6, <1>7, <1>8, <1>9, Constants DEF Next, Apply
<1>11. QED
  BY <1>10 DEF Quietly, Stamped

\* An exported entry is the version of a row, with the hash of its bytes.
LEMMA ExportsAreHeld ==
  ASSUME TypeOK, NEW n \in Node, NEW i \in ItemsOf(n, Category)
  PROVE  i \in Item /\ Held(i.version) /\ i.version # Absent /\ i.hash[1] = i.version.body
<1>1. PICK c \in Category : row[n][c] # Absent
                            /\ i = [cat |-> c, version |-> row[n][c], hash |-> HashOn(n, row[n][c].body)]
  BY DEF ItemsOf
<1>2. i \in Item
  BY ExportedItems DEF TypeOK
<1>3. QED
  BY <1>1, <1>2 DEF Held, HashOn

LEMMA HashesAreCarried ==
  ASSUME TypeOK, JobInv, HashInv, Next
  PROVE  HashInv'
<1>1. ASSUME NEW i \in Item, UnderWay(i)' PROVE i.version # Absent /\ i.hash[1] = i.version.body
  BY <1>1, ItemsAreCarried, ExportsAreHeld DEF Carried, HashInv
<1>2. ASSUME alias' = alias
      PROVE  \A n \in Node, c \in Category : alias'[n][c] # Absent => alias'[n][c].physical = HashOn(n, alias'[n][c].remote[1])
  BY <1>2 DEF HashInv
<1>3. ASSUME NEW k \in Node, NEW d \in Category, Remove(k, d)
      PROVE  \A n \in Node, c \in Category : alias'[n][c] # Absent => alias'[n][c].physical = HashOn(n, alias'[n][c].remote[1])
  BY <1>3 DEF HashInv, Remove, TypeOK
<1>4. ASSUME NEW k \in Node, Upsert(k)
      PROVE  \A n \in Node, c \in Category : alias'[n][c] # Absent => alias'[n][c].physical = HashOn(n, alias'[n][c].remote[1])
  <2>1. job[k].item \in Item /\ UnderWay(job[k].item)
    BY <1>4, JobOfUpsert DEF UnderWay
  <2> DEFINE e == job[k].item
             known == [remote |-> e.hash, by |-> e.version.by, physical |-> HashOn(k, e.version.body)]
  <2>2. known.physical = HashOn(k, known.remote[1])
    BY <2>1 DEF HashInv
  <2>3. alias' = [alias EXCEPT ![k][e.cat] = known]
    BY <1>4 DEF Upsert
  <2> HIDE DEF known
  <2>4. QED
    BY <2>2, <2>3 DEF HashInv, TypeOK
<1>5. \/ alias' = alias \/ (\E k \in Node : Upsert(k))
      \/ \E k \in Node, d \in Category : Remove(k, d)
  <2>1. ASSUME NEW n \in Node, NEW c \in Category, Write(n, c) PROVE alias' = alias
    BY <2>1 DEF Write
  <2>2. ASSUME NEW n \in Node, Decide(n) \/ ClearApplied(n) \/ EntryFails(n) PROVE alias' = alias
    BY <2>2, JobOfDecide, JobOfClear, JobOfFailure
  <2>3. ASSUME NEW n \in Node, ApplyDeletion(n) PROVE \E d \in Category : Remove(n, d)
    BY <2>3, JobOfDeletion
  <2>4. ASSUME NEW n \in Node, NEW c \in Category, Delete(n, c) PROVE Remove(n, c)
    BY <2>4 DEF Delete
  <2>5. ASSUME NEW n \in Node, FinishJob(n) \/ ClearFails(n) \/ (n = Hub /\ CrashHub) PROVE alias' = alias
    BY <2>5, JobEnds
  <2>6. ASSUME NEW n \in Client,
               PushExport(n) \/ PushSend(n) \/ PullSend(n) \/ Serve(n) \/ Receive(n) \/ Timeout(n) \/ CrashClient(n)
        PROVE  alias' = alias
    BY <2>6 DEF PushExport, PushSend, PullSend, Serve, Receive, Timeout, CrashClient,
                HubExports, HubImports, PullArrives, PushDone, StartJob
  <2>7. (\E m \in wire : LoseRequest(m)) => alias' = alias
    BY DEF LoseRequest
  <2>8. QED
    BY <2>1, <2>2, <2>3, <2>4, <2>5, <2>6, <2>7, Constants DEF Next, Apply
<1>6. QED
  BY <1>1, <1>2, <1>3, <1>4, <1>5 DEF HashInv

LEMMA StampsAreCarried ==
  ASSUME TypeOK, TypeOK', JobInv, StampInv, Next
  PROVE  StampInv'
<1>1. ASSUME NEW i \in Item, UnderWay(i)' PROVE Held(i.version)
  BY <1>1, ItemsAreCarried, ExportsAreHeld DEF Carried, Held
<1>2. CASE /\ clock' = clock
           /\ \A n \in Node, c \in Category : row'[n][c] # row[n][c] /\ row'[n][c] # Absent => Imports(n, c)
  <2>1. ASSUME NEW v, Held(v)' PROVE Held(v)
    BY <1>1, <1>2, <2>1 DEF Held, Imports
  <2>2. QED
    BY <1>2, <2>1 DEF StampInv
<1>3. ASSUME NEW n \in Node, NEW t \in 1 .. MaxTime, NEW v,
             t > clock[n], clock' = [clock EXCEPT ![n] = t], v.by = n, v.at = t,
             \A k \in Node, c \in Category : row'[k][c] \in {row[k][c], Absent, v}
      PROVE  StampInv'
  <2>1. ASSUME NEW w, Held(w)' PROVE w = v \/ Held(w)
    BY <1>1, <1>3, <2>1 DEF Held
  <2>2. \A k \in Node : clock[k] \in Nat /\ clock'[k] = IF k = n THEN t ELSE clock[k]
    BY <1>3, SyncAssumption DEF TypeOK
  <2>3. \A w \in Version : w.by \in Node /\ w.at \in Nat
    BY SyncAssumption DEF Version
  <2>4. t \in Nat
    BY SyncAssumption
  <2>5. \A w \in Version : Held(w)' => w.at <= clock'[w.by]
    BY <1>3, <2>1, <2>2, <2>3, <2>4 DEF StampInv
  <2>6. ASSUME NEW u \in Version, NEW w \in Version, Held(u)', Held(w)', u.by = w.by, u.at = w.at
        PROVE  u = w
    BY <1>3, <2>1, <2>2, <2>3, <2>4, <2>6 DEF StampInv
  <2>7. QED
    BY <2>5, <2>6 DEF StampInv
<1>4. QED
  BY <1>2, <1>3, RowsAreCarried

LEMMA JobsAreCarried ==
  ASSUME TypeOK, JobInv, Next
  PROVE  JobInv'
<1> DEFINE J(k) ==
      /\ job'[k].stage = "free" => job'[k].env = Empty
      /\ job'[k].stage # "free" => job'[k].client \in Client
      /\ job'[k].stage = "deciding" => job'[k].item = Absent
      /\ job'[k].stage = "upserting" => job'[k].item \in job'[k].env.items
      /\ job'[k].stage = "clearing" /\ job'[k].item # Absent =>
           job'[k].item \in job'[k].env.items /\ job'[k].cat = job'[k].item.cat
<1> SUFFICES ASSUME NEW k \in Node PROVE J(k)
  BY DEF JobInv
<1>1. ASSUME job'[k] = job[k] PROVE J(k)
  BY <1>1 DEF JobInv
<1>2. ASSUME job'[k] = FreeJob PROVE J(k)
  BY <1>2, Empties
<1>3. ASSUME NEW n \in Node, Decide(n) \/ Upsert(n) \/ ApplyDeletion(n) \/ ClearApplied(n) \/ EntryFails(n) PROVE J(k)
  <2>1. CASE k = n
    <3>1. job[n].client \in Client
      BY <1>3, JobGoesOn DEF JobInv
    <3>2. QED
      BY <1>3, <2>1, <3>1, JobGoesOn
  <2>2. CASE k # n
    BY <1>1, <1>3, <2>2, JobGoesOn
  <2>3. QED
    BY <2>1, <2>2
<1>4. ASSUME NEW n \in Node, FinishJob(n) \/ ClearFails(n) \/ (n = Hub /\ CrashHub) PROVE J(k)
  <2>1. job'[k] = FreeJob \/ job'[k] = job[k]
    BY <1>4, JobEnds
  <2>2. QED
    BY <2>1, <1>1, <1>2
<1>5. ASSUME NEW n \in Client, Timeout(n) \/ CrashClient(n) PROVE J(k)
  <2>1. CASE job'[k] = FreeJob \/ job'[k] = job[k]
    BY <2>1, <1>1, <1>2
  <2>2. CASE /\ job'[k].env = job[k].env /\ job'[k].client = job[k].client
             /\ job'[k].stage = job[k].stage /\ job'[k].item = job[k].item
             /\ job'[k].cat = job[k].cat
    <3>1. /\ job'[k].env = job[k].env /\ job'[k].client = job[k].client
          /\ job'[k].stage = job[k].stage /\ job'[k].item = job[k].item
          /\ job'[k].cat = job[k].cat
      BY <2>2
    <3>2. QED
      BY <3>1 DEF JobInv
  <2>3. QED
    BY <1>5, <2>1, <2>2, ClientGivesUp
<1>6. ASSUME NEW m \in wire, HubImports(m) \/ PullArrives(m) PROVE J(k)
  <2>1. PICK n \in Node : StartJob(n, m)
    BY <1>6, Constants DEF HubImports, PullArrives, TypeOK, Message
  <2>2. m.client \in Client
    BY DEF TypeOK, Message
  <2>3. CASE k = n
    <3>1. job'[k] = [FreeJob EXCEPT !.stage = "deciding", !.env = m.env, !.client = m.client, !.open = m.open]
      BY <2>1, <2>3 DEF StartJob, TypeOK
    <3>2. job'[k].stage = "deciding" /\ job'[k].item = Absent /\ job'[k].client = m.client
      BY <3>1 DEF FreeJob
    <3>3. QED
      BY <3>2, <2>2
  <2>4. CASE k # n
    BY <1>1, <2>1, <2>4 DEF StartJob, TypeOK
  <2>5. QED
    BY <2>3, <2>4
<1>7. ASSUME job' = job PROVE J(k)
  BY <1>1, <1>7
<1>8. ASSUME NEW n \in Node, NEW c \in Category, Write(n, c) \/ Delete(n, c) PROVE job' = job
  BY <1>8 DEF Write, Delete
<1>9. ASSUME NEW n \in Client, PushExport(n) \/ PushSend(n) \/ PullSend(n) PROVE job' = job
  BY <1>9 DEF PushExport, PushSend, PullSend
<1>10. ASSUME NEW m \in wire, HubExports(m) \/ PushDone(m) \/ LoseRequest(m) PROVE job' = job
  BY <1>10 DEF HubExports, PushDone, LoseRequest
<1> HIDE DEF J
<1>11. QED
  BY <1>3, <1>4, <1>5, <1>6, <1>7, <1>8, <1>9, <1>10, Constants DEF Next, Apply, Serve, Receive

\* Types, stamps, hashes and jobs stay consistent whatever the strategy, the clocks and the
\* faults, and with other processes writing the stores (apply_sync_envelope).
THEOREM SyncInvariant == Spec => []BasicInv
<1>1. Init => BasicInv
  <2> SUFFICES ASSUME Init PROVE BasicInv
    OBVIOUS
  <2>1. TypeOK
    BY Constants, SyncAssumption DEF Init, TypeOK, Mark
  <2>2. /\ \A i : ~UnderWay(i)
        /\ \A v : ~Held(v)
    BY Empties DEF Init, UnderWay, Held
  <2>3. QED
    BY <2>1, <2>2, Empties DEF Init, BasicInv, StampInv, HashInv, JobInv
<1>2. BasicInv /\ [Next]_vars => BasicInv'
  <2> SUFFICES ASSUME BasicInv, [Next]_vars PROVE BasicInv'
    OBVIOUS
  <2>1. CASE Next
    <3>1. TypeOK'
      BY <2>1, Constants, TypeWrite, TypePush, TypeMessages, TypeApply, TypeFaults DEF BasicInv, Next, Serve, Receive
    <3>2. QED
      BY <2>1, <3>1, JobsAreCarried, HashesAreCarried, StampsAreCarried DEF BasicInv
  <2>2. CASE UNCHANGED vars
    BY <2>2 DEF vars, BasicInv, TypeOK, StampInv, HashInv, JobInv, UnderWay, Held, Holds, HashOn
  <2>3. QED
    BY <2>1, <2>2
<1>3. QED
  BY <1>1, <1>2, PTL DEF Spec

\* No two versions bear the stamp of the same device and time, wherever they have got to:
\* upsert_synced_category keeps the stamp, which is what holds_remote_version relies on.
THEOREM VersionsAreIdentified == Spec => []StampsIdentifyVersions
<1>1. BasicInv => StampsIdentifyVersions
  <2> SUFFICES ASSUME BasicInv, NEW c \in Category, NEW v \in Everywhere(c), NEW w \in Everywhere(c),
                      v.by = w.by, v.at = w.at
               PROVE  v = w
    BY DEF StampsIdentifyVersions
  <2>1. ASSUME NEW u \in Everywhere(c) PROVE u \in Version /\ Held(u)
    <3>1. CASE \E n \in Node : u = row[n][c] /\ u # Absent
      BY <3>1 DEF BasicInv, TypeOK, Held
    <3>2. CASE \E m \in wire : \E i \in m.env.items : u = i.version
      <4>1. PICK m \in wire, i \in UNION {k.env.items : k \in wire} : i \in m.env.items /\ u = i.version
        BY <3>2
      <4>2. i \in Item
        BY <4>1 DEF BasicInv, TypeOK, Message, Envelope
      <4>3. QED
        BY <4>1, <4>2 DEF Held, UnderWay, Item
    <3>3. QED
      BY <3>1, <3>2 DEF Everywhere
  <2>2. QED
    BY <2>1 DEF BasicInv, StampInv
<1>2. QED
  BY <1>1, SyncInvariant, PTL

-----------------------------------------------------------------------------
(* What the store mutex gives: between a decision and its upsert nobody else writes. *)

LEMMA DecisionsStand ==
  ASSUME Shared = {}, TypeOK, JobInv, DecidedInv, Next
  PROVE  DecidedInv'
<1> DEFINE D(k) ==
      LET e == job[k].item IN
      /\ job[k].stage = "upserting" => row[k][e.cat] = Absent \/ (~Holds(k, e) /\ RemoteWins(k, e))
      /\ job[k].stage = "clearing" /\ e # Absent => row[k][e.cat] = e.version
<1> SUFFICES ASSUME NEW k \in Node PROVE D(k)'
  BY DEF DecidedInv
<1>1. ASSUME job'[k].stage = job[k].stage, job'[k].item = job[k].item, row'[k] = row[k], alias'[k] = alias[k]
      PROVE  D(k)'
  BY <1>1 DEF DecidedInv, Holds, RemoteWins, HashOn
<1>2. ASSUME job'[k].stage \in {"free", "deciding"} PROVE D(k)'
  BY <1>2
<1>3. ASSUME NEW n \in Node, NEW c \in Category, Write(n, c) \/ Delete(n, c) PROVE D(k)'
  <2>1. job[n].stage = "free" /\ job' = job
    BY <1>3 DEF Write, Delete, MayWrite
  <2>2. k # n => row'[k] = row[k] /\ alias'[k] = alias[k]
    BY <1>3 DEF Write, Delete, Remove, TypeOK
  <2>3. QED
    BY <1>1, <1>2, <2>1, <2>2
<1>4. ASSUME NEW n \in Node, Decide(n) PROVE D(k)'
  <2>1. UNCHANGED <<row, alias>> /\ job' = [job EXCEPT ![n] = job'[n]]
    BY <1>4, JobOfDecide
  <2>2. CASE k = n
    <3>1. CASE job'[n].stage = "deciding"
      BY <1>2, <2>2, <3>1
    <3>2. CASE job'[n].stage = "upserting" /\ (row[n][job'[n].item.cat] = Absent
                 \/ (~Holds(n, job'[n].item) /\ RemoteWins(n, job'[n].item)))
      BY <2>1, <2>2, <3>2 DEF Holds, RemoteWins, HashOn
    <3>3. QED
      BY <1>4, <3>1, <3>2, JobOfDecide
  <2>3. CASE k # n
    BY <1>1, <2>1, <2>3 DEF TypeOK
  <2>4. QED
    BY <2>2, <2>3
<1>5. ASSUME NEW n \in Node, Upsert(n) PROVE D(k)'
  <2>1. /\ job' = [job EXCEPT ![n] = job'[n]] /\ job'[n].stage = "clearing" /\ job'[n].item = job[n].item
        /\ job[n].item \in Item
    BY <1>5, JobOfUpsert
  <2>2. /\ row' = [row EXCEPT ![n][job[n].item.cat] = job[n].item.version]
        /\ k # n => alias'[k] = alias[k] /\ row'[k] = row[k]
    BY <1>5 DEF Upsert, TypeOK
  <2>3. CASE k = n
    <3>1. row'[n][job[n].item.cat] = job[n].item.version
      BY <2>1, <2>2 DEF TypeOK, Item
    <3>2. QED
      BY <2>1, <2>3, <3>1
  <2>4. CASE k # n
    BY <1>1, <2>1, <2>2, <2>4 DEF TypeOK
  <2>5. QED
    BY <2>3, <2>4
<1>6. ASSUME NEW n \in Node, ApplyDeletion(n) PROVE D(k)'
  <2>1. /\ job' = [job EXCEPT ![n] = job'[n]] /\ job'[n].stage = "clearing" /\ job'[n].item = Absent
    BY <1>6, JobOfDeletion
  <2>2. k # n => alias'[k] = alias[k] /\ row'[k] = row[k]
    BY <1>6, JobOfDeletion DEF Remove, TypeOK
  <2>3. CASE k = n
    BY <2>1, <2>3
  <2>4. CASE k # n
    BY <1>1, <2>1, <2>2, <2>4 DEF TypeOK
  <2>5. QED
    BY <2>3, <2>4
<1>7. ASSUME NEW n \in Node, ClearApplied(n) \/ EntryFails(n) PROVE D(k)'
  <2>1. job' = [job EXCEPT ![n] = job'[n]] /\ job'[n].stage = "deciding" /\ UNCHANGED <<row, alias>>
    BY <1>7, JobOfClear, JobOfFailure
  <2>2. QED
    BY <1>1, <1>2, <2>1 DEF TypeOK
<1>8. ASSUME NEW n \in Node, FinishJob(n) \/ ClearFails(n) \/ (n = Hub /\ CrashHub) PROVE D(k)'
  <2>1. (job'[k] = FreeJob \/ job'[k] = job[k]) /\ UNCHANGED <<row, alias>>
    BY <1>8, JobEnds
  <2>2. QED
    BY <1>1, <1>2, <2>1, Empties
<1>9. ASSUME NEW n \in Client, Timeout(n) \/ CrashClient(n) PROVE D(k)'
  <2>1. UNCHANGED <<row, alias>>
    BY <1>9, ClientGivesUp
  <2>2. job'[k] = FreeJob \/ (job'[k].stage = job[k].stage /\ job'[k].item = job[k].item)
    BY <1>9, ClientGivesUp
  <2>3. QED
    BY <1>1, <1>2, <2>1, <2>2, Empties
<1>10. ASSUME NEW m \in wire, HubImports(m) \/ PullArrives(m) PROVE D(k)'
  <2>1. PICK n \in Node : StartJob(n, m)
    BY <1>10, Constants DEF HubImports, PullArrives, TypeOK, Message
  <2>2. UNCHANGED <<row, alias>> /\ (k # n => job'[k] = job[k])
    BY <2>1 DEF StartJob, TypeOK
  <2>3. k = n => job'[k].stage = "deciding"
    BY <2>1 DEF StartJob, TypeOK, FreeJob
  <2>4. QED
    BY <1>1, <1>2, <2>2, <2>3
<1>11. ASSUME UNCHANGED <<row, alias, job>> PROVE D(k)'
  BY <1>1, <1>11
<1>12. ASSUME NEW n \in Client, PushExport(n) \/ PushSend(n) \/ PullSend(n) PROVE UNCHANGED <<row, alias, job>>
  BY <1>12 DEF PushExport, PushSend, PullSend
<1>13. ASSUME NEW m \in wire, HubExports(m) \/ PushDone(m) \/ LoseRequest(m) PROVE UNCHANGED <<row, alias, job>>
  BY <1>13 DEF HubExports, PushDone, LoseRequest
<1> HIDE DEF D
<1>14. QED
  BY <1>3, <1>4, <1>5, <1>6, <1>7, <1>8, <1>9, <1>10, <1>11, <1>12, <1>13, Constants DEF Next, Apply, Serve, Receive

\* Where no other process writes the stores, what get_meta, holds_remote_version and
\* resolve_conflict said outside the write lock is still so when the upsert commits.
THEOREM DecisionsAreCurrent ==
  ASSUME Shared = {}
  PROVE  Spec => [](BasicInv /\ DecidedInv)
<1>1. Init => DecidedInv
  BY Empties DEF Init, DecidedInv
<1>2. BasicInv /\ DecidedInv /\ [Next]_vars => DecidedInv'
  <2>1. UNCHANGED vars /\ DecidedInv => DecidedInv'
    BY DEF vars, DecidedInv, Holds, RemoteWins, HashOn
  <2>2. QED
    BY <2>1, DecisionsStand DEF BasicInv
<1>3. QED
  BY <1>1, <1>2, SyncInvariant, PTL DEF Spec

\* Of the steps that give out no timestamp, those of sync, none replaces a version with an
\* older one under last_write_wins (resolve_conflict and upsert_synced_category together).
THEOREM SyncKeepsTheNewer ==
  ASSUME Shared = {}, Strategy = "last_write_wins"
  PROVE  Spec => NewerIsNotReplaced
<1>1. ASSUME BasicInv, DecidedInv, Next, clock' = clock, NEW n \in Node, NEW c \in Category,
             row[n][c] # Absent, row'[n][c] # Absent
      PROVE  row'[n][c].at >= row[n][c].at
  <2>1. \A k \in Node, t \in Nat : t > clock[k] /\ clock' = [clock EXCEPT ![k] = t] => FALSE
    BY <1>1, SyncAssumption DEF BasicInv, TypeOK
  <2>2. row[n][c] \in Version /\ row[n][c].at \in Nat
    BY <1>1, SyncAssumption DEF BasicInv, TypeOK, Version
  <2>3. CASE row'[n][c] = row[n][c]
    BY <2>2, <2>3
  <2>4. CASE row'[n][c] # row[n][c]
    <3>1. Imports(n, c)
      BY <1>1, <2>1, <2>4, RowsAreCarried, SyncAssumption DEF BasicInv
    <3>2. RemoteWins(n, job[n].item) /\ row'[n][c] = job[n].item.version /\ c = job[n].item.cat
      BY <1>1, <3>1 DEF Imports, DecidedInv
    <3>3. QED
      BY <3>2 DEF RemoteWins
  <2>5. QED
    BY <2>3, <2>4
<1>2. BasicInv /\ DecidedInv /\ [Next]_vars =>
        [clock' = clock => \A n \in Node, c \in Category :
           row[n][c] # Absent /\ row'[n][c] # Absent => row'[n][c].at >= row[n][c].at]_vars
  BY <1>1
<1>3. QED
  BY <1>2, DecisionsAreCurrent, PTL DEF Spec, NewerIsNotReplaced

\* What a node recognises it has: the alias names the bytes the node stored for that hash.
LEMMA HeldBodies ==
  ASSUME TypeOK, HashInv, NEW n \in Node, NEW e \in Item, UnderWay(e), Holds(n, e), row[n][e.cat] # Absent
  PROVE  row[n][e.cat].body = e.version.body
<1>1. e.hash[1] = e.version.body
  BY DEF HashInv
<1>2. CASE HashOn(n, row[n][e.cat].body) = e.hash
  BY <1>1, <1>2 DEF HashOn
<1>3. CASE alias[n][e.cat] = [remote |-> e.hash, by |-> e.version.by, physical |-> HashOn(n, row[n][e.cat].body)]
  <2>1. HashOn(n, row[n][e.cat].body) = HashOn(n, e.hash[1])
    <3>1. e.cat \in Category /\ e.hash \in Hash /\ e.version.by \in Node /\ row[n][e.cat].body \in Body
      BY DEF TypeOK, Item, Version
    <3>2. [remote |-> e.hash, by |-> e.version.by, physical |-> HashOn(n, row[n][e.cat].body)] \in Alias
      BY <3>1 DEF Alias, Hash, HashOn
    <3>3. alias[n][e.cat] # Absent
      BY <1>3, <3>2, AbsentAssumption
    <3>4. QED
      BY <1>3, <3>1, <3>3 DEF HashInv
  <2>2. QED
    BY <1>1, <2>1 DEF HashOn
<1>4. QED
  BY <1>2, <1>3 DEF Holds

\* Unless local_wins, apply_sync_envelope drops an entry without an error only when the row
\* is not older than it or has its body.
THEOREM AppliedIsCaughtUp ==
  ASSUME Shared = {}, Strategy # "local_wins"
  PROVE  Spec => ImportCatchesUp
<1>1. ASSUME BasicInv, DecidedInv, Next, NEW n \in Node, job'[n].stage # "free", ~job'[n].failed,
             NEW e \in job[n].env.items \ job'[n].env.items
      PROVE  row'[n][e.cat] # Absent
               /\ (row'[n][e.cat].at >= e.version.at \/ row'[n][e.cat].body = e.version.body)
  <2> DEFINE Done == row'[n][e.cat] # Absent
               /\ (row'[n][e.cat].at >= e.version.at \/ row'[n][e.cat].body = e.version.body)
  <2> TypeOK /\ JobInv
    BY <1>1 DEF BasicInv
  <2>0. e \in Item /\ UnderWay(e) /\ e.version # Absent /\ e.version.at \in Nat
    <3>1. e \in Item
      BY DEF TypeOK, Job, Envelope
    <3>2. UnderWay(e)
      BY DEF UnderWay
    <3>3. QED
      BY <1>1, <3>1, <3>2, SyncAssumption DEF BasicInv, HashInv, Item, Version
  <2>1. CASE Decide(n)
    <3>1. row' = row /\ row[n][e.cat] # Absent /\ (Holds(n, e) \/ ~RemoteWins(n, e))
      BY <2>1, JobOfDecide
    <3>2. CASE Holds(n, e)
      BY <1>1, <2>0, <3>1, <3>2, HeldBodies DEF BasicInv
    <3>3. CASE ~RemoteWins(n, e)
      <4>1. Strategy = "last_write_wins"
        BY <1>1, <3>3, SyncAssumption DEF RemoteWins
      <4>2. row[n][e.cat].at \in Nat
        BY <2>0, <3>1, SyncAssumption DEF TypeOK, Item, Version
      <4>3. QED
        BY <2>0, <3>1, <3>3, <4>1, <4>2 DEF RemoteWins
    <3>4. QED
      BY <3>1, <3>2, <3>3
  <2>2. CASE ClearApplied(n)
    <3>1. row' = row /\ job[n].item = e /\ job[n].item # Absent /\ job[n].stage = "clearing"
      BY <2>2, JobOfClear
    <3>2. row'[n][e.cat] = e.version
      BY <1>1, <3>1 DEF DecidedInv
    <3>3. QED
      BY <2>0, <3>2
  <2>3. ~Upsert(n) /\ ~ApplyDeletion(n) /\ ~EntryFails(n)
    BY <1>1, JobOfUpsert, JobOfDeletion, JobOfFailure
  <2>4. ~FinishJob(n) /\ ~ClearFails(n) /\ (n = Hub => ~CrashHub)
    BY <1>1, JobEnds, Empties
  <2>5. ASSUME job'[n].env.items = job[n].env.items \/ job'[n] = FreeJob PROVE FALSE
    BY <1>1, <2>5, Empties
  <2>6. ASSUME NEW k \in Node \ {n},
               Decide(k) \/ Upsert(k) \/ ApplyDeletion(k) \/ ClearApplied(k) \/ EntryFails(k) PROVE FALSE
    BY <2>5, <2>6, JobGoesOn
  <2>7. ASSUME NEW k \in Node \ {n}, FinishJob(k) \/ ClearFails(k) \/ (k = Hub /\ CrashHub) PROVE FALSE
    BY <2>5, <2>7, JobEnds
  <2>8. ASSUME NEW k \in Client, Timeout(k) \/ CrashClient(k) PROVE FALSE
    BY <2>5, <2>8, ClientGivesUp
  <2>9. ASSUME NEW m \in wire, HubImports(m) \/ PullArrives(m) PROVE FALSE
    <3>1. PICK k \in Node : StartJob(k, m)
      BY <2>9, Constants DEF HubImports, PullArrives, TypeOK, Message
    <3>2. CASE k = n
      BY <1>1, <3>1, <3>2, Empties DEF StartJob, JobInv
    <3>3. CASE k # n
      BY <2>5, <3>1, <3>3 DEF StartJob, TypeOK
    <3>4. QED
      BY <3>2, <3>3
  <2>10. ASSUME job' = job PROVE FALSE
    BY <2>5, <2>10
  <2>11. ASSUME NEW k \in Node, NEW c \in Category, Write(k, c) \/ Delete(k, c) PROVE job' = job
    BY <2>11 DEF Write, Delete
  <2>12. ASSUME NEW k \in Client, PushExport(k) \/ PushSend(k) \/ PullSend(k) PROVE job' = job
    BY <2>12 DEF PushExport, PushSend, PullSend
  <2>13. ASSUME NEW m \in wire, HubExports(m) \/ PushDone(m) \/ LoseRequest(m) PROVE job' = job
    BY <2>13 DEF HubExports, PushDone, LoseRequest
  <2> HIDE DEF Done
  <2>14. Done
    BY <1>1, <2>1, <2>2, <2>3, <2>4, <2>6, <2>7, <2>8, <2>9, <2>10, <2>11, <2>12, <2>13, Constants
    DEF Next, Apply, Serve, Receive, Done
  <2>15. QED
    BY <2>14 DEF Done
<1>2. BasicInv /\ DecidedInv /\ [Next]_vars =>
        [\A n \in Node : job'[n].stage # "free" /\ ~job'[n].failed =>
           \A e \in job[n].env.items \ job'[n].env.items :
             LET v == row'[n][e.cat] IN
             v # Absent /\ (v.at >= e.version.at \/ v.body = e.version.body)]_vars
  BY <1>1
<1>3. QED
  BY <1>2, DecisionsAreCurrent, PTL DEF Spec, ImportCatchesUp

\* The alias lets a node recognise what it has imported: upsert_synced_category is not
\* called for such an entry again.
THEOREM ImportsAreRecognised ==
  ASSUME Shared = {}
  PROVE  Spec => NothingIsImportedTwice
<1>1. ASSUME BasicInv, DecidedInv, NEW n \in Node, job[n].stage = "upserting",
             row[n][job[n].item.cat] = job[n].item.version, alias[n][job[n].item.cat] # Absent,
             alias[n][job[n].item.cat].remote = job[n].item.hash,
             alias[n][job[n].item.cat].by = job[n].item.version.by
      PROVE  FALSE
  <2> DEFINE e == job[n].item
             known == alias[n][e.cat]
  <2>1. e \in job[n].env.items /\ e \in Item
    BY <1>1 DEF BasicInv, JobInv, TypeOK, Job, Envelope
  <2>2. UnderWay(e)
    BY <2>1 DEF UnderWay
  <2>3. e.version # Absent /\ e.hash[1] = e.version.body
    BY <1>1, <2>1, <2>2 DEF BasicInv, HashInv
  <2>4. known \in Alias /\ known.physical = HashOn(n, known.remote[1])
    BY <1>1, <2>1 DEF BasicInv, HashInv, TypeOK, Item
  <2>5. known.physical = HashOn(n, row[n][e.cat].body)
    BY <1>1, <2>3, <2>4
  <2>6. known = [remote |-> e.hash, by |-> e.version.by, physical |-> HashOn(n, row[n][e.cat].body)]
    BY <1>1, <2>4, <2>5 DEF Alias
  <2>7. Holds(n, e)
    BY <2>6 DEF Holds
  <2>8. QED
    BY <1>1, <2>3, <2>7 DEF DecidedInv
<1>2. BasicInv /\ DecidedInv /\ [Next]_vars =>
        [\A n \in Node : job[n].stage = "upserting" /\ job'[n].stage = "clearing" =>
           LET e == job[n].item  known == alias[n][e.cat] IN
           ~(row[n][e.cat] = e.version /\ known # Absent
               /\ known.remote = e.hash /\ known.by = e.version.by)]_vars
  BY <1>1
<1>3. QED
  BY <1>2, DecisionsAreCurrent, PTL DEF Spec, NothingIsImportedTwice

-----------------------------------------------------------------------------
(* What a push achieves. *)

\* What an action may change of a node's rows and queue.
LEMMA LocalChanges ==
  ASSUME TypeOK, JobInv, Next, NEW n \in Node
  PROVE  \/ row'[n] = row[n] /\ dirty'[n] = dirty[n]
         \/ \E c \in Category : Write(n, c) \/ Delete(n, c)
         \/ Upsert(n) \/ ApplyDeletion(n) \/ ClearApplied(n)
         \/ \E m \in wire : m.client = n /\ PushDone(m)
<1>1. ASSUME NEW k \in Node, k # n, NEW c \in Category, Write(k, c) \/ Delete(k, c)
      PROVE  row'[n] = row[n] /\ dirty'[n] = dirty[n]
  BY <1>1 DEF Write, Delete, Remove, TypeOK
<1>2. ASSUME NEW k \in Node, k # n, Upsert(k) \/ ApplyDeletion(k) \/ ClearApplied(k)
      PROVE  row'[n] = row[n] /\ dirty'[n] = dirty[n]
  BY <1>2 DEF Upsert, ApplyDeletion, ClearApplied, Remove, TypeOK
<1>3. ASSUME NEW m \in wire, m.client # n, PushDone(m) PROVE row'[n] = row[n] /\ dirty'[n] = dirty[n]
  BY <1>3 DEF PushDone, TypeOK
<1>4. ASSUME NEW k \in Node, Decide(k) \/ EntryFails(k) PROVE UNCHANGED <<row, dirty>>
  BY <1>4, JobOfDecide, JobOfFailure
<1>5. ASSUME NEW k \in Node, FinishJob(k) \/ ClearFails(k) \/ (k = Hub /\ CrashHub) PROVE UNCHANGED <<row, dirty>>
  BY <1>5, JobEnds
<1>6. ASSUME NEW k \in Client, PushExport(k) \/ PushSend(k) \/ PullSend(k) \/ Timeout(k) \/ CrashClient(k)
      PROVE  UNCHANGED <<row, dirty>>
  BY <1>6 DEF PushExport, PushSend, PullSend, Timeout, CrashClient
<1>7. ASSUME NEW m \in wire, HubExports(m) \/ HubImports(m) \/ PullArrives(m) \/ LoseRequest(m)
      PROVE  UNCHANGED <<row, dirty>>
  BY <1>7 DEF HubExports, HubImports, PullArrives, StartJob, LoseRequest
<1>8. QED
  BY <1>1, <1>2, <1>3, <1>4, <1>5, <1>6, <1>7, Constants DEF Next, Apply, Serve, Receive

\* A device waits for one answer, whatever is sent, lost, given up or restarted.
LEMMA RequestsStand ==
  ASSUME TypeOK, TypeOK', JobInv, RequestInv, Next
  PROVE  RequestInv'
<1> \A m \in wire : m.client \in Client
  BY DEF TypeOK, Message
<1> \A m \in wire' : m.client \in Client
  BY DEF TypeOK, Message
<1> Hub \in Node /\ Hub \notin Client /\ \A n \in Client : n \in Node
  BY Constants
<1>1. ASSUME wire' \subseteq wire, \A n \in Client : sync'[n].pc = sync[n].pc,
             \A n \in Node : /\ job'[n].stage = "free" <=> job[n].stage = "free"
                             /\ job'[n].client = job[n].client /\ job'[n].open = job[n].open
      PROVE  RequestInv'
  BY <1>1 DEF RequestInv, Awaited
<1>2. ASSUME NEW n \in Node, NEW c \in Category, Write(n, c) \/ Delete(n, c) PROVE RequestInv'
  <2>1. UNCHANGED <<wire, sync, job>>
    BY <1>2 DEF Write, Delete
  <2>2. QED
    BY <1>1, <2>1
<1>3. ASSUME NEW n \in Node, Decide(n) \/ Upsert(n) \/ ApplyDeletion(n) \/ ClearApplied(n) \/ EntryFails(n)
      PROVE  RequestInv'
  <2>1. UNCHANGED <<wire, sync>>
    BY <1>3, JobGoesOn
  <2>2. \A k \in Node : /\ job'[k].stage = "free" <=> job[k].stage = "free"
                        /\ job'[k].client = job[k].client /\ job'[k].open = job[k].open
    BY <1>3, JobGoesOn
  <2>3. QED
    BY <1>1, <2>1, <2>2
<1>4. ASSUME NEW m \in wire, LoseRequest(m) PROVE RequestInv'
  BY <1>1, <1>4 DEF LoseRequest
<1>5. ASSUME NEW n \in Client, sync[n].pc \in {"idle", "exported"},
             \A k \in Client \ {n} : sync'[k] = sync[k], job' = job, wire' \subseteq wire
      PROVE  RequestInv'
  <2>1. /\ \A m \in wire : m.open => m.client # n
        /\ ~Awaited(n) /\ job[n].stage = "free"
    BY <1>5 DEF RequestInv, Waiting
  <2>2. QED
    BY <1>5, <2>1 DEF RequestInv, Awaited
<1>6. ASSUME NEW n \in Client, PushExport(n) PROVE RequestInv'
  BY <1>5, <1>6, ClientGoesOn DEF PushExport
<1>7. ASSUME NEW n \in Client, PushSend(n) \/ PullSend(n) PROVE RequestInv'
  <2>1. PICK m \in wire' : /\ m.client = n /\ m.open /\ wire' = wire \cup {m}
                           /\ m.kind \notin {"imported", "exported"} /\ sync'[n].pc = Waiting(m.kind)
    <3> DEFINE Request(kind, env) == [kind |-> kind, client |-> n, env |-> env, ok |-> TRUE, open |-> TRUE]
    <3>0. \A kind, env : Request(kind, env).client = n /\ Request(kind, env).open /\ Request(kind, env).kind = kind
      OBVIOUS
    <3>1. CASE PushSend(n)
      <4>1. wire' = wire \cup {Request("import", sync[n].env)} /\ sync'[n].pc = "pushing"
        BY <3>1, ClientGoesOn DEF PushSend
      <4> HIDE DEF Request
      <4>2. QED
        BY <3>0, <4>1 DEF Waiting
    <3>2. CASE PullSend(n)
      <4>1. wire' = wire \cup {Request("export", Empty)} /\ sync'[n].pc = "pulling"
        BY <3>2, ClientGoesOn DEF PullSend
      <4> HIDE DEF Request
      <4>2. QED
        BY <3>0, <4>1 DEF Waiting
    <3>3. QED
      BY <1>7, <3>1, <3>2
  <2>2. /\ \A k \in Client \ {n} : sync'[k] = sync[k]
        /\ job' = job /\ sync[n].pc \in {"idle", "exported"}
    BY <1>7, ClientGoesOn DEF PushSend, PullSend
  <2>3. /\ \A k \in wire : k.open => k.client # n
        /\ ~Awaited(n) /\ job[n].stage = "free"
    BY <2>2 DEF RequestInv, Waiting
  <2>4. QED
    BY <2>1, <2>2, <2>3 DEF RequestInv, Awaited
<1>8. ASSUME NEW m \in wire, HubExports(m) PROVE RequestInv'
  <2>1. UNCHANGED <<job, sync>>
    BY <1>8 DEF HubExports
  <2>2. CASE ~m.open
    BY <1>1, <1>8, <2>1, <2>2 DEF HubExports
  <2>3. CASE m.open
    <3>1. PICK r \in wire' : /\ wire' = (wire \ {m}) \cup {r}
                             /\ r.client = m.client /\ r.open /\ r.kind = "exported" /\ m.kind = "export"
      BY <1>8, <2>3 DEF HubExports, TypeOK, Message
    <3>2. QED
      BY <2>1, <2>3, <3>1 DEF RequestInv, Awaited, Waiting
  <2>4. QED
    BY <2>2, <2>3
<1>9. ASSUME NEW m \in wire, HubImports(m) PROVE RequestInv'
  <2>1. /\ wire' = wire \ {m} /\ sync' = sync /\ m.kind = "import" /\ job[Hub].stage = "free"
        /\ \A n \in Node \ {Hub} : job'[n] = job[n]
        /\ job'[Hub] = [FreeJob EXCEPT !.stage = "deciding", !.env = m.env, !.client = m.client, !.open = m.open]
    BY <1>9, Constants DEF HubImports, StartJob, TypeOK
  <2>2. job'[Hub].stage = "deciding" /\ job'[Hub].client = m.client /\ job'[Hub].open = m.open
    BY <2>1 DEF FreeJob
  <2>3. QED
    BY <2>1, <2>2 DEF RequestInv, Awaited, Waiting
<1>10. ASSUME NEW m \in wire, PullArrives(m) PROVE RequestInv'
  <2>1. /\ wire' = wire \ {m} /\ sync' = sync /\ m.kind = "exported" /\ sync[m.client].pc = "pulling"
        /\ \A n \in Node \ {m.client} : job'[n] = job[n]
        /\ m.client \in Client
    BY <1>10, Constants DEF PullArrives, StartJob, TypeOK, Message
  <2>2. QED
    BY <2>1 DEF RequestInv, Awaited, Waiting
<1>11. ASSUME NEW m \in wire, PushDone(m) PROVE RequestInv'
  <2>1. /\ wire' = wire \ {m} /\ job' = job /\ m.kind = "imported" /\ m.client \in Client
        /\ \A k \in Client \ {m.client} : sync'[k] = sync[k]
    BY <1>11 DEF PushDone, TypeOK, Message
  <2>2. QED
    BY <2>1 DEF RequestInv, Awaited, Waiting
<1>12. ASSUME NEW n \in Node, FinishJob(n) \/ ClearFails(n) \/ (n = Hub /\ CrashHub) PROVE RequestInv'
  <2>1. /\ \A k \in Node : job'[k] = IF k = n THEN FreeJob ELSE job[k]
        /\ \A k \in Client : sync'[k] = IF k = n THEN Idle ELSE sync[k]
        /\ job[n].stage # "free"
        /\ \A m \in wire' \ wire : n = Hub /\ m.kind = "imported" /\ job[n].open /\ m.client = job[n].client /\ m.open = TRUE
        /\ wire \subseteq wire' /\ (n # Hub => wire' = wire)
    BY <1>12, JobEnds
  <2>2. CASE n # Hub
    <3>1. n \in Client
      BY <2>2 DEF Node
    <3>2. ~Awaited(n) /\ \A m \in wire : m.open => m.client # n
      BY <2>1, <3>1 DEF RequestInv
    <3>3. QED
      BY <2>1, <2>2, <3>1, <3>2, Empties DEF RequestInv, Awaited
  <2>3. CASE n = Hub
    <3>1. sync' = sync /\ \A k \in Client : ~Awaited(k)'
      BY <2>1, <2>3, Empties, Constants, <1>12, JobEnds DEF Awaited, EndJob
    <3>2. job[Hub].open => Awaited(job[Hub].client) /\ job[Hub].client \in Client
      BY <2>1, <2>3 DEF Awaited, JobInv
    <3>3. \A k, m \in wire' \ wire : k = m
      BY <1>12, JobEnds
    <3>4. QED
      BY <2>1, <2>3, <3>1, <3>2, <3>3, Empties DEF RequestInv, Awaited, Waiting
  <2>4. QED
    BY <2>2, <2>3
<1>13. ASSUME NEW n \in Client, Timeout(n) \/ CrashClient(n) PROVE RequestInv'
  <2>1. \A m \in wire' : IF m.client = n THEN ~m.open /\ m.kind \in {"import", "export"} ELSE m \in wire
    BY <1>13, ClientGivesUp
  <2>2. /\ \A k \in Node : IF k = n THEN job'[k] = FreeJob ELSE job'[k].stage = job[k].stage
        /\ \A k \in Client \ {n} : sync'[k] = sync[k]
    BY <1>13, ClientGivesUp
  <2>3. \A k \in Node \ {n} : (~job'[k].open /\ job'[k].client = n) \/ (job'[k] = job[k] /\ job[k].client # n)
    <3> SUFFICES ASSUME NEW k \in Node \ {n}
                 PROVE  (~job'[k].open /\ job'[k].client = n) \/ (job'[k] = job[k] /\ job[k].client # n)
      OBVIOUS
    <3>1. \/ /\ k # n /\ job[k].client = n
             /\ job'[k].failed = job[k].failed
             /\ job'[k].env = job[k].env /\ job'[k].client = job[k].client
             /\ job'[k].stage = job[k].stage /\ job'[k].item = job[k].item
             /\ job'[k].cat = job[k].cat /\ ~job'[k].open
          \/ k # n /\ job[k].client # n /\ job'[k] = job[k]
      BY <1>13, ClientGivesUp
    <3>2. QED
      BY <3>1, Zenon
  <2>4. ~Awaited(n)' /\ \A k \in Client \ {n} : Awaited(k)' => Awaited(k)
    BY <2>3 DEF Awaited
  <2>5. QED
    BY <2>1, <2>2, <2>4, Empties DEF RequestInv
<1>14. QED
  BY <1>2, <1>3, <1>4, <1>6, <1>7, <1>8, <1>9, <1>10, <1>11, <1>12, <1>13, Constants
  DEF Next, Apply, Serve, Receive

\* What the hub has ruled on stays ruled on.
LEMMA OfferedGrows ==
  ASSUME TypeOK, JobInv, Next, NEW c \in Category
  PROVE  offered[c] \subseteq offered'[c]
<1>1. ASSUME NEW e, NEW n, Offered(n, e) PROVE offered[c] \subseteq offered'[c]
  BY <1>1 DEF Offered, TypeOK
<1>2. ASSUME NEW n \in Node, NEW d \in Category, Write(n, d) \/ Delete(n, d) PROVE offered[c] \subseteq offered'[c]
  BY <1>2 DEF Write, Delete, TypeOK
<1>3. ASSUME NEW n \in Node, Decide(n) \/ Upsert(n) PROVE offered[c] \subseteq offered'[c]
  BY <1>1, <1>3 DEF Decide, Upsert
<1>4. ASSUME NEW n \in Node, ApplyDeletion(n) \/ ClearApplied(n) \/ EntryFails(n) PROVE offered' = offered
  BY <1>4, JobOfDeletion, JobOfClear, JobOfFailure
<1>5. ASSUME NEW k \in Node, FinishJob(k) \/ ClearFails(k) \/ (k = Hub /\ CrashHub) PROVE offered' = offered
  BY <1>5, JobEnds
<1>6. ASSUME NEW k \in Client, PushExport(k) \/ PushSend(k) \/ PullSend(k) \/ Timeout(k) \/ CrashClient(k)
      PROVE  offered' = offered
  BY <1>6 DEF PushExport, PushSend, PullSend, Timeout, CrashClient
<1>7. ASSUME NEW m \in wire, HubExports(m) \/ HubImports(m) \/ PullArrives(m) \/ PushDone(m) \/ LoseRequest(m)
      PROVE  offered' = offered
  BY <1>7 DEF HubExports, HubImports, PullArrives, StartJob, PushDone, LoseRequest
<1>8. QED
  BY <1>2, <1>3, <1>4, <1>5, <1>6, <1>7, Constants DEF Next, Apply, Serve, Receive

\* Which steps send the messages that are in flight.
LEMMA Messages ==
  ASSUME TypeOK, JobInv, Next, NEW m \in wire'
  PROVE  /\ m.kind = "exported" =>
              \/ m.env.items = ItemsOf(Hub, Category)
              \/ \E k \in wire : k.kind = "exported" /\ k.env = m.env
         /\ m.kind = "import" /\ m.open =>
              \/ m \in wire
              \/ PushSend(m.client) /\ m.client \in Client /\ m.env = sync[m.client].env
         /\ m.kind = "imported" =>
              \/ m \in wire
              \/ Awaited(m.client) /\ (m.ok => ~job[Hub].failed /\ job[Hub].env.items = {})
<1> DEFINE Sent ==
         /\ m.kind = "exported" =>
              \/ m.env.items = ItemsOf(Hub, Category)
              \/ \E k \in wire : k.kind = "exported" /\ k.env = m.env
         /\ m.kind = "import" /\ m.open =>
              \/ m \in wire
              \/ PushSend(m.client) /\ m.client \in Client /\ m.env = sync[m.client].env
         /\ m.kind = "imported" =>
              \/ m \in wire
              \/ Awaited(m.client) /\ (m.ok => ~job[Hub].failed /\ job[Hub].env.items = {})
<1>1. ASSUME m \in wire PROVE Sent
  BY <1>1
<1>2. ASSUME NEW n \in Node, NEW c \in Category, Write(n, c) \/ Delete(n, c) PROVE wire' = wire
  BY <1>2 DEF Write, Delete
<1>3. ASSUME NEW n \in Node, Decide(n) \/ Upsert(n) \/ ApplyDeletion(n) \/ ClearApplied(n) \/ EntryFails(n)
      PROVE  wire' = wire
  BY <1>3, JobGoesOn
<1>4. ASSUME NEW n \in Node, FinishJob(n) \/ ClearFails(n) \/ (n = Hub /\ CrashHub) PROVE Sent
  <2>1. m \notin wire => /\ n = Hub /\ m.kind = "imported" /\ m.client = job[n].client /\ job[n].open
                         /\ m.ok => ~job[n].failed /\ job[n].env.items = {}
                         /\ job[n].stage # "free"
    BY <1>4, JobEnds
  <2>2. QED
    BY <1>1, <2>1 DEF Awaited
<1>5. ASSUME NEW n \in Client, PushExport(n) PROVE wire' = wire
  BY <1>5 DEF PushExport
<1>6. ASSUME NEW n \in Client, PushSend(n) PROVE Sent
  <2> DEFINE r == [kind |-> "import", client |-> n, env |-> sync[n].env, ok |-> TRUE, open |-> TRUE]
  <2>1. r.kind = "import" /\ r.client = n /\ r.env = sync[n].env
    OBVIOUS
  <2>2. m \in wire \/ m = r
    BY <1>6 DEF PushSend
  <2> HIDE DEF r
  <2>3. QED
    BY <1>1, <1>6, <2>1, <2>2
<1>7. ASSUME NEW n \in Client, PullSend(n) PROVE Sent
  <2> DEFINE r == [kind |-> "export", client |-> n, env |-> Empty, ok |-> TRUE, open |-> TRUE]
  <2>1. r.kind = "export"
    OBVIOUS
  <2>2. m \in wire \/ m = r
    BY <1>7 DEF PullSend
  <2> HIDE DEF r
  <2>3. QED
    BY <1>1, <2>1, <2>2
<1>8. ASSUME NEW k \in wire, HubExports(k) PROVE Sent
  <2> DEFINE r == [k EXCEPT !.kind = "exported", !.env = [Empty EXCEPT !.items = ItemsOf(Hub, Category)]]
  <2>1. r.kind = "exported" /\ r.env.items = ItemsOf(Hub, Category)
    BY DEF TypeOK, Message, Empty
  <2>2. m \in wire \/ m = r
    BY <1>8 DEF HubExports
  <2> HIDE DEF r
  <2>3. QED
    BY <1>1, <2>1, <2>2
<1>9. ASSUME NEW k \in wire, HubImports(k) \/ PullArrives(k) \/ PushDone(k) \/ LoseRequest(k)
      PROVE  wire' \subseteq wire
  BY <1>9 DEF HubImports, PullArrives, StartJob, PushDone, LoseRequest
<1>10. ASSUME NEW n \in Client, Timeout(n) \/ CrashClient(n) PROVE Sent
  <2>1. PICK k \in wire :
          /\ m.env = k.env /\ m.kind = k.kind /\ m.client = k.client
          /\ IF k.client = n THEN ~m.open /\ k.kind \in {"import", "export"} ELSE m = k
    BY <1>10, ClientGivesUp
  <2>2. QED
    BY <1>1, <2>1
<1> HIDE DEF Sent
<1>11. Sent
  BY <1>1, <1>2, <1>3, <1>4, <1>5, <1>6, <1>7, <1>8, <1>9, <1>10, Constants DEF Next, Apply, Serve, Receive
<1>12. QED
  BY <1>11 DEF Sent

\* Which steps start a job, take up or finish an entry, and what they leave of the others.
LEMMA Jobs ==
  ASSUME TypeOK, JobInv, Next, NEW n \in Node
  PROVE  \/ job'[n] = job[n]
         \/ job'[n].env = job[n].env /\ job'[n].stage = job[n].stage /\ job'[n].item = job[n].item
              /\ job'[n].cat = job[n].cat /\ job'[n].failed = job[n].failed /\ ~job'[n].open
         \/ job'[n] = FreeJob
         \/ Decide(n) \/ Upsert(n) \/ ApplyDeletion(n) \/ ClearApplied(n) \/ EntryFails(n)
         \/ \E m \in wire :
              /\ job'[n].env = m.env /\ job'[n].client = m.client /\ job'[n].open = m.open
              /\ job'[n].stage = "deciding"
              /\ m.kind = IF n = Hub THEN "import" ELSE "exported"
<1>1. ASSUME NEW k \in Node, NEW c \in Category, Write(k, c) \/ Delete(k, c) PROVE job' = job
  BY <1>1 DEF Write, Delete
<1>2. ASSUME NEW k \in Node \ {n}, Decide(k) \/ Upsert(k) \/ ApplyDeletion(k) \/ ClearApplied(k) \/ EntryFails(k)
      PROVE  job'[n] = job[n]
  BY <1>2, JobGoesOn
<1>3. ASSUME NEW k \in Node, FinishJob(k) \/ ClearFails(k) \/ (k = Hub /\ CrashHub)
      PROVE  job'[n] = FreeJob \/ job'[n] = job[n]
  BY <1>3, JobEnds
<1>4. ASSUME NEW k \in Client, PushExport(k) \/ PushSend(k) \/ PullSend(k) PROVE job' = job
  BY <1>4 DEF PushExport, PushSend, PullSend
<1>5. ASSUME NEW m \in wire, HubExports(m) \/ PushDone(m) \/ LoseRequest(m) PROVE job' = job
  BY <1>5 DEF HubExports, PushDone, LoseRequest
<1>6. ASSUME NEW m \in wire, HubImports(m) \/ PullArrives(m)
      PROVE  \/ job'[n] = job[n]
             \/ /\ job'[n].env = m.env /\ job'[n].client = m.client /\ job'[n].open = m.open
                /\ job'[n].stage = "deciding"
                /\ m.kind = IF n = Hub THEN "import" ELSE "exported"
  <2>1. PICK k \in Node : StartJob(k, m) /\ m.kind = IF k = Hub THEN "import" ELSE "exported"
    BY <1>6, Constants DEF HubImports, PullArrives, TypeOK, Message
  <2>2. job'[k] = [FreeJob EXCEPT !.stage = "deciding", !.env = m.env, !.client = m.client, !.open = m.open]
        /\ (k # n => job'[n] = job[n])
    BY <2>1 DEF StartJob, TypeOK
  <2>3. job'[k].env = m.env /\ job'[k].client = m.client /\ job'[k].open = m.open /\ job'[k].stage = "deciding"
    BY <2>2 DEF FreeJob
  <2>4. QED
    BY <2>1, <2>2, <2>3
<1>7. ASSUME NEW k \in Client, Timeout(k) \/ CrashClient(k)
      PROVE  \/ job'[n] = job[n] \/ job'[n] = FreeJob
             \/ /\ job'[n].env = job[n].env /\ job'[n].stage = job[n].stage /\ job'[n].item = job[n].item
                /\ job'[n].cat = job[n].cat /\ job'[n].failed = job[n].failed /\ ~job'[n].open
  BY <1>7, ClientGivesUp
<1>8. QED
  BY <1>1, <1>2, <1>3, <1>4, <1>5, <1>6, <1>7, Constants DEF Next, Apply, Serve, Receive

\* Which steps a device's push advances by.
LEMMA Pushes ==
  ASSUME TypeOK, JobInv, Next, NEW n \in Client
  PROVE  /\ sync'[n].pc = "exported" => PushExport(n) \/ sync'[n] = sync[n]
         /\ sync'[n].pc = "pushing" => PushSend(n) \/ sync'[n] = sync[n]
<1>1. ASSUME NEW k \in Node, NEW c \in Category, Write(k, c) \/ Delete(k, c) PROVE sync' = sync
  BY <1>1 DEF Write, Delete
<1>2. ASSUME NEW k \in Node, Decide(k) \/ Upsert(k) \/ ApplyDeletion(k) \/ ClearApplied(k) \/ EntryFails(k)
      PROVE  sync' = sync
  BY <1>2, JobGoesOn
<1>3. ASSUME NEW k \in Node, FinishJob(k) \/ ClearFails(k) \/ (k = Hub /\ CrashHub)
      PROVE  sync'[n] = Idle \/ sync'[n] = sync[n]
  BY <1>3, JobEnds
<1>4. ASSUME NEW k \in Client, PushExport(k) \/ PushSend(k) \/ PullSend(k), k # n PROVE sync'[n] = sync[n]
  BY <1>4, ClientGoesOn
<1>5. PushExport(n) => sync'[n].pc = "exported"
  BY ClientGoesOn
<1>6. PullSend(n) => sync'[n].pc = "pulling"
  BY ClientGoesOn
<1>7. PushSend(n) => sync'[n].pc = "pushing"
  BY ClientGoesOn
<1>8. ASSUME NEW m \in wire, HubExports(m) \/ HubImports(m) \/ PullArrives(m) \/ LoseRequest(m) PROVE sync' = sync
  BY <1>8 DEF HubExports, HubImports, PullArrives, StartJob, LoseRequest
<1>9. ASSUME NEW m \in wire, PushDone(m) PROVE sync'[n] = Idle \/ sync'[n] = sync[n]
  BY <1>9 DEF PushDone, TypeOK
<1>10. ASSUME NEW k \in Client, Timeout(k) \/ CrashClient(k) PROVE sync'[n] = Idle \/ sync'[n] = sync[n]
  BY <1>10, ClientGivesUp
<1>11. QED
  BY <1>1, <1>2, <1>3, <1>4, <1>5, <1>6, <1>7, <1>8, <1>9, <1>10, Constants, Empties DEF Next, Apply, Serve, Receive

\* The hub sends only what it holds, and holds only what it wrote or took in.
LEMMA HubKeepsOffering ==
  ASSUME TypeOK, TypeOK', JobInv, HubOffers, Next
  PROVE  HubOffers'
<1>1. ASSUME NEW c \in Category PROVE row'[Hub][c] \in offered'[c] \cup {Absent}
  <2> DEFINE R == row'[Hub][c] \in offered'[c] \cup {Absent}
  <2>1. ASSUME row'[Hub][c] \in {row[Hub][c], Absent} PROVE R
    BY <2>1, OfferedGrows DEF HubOffers
  <2>2. ASSUME row'[Hub] = row[Hub] PROVE R
    BY <2>1, <2>2
  <2>3. ASSUME NEW d \in Category, Write(Hub, d) PROVE R
    <3>1. c # d => row'[Hub][c] = row[Hub][c]
      BY <2>3, Constants DEF Write, TypeOK
    <3>2. offered' = [offered EXCEPT ![d] = @ \cup {row'[Hub][d]}]
      BY <2>3 DEF Write
    <3>3. c = d => row'[Hub][c] \in offered'[c]
      BY <3>2 DEF TypeOK
    <3>4. QED
      BY <2>1, <3>1, <3>3
  <2>4. ASSUME NEW d \in Category, Remove(Hub, d) PROVE R
    BY <2>1, <2>4, Constants DEF Remove, TypeOK
  <2>5. ASSUME Upsert(Hub) PROVE R
    <3>1. /\ row' = [row EXCEPT ![Hub][job[Hub].item.cat] = job[Hub].item.version]
          /\ offered' = [offered EXCEPT ![job[Hub].item.cat] = @ \cup {job[Hub].item.version}]
      BY <2>5 DEF Upsert, Offered
    <3>2. c # job[Hub].item.cat => row'[Hub][c] = row[Hub][c]
      BY <3>1, Constants DEF TypeOK
    <3>3. c = job[Hub].item.cat => row'[Hub][c] \in offered'[c]
      BY <3>1, Constants DEF TypeOK
    <3>4. QED
      BY <2>1, <3>2, <3>3
  <2>6. ASSUME NEW d \in Category, Delete(Hub, d) PROVE Remove(Hub, d)
    BY <2>6 DEF Delete
  <2>7. ASSUME ApplyDeletion(Hub) PROVE \E d \in Category : Remove(Hub, d)
    BY <2>7, JobOfDeletion, Constants
  <2>8. ASSUME ClearApplied(Hub) PROVE row' = row
    BY <2>8 DEF ClearApplied
  <2>9. ASSUME NEW m \in wire, PushDone(m) PROVE row' = row
    BY <2>9 DEF PushDone
  <2> HIDE DEF R
  <2>10. R
    BY <2>2, <2>3, <2>4, <2>5, <2>6, <2>7, <2>8, <2>9, LocalChanges, Constants
  <2>11. QED
    BY <2>10 DEF R
<1>2. ASSUME NEW i \in Item, i.version \in offered[i.cat] PROVE i.version \in offered'[i.cat]
  BY <1>2, OfferedGrows DEF Item
<1>3. \A i \in ItemsOf(Hub, Category) : i \in Item /\ i.version \in offered[i.cat]
  BY Constants, ExportedItems DEF ItemsOf, HubOffers, TypeOK
<1>4. ASSUME NEW m \in wire', m.kind = "exported", NEW i \in m.env.items PROVE i.version \in offered'[i.cat]
  <2>1. i \in Item
    BY DEF TypeOK, Message, Envelope
  <2>2. CASE m.env.items = ItemsOf(Hub, Category)
    BY <1>2, <1>3, <2>1, <2>2
  <2>3. CASE \E k \in wire : k.kind = "exported" /\ k.env = m.env
    BY <1>2, <2>1, <2>3 DEF HubOffers
  <2>4. QED
    BY <1>4, <2>2, <2>3, Messages
<1>5. ASSUME NEW n \in Client, NEW i \in job'[n].env.items PROVE i.version \in offered'[i.cat]
  <2>1. i \in Item /\ n \in Node /\ n # Hub
    BY Constants DEF TypeOK, Job, Envelope
  <2>2. i \in job[n].env.items \/ \E m \in wire : m.kind = "exported" /\ i \in m.env.items
    BY <2>1, Jobs, JobGoesOn, Empties
  <2>3. QED
    BY <1>2, <2>1, <2>2 DEF HubOffers
<1>6. QED
  BY <1>1, <1>4, <1>5 DEF HubOffers

\* The device's own writers and what it pushes do not get in each other's way.
PushAssumption == Client \subseteq Quiet /\ Shared \cap Client = {} /\ Broken = {}

\* Local writes queue, imports bring what the hub has, and an answer clears what it covers.
LEMMA QueueIsKept ==
  ASSUME PushAssumption, TypeOK, TypeOK', JobInv, RequestInv, HubOffers, QueueInv, AnswerInv, Next
  PROVE  QueueInv'
<1> SUFFICES ASSUME NEW n \in Client, NEW c \in Category, row'[n][c] # Absent
             PROVE  /\ row'[n][c].by = n /\ dirty'[n][c] # "upsert" => row'[n][c] \in offered'[c]
                    /\ dirty'[n][c] = "upsert" /\ sync'[n].pc \in {"exported", "pushing"} =>
                         \E i \in sync'[n].env.items : i.cat = c /\ i.version = row'[n][c]
                    /\ job'[n].stage = "clearing" /\ job'[n].cat = c => row'[n][c] \in offered'[c] \cup {Absent}
  BY DEF QueueInv
<1> n \in Node /\ n # Hub
  BY Constants
<1>1. ASSUME NEW d \in Category, Write(n, d) \/ Delete(n, d)
      PROVE  job[n].stage = "free" /\ job' = job /\ sync' = sync /\ sync[n].pc \notin {"exported", "pushing"}
  BY <1>1 DEF Write, Delete, MayWrite, PushAssumption
<1>2. ASSUME Upsert(n) \/ ApplyDeletion(n) \/ ClearApplied(n) PROVE sync'[n].pc = "pulling"
  BY <1>2, JobGoesOn DEF RequestInv
<1>3. ASSUME NEW m \in wire, PushDone(m), m.client = n
      PROVE  /\ sync'[n] = Idle /\ row' = row /\ job' = job
             /\ \A d \in Category : dirty'[n][d] = IF m.ok /\ d \in sync[n].names THEN "clean" ELSE dirty[n][d]
             /\ m.kind = "imported"
  BY <1>3 DEF PushDone, TypeOK
<1>4. offered[c] \subseteq offered'[c]
  BY OfferedGrows
<1>5. ASSUME row'[n][c].by = n, dirty'[n][c] # "upsert" PROVE row'[n][c] \in offered'[c]
  <2>1. CASE row'[n][c] = row[n][c] /\ dirty'[n][c] = dirty[n][c]
    BY <1>4, <1>5, <2>1 DEF QueueInv
  <2>2. ASSUME NEW d \in Category, Write(n, d) \/ Delete(n, d)
        PROVE  row'[n][c] \in offered'[c]
    <3>1. CASE d = c
      BY <1>5, <2>2, <3>1 DEF Write, Delete, Remove, TypeOK
    <3>2. CASE d # c
      BY <2>1, <2>2, <3>2 DEF Write, Delete, Remove, TypeOK
    <3>3. QED
      BY <3>1, <3>2
  <2>3. ASSUME Upsert(n) PROVE row'[n][c] \in offered'[c]
    <3>1. /\ row' = [row EXCEPT ![n][job[n].item.cat] = job[n].item.version] /\ dirty' = dirty
          /\ job[n].item \in job[n].env.items
      BY <2>3, JobOfUpsert DEF Upsert
    <3>2. CASE c = job[n].item.cat
      BY <1>4, <3>1, <3>2 DEF TypeOK, HubOffers
    <3>3. CASE c # job[n].item.cat
      BY <2>1, <3>1, <3>3 DEF TypeOK
    <3>4. QED
      BY <3>2, <3>3
  <2>4. ASSUME ApplyDeletion(n) PROVE row'[n][c] \in offered'[c]
    <3>1. PICK d \in Category : Remove(n, d)
      BY <2>4, JobOfDeletion
    <3>2. d # c
      BY <3>1 DEF Remove, TypeOK
    <3>3. QED
      BY <2>1, <3>1, <3>2 DEF Remove, TypeOK
  <2>5. ASSUME ClearApplied(n) PROVE row'[n][c] \in offered'[c]
    <3>1. row' = row /\ dirty' = [dirty EXCEPT ![n][job[n].cat] = "clean"] /\ job[n].stage = "clearing"
      BY <2>5, JobOfClear
    <3>2. CASE c = job[n].cat
      BY <1>4, <3>1, <3>2 DEF QueueInv
    <3>3. CASE c # job[n].cat
      BY <2>1, <3>1, <3>3 DEF TypeOK
    <3>4. QED
      BY <3>2, <3>3
  <2>6. ASSUME NEW m \in wire, m.client = n, PushDone(m) PROVE row'[n][c] \in offered'[c]
    <3>1. CASE dirty'[n][c] = dirty[n][c]
      BY <1>3, <2>1, <2>6, <3>1
    <3>2. CASE dirty'[n][c] # dirty[n][c]
      <4>1. m.ok /\ m.kind = "imported" /\ row'[n][c] = row[n][c]
        BY <1>3, <2>6, <3>2
      <4>2. sync[n].pc = "pushing"
        BY <2>6 DEF PushDone
      <4>3. CASE dirty[n][c] = "upsert"
        <5>1. PICK i \in sync[n].env.items : i.cat = c /\ i.version = row[n][c]
          BY <4>1, <4>2, <4>3 DEF QueueInv
        <5>2. i.version \in offered[i.cat]
          BY <2>6, <4>1 DEF AnswerInv
        <5>3. QED
          BY <1>4, <4>1, <5>1, <5>2
      <4>4. CASE dirty[n][c] # "upsert"
        BY <1>4, <1>5, <4>1, <4>4 DEF QueueInv
      <4>5. QED
        BY <4>3, <4>4
    <3>3. QED
      BY <3>1, <3>2
  <2>7. QED
    BY <2>1, <2>2, <2>3, <2>4, <2>5, <2>6, LocalChanges
<1>6. ASSUME dirty'[n][c] = "upsert", sync'[n].pc \in {"exported", "pushing"}
      PROVE  \E i \in sync'[n].env.items : i.cat = c /\ i.version = row'[n][c]
  <2>1. CASE PushExport(n)
    <3>1. sync'[n].env = DirtyEnvelope(n) /\ UNCHANGED <<row, dirty>>
      BY <2>1, ClientGoesOn DEF PushExport
    <3>2. [cat |-> c, version |-> row[n][c], hash |-> HashOn(n, row[n][c].body)] \in DirtyEnvelope(n).items
      BY <1>6, <3>1 DEF DirtyEnvelope, ItemsOf, PushAssumption
    <3>3. QED
      BY <3>1, <3>2
  <2>2. CASE PushSend(n)
    <3>1. sync'[n].env = sync[n].env /\ sync[n].pc = "exported" /\ UNCHANGED <<row, dirty>>
      BY <2>2, ClientGoesOn DEF PushSend
    <3>2. QED
      BY <1>6, <3>1 DEF QueueInv
  <2>3. CASE sync'[n] = sync[n]
    <3>1. row'[n] = row[n] /\ dirty'[n] = dirty[n]
      BY <1>1, <1>2, <1>3, <1>6, <2>3, LocalChanges, Empties
    <3>2. QED
      BY <1>6, <2>3, <3>1 DEF QueueInv
  <2>4. QED
    BY <1>6, <2>1, <2>2, <2>3, Pushes
<1>7. ASSUME job'[n].stage = "clearing", job'[n].cat = c
      PROVE  row'[n][c] \in offered'[c] \cup {Absent}
  <2>1. CASE Upsert(n)
    <3>1. /\ row' = [row EXCEPT ![n][job[n].item.cat] = job[n].item.version]
          /\ job[n].item \in job[n].env.items /\ c = job[n].item.cat
      BY <1>7, <2>1, JobOfUpsert DEF Upsert
    <3>2. QED
      BY <1>4, <3>1 DEF TypeOK, HubOffers
  <2>2. CASE ApplyDeletion(n)
    <3>1. Remove(n, c)
      BY <1>7, <2>2, JobOfDeletion
    <3>2. QED
      BY <3>1 DEF Remove, TypeOK
  <2>3. CASE job[n].stage = "clearing" /\ job[n].cat = c
    <3>1. row'[n] = row[n]
      <4>1. ~Upsert(n) /\ ~ApplyDeletion(n)
        BY <2>3 DEF Upsert, ApplyDeletion
      <4>2. ClearApplied(n) => row' = row
        BY DEF ClearApplied
      <4>3. QED
        BY <1>1, <1>3, <2>3, <4>1, <4>2, LocalChanges
    <3>2. QED
      BY <1>4, <2>3, <3>1 DEF QueueInv
  <2>4. QED
    <3>1. ~Decide(n) /\ ~ClearApplied(n) /\ ~EntryFails(n)
      BY <1>7, JobOfDecide, JobOfClear, JobOfFailure
    <3>2. QED
      BY <1>7, <2>1, <2>2, <2>3, <3>1, Jobs, Empties
<1>8. QED
  BY <1>5, <1>6, <1>7

\* While a device waits for the hub, the envelope it has sent does not change.
LEMMA EnvelopeStays ==
  ASSUME TypeOK, JobInv, Next, NEW n \in Client, sync'[n].pc = "pushing"
  PROVE  sync'[n].env = sync[n].env
BY Pushes, ClientGoesOn

\* The hub says that it has dealt with an envelope only when it has ruled on each entry.
LEMMA AnswersAreTrue ==
  ASSUME TypeOK, TypeOK', JobInv, RequestInv, RequestInv', AnswerInv, Next
  PROVE  AnswerInv'
<1> Hub \in Node /\ Hub \notin Client /\ \A n \in Client : n \in Node
  BY Constants
<1>1. ASSUME NEW i \in Item, i.version \in offered[i.cat] PROVE i.version \in offered'[i.cat]
  BY <1>1, OfferedGrows DEF Item
<1>2. \A n \in Client : sync[n].env.items \subseteq Item /\ sync'[n].env.items \subseteq Item
  BY DEF TypeOK, Sync, Envelope
<1>3. ASSUME NEW m \in wire', m.kind = "import", m.open PROVE m.env = sync'[m.client].env
  <2>1. m.client \in Client /\ sync'[m.client].pc = "pushing"
    BY <1>3 DEF RequestInv, Waiting, TypeOK, Message
  <2>2. sync'[m.client].env = sync[m.client].env
    BY <2>1, EnvelopeStays
  <2>3. m.env = sync[m.client].env
    BY <1>3, Messages DEF AnswerInv
  <2>4. QED
    BY <2>2, <2>3
<1>4. ASSUME NEW m \in wire', m.kind = "imported", m.ok, NEW i \in sync'[m.client].env.items
      PROVE  i.version \in offered'[i.cat]
  <2>1. m.client \in Client /\ sync'[m.client].pc = "pushing"
    BY <1>4 DEF RequestInv, Waiting, TypeOK, Message
  <2>2. i \in sync[m.client].env.items /\ i \in Item
    BY <1>2, <1>4, <2>1, EnvelopeStays
  <2>3. CASE m \in wire
    BY <1>1, <1>4, <2>2, <2>3 DEF AnswerInv
  <2>4. CASE Awaited(m.client) /\ ~job[Hub].failed /\ job[Hub].env.items = {}
    BY <1>1, <2>1, <2>2, <2>4 DEF AnswerInv
  <2>5. QED
    BY <1>4, <2>3, <2>4, Messages
<1>6. ASSUME Upsert(Hub) PROVE job[Hub].item.version \in offered'[job[Hub].item.cat]
  <2>1. offered' = [offered EXCEPT ![job[Hub].item.cat] = @ \cup {job[Hub].item.version}] /\ job[Hub].item.cat \in Category
    BY <1>6, JobOfUpsert DEF Upsert, Offered, Item
  <2>2. QED
    BY <2>1 DEF TypeOK
<1>7. ASSUME job'[Hub].stage = "clearing", job'[Hub].item # Absent
      PROVE  job'[Hub].item.version \in offered'[job'[Hub].item.cat]
  <2>1. CASE Upsert(Hub)
    BY <1>6, <2>1, JobOfUpsert
  <2>2. ~ApplyDeletion(Hub) /\ ~Decide(Hub) /\ ~ClearApplied(Hub) /\ ~EntryFails(Hub)
    BY <1>7, JobOfDeletion, JobOfDecide, JobOfClear, JobOfFailure
  <2>3. CASE job[Hub].stage = "clearing" /\ job'[Hub].item = job[Hub].item
    <3>1. job[Hub].item \in Item
      BY <1>7, <2>3 DEF JobInv, TypeOK, Job, Envelope
    <3>2. QED
      BY <1>1, <1>7, <2>3, <3>1 DEF AnswerInv
  <2>4. QED
    BY <1>7, <2>1, <2>2, <2>3, Jobs, Empties
<1>8. ASSUME NEW n \in Client, Awaited(n)', ~job'[Hub].failed,
             NEW i \in sync'[n].env.items, i \notin job'[Hub].env.items
      PROVE  i.version \in offered'[i.cat]
  <2>1. sync'[n].pc = "pushing" /\ i \in sync[n].env.items /\ i \in Item
    BY <1>2, <1>8, EnvelopeStays DEF RequestInv
  <2>2. ASSUME Awaited(n), ~job[Hub].failed, i \notin job[Hub].env.items PROVE i.version \in offered'[i.cat]
    BY <1>1, <2>1, <2>2 DEF AnswerInv
  <2>3. CASE job'[Hub] = job[Hub]
    BY <1>8, <2>2, <2>3 DEF Awaited
  <2>4. ASSUME NEW m \in wire, job'[Hub].env = m.env, job'[Hub].client = m.client, job'[Hub].open = m.open,
               m.kind = "import"
        PROVE  FALSE
    BY <1>8, <2>1, <2>4 DEF AnswerInv, Awaited
  <2>5. CASE Decide(Hub)
    <3>1. Awaited(n) /\ ~job[Hub].failed
      BY <1>8, <2>5, JobOfDecide DEF Awaited, SameRequest
    <3>2. PICK e \in job[Hub].env.items :
            \/ job'[Hub].env = job[Hub].env
            \/ job'[Hub].env.items = job[Hub].env.items \ {e} /\ Offered(Hub, e)
      BY <2>5, JobOfDecide
    <3>3. CASE i = e /\ Offered(Hub, e)
      BY <2>1, <3>3 DEF Offered, TypeOK, Item
    <3>4. QED
      BY <1>8, <2>2, <3>1, <3>2, <3>3
  <2>6. CASE Upsert(Hub) \/ ApplyDeletion(Hub)
    <3>1. Awaited(n) /\ ~job[Hub].failed /\ job'[Hub].env = job[Hub].env
      BY <1>8, <2>6, JobOfUpsert, JobOfDeletion DEF Awaited, SameRequest
    <3>2. QED
      BY <1>8, <2>2, <3>1
  <2>7. CASE ClearApplied(Hub)
    <3>1. Awaited(n) /\ ~job[Hub].failed
      BY <1>8, <2>7, JobOfClear DEF Awaited
    <3>2. CASE job[Hub].item # Absent /\ i = job[Hub].item
      BY <1>1, <2>1, <2>7, <3>2, JobOfClear DEF AnswerInv
    <3>3. CASE job'[Hub].env.items = job[Hub].env.items \/ (job'[Hub].env.items = job[Hub].env.items \ {job[Hub].item} /\ i # job[Hub].item)
      BY <1>8, <2>2, <3>1, <3>3
    <3>4. QED
      BY <2>7, <3>2, <3>3, JobOfClear
  <2>8. ~EntryFails(Hub)
    BY <1>8, JobOfFailure
  <2>9. job'[Hub].open /\ job'[Hub].stage # "free"
    BY <1>8 DEF Awaited
  <2>10. QED
    BY <2>3, <2>4, <2>5, <2>6, <2>7, <2>8, <2>9, Jobs, Empties
<1>9. QED
  BY <1>3, <1>4, <1>7, <1>8 DEF AnswerInv

\* Under PushAssumption the queue, the envelope on its way and the answer agree on what the
\* hub has ruled on (push_dirty, memory_sync, handle_sync_import).
THEOREM OffersAreKept ==
  ASSUME PushAssumption
  PROVE  Spec => [](BasicInv /\ OfferInv)
<1>1. Init => OfferInv
  <2> SUFFICES ASSUME Init PROVE OfferInv
    OBVIOUS
  <2>1. /\ wire = {} /\ \A n \in Node : job[n] = FreeJob /\ \A c \in Category : row[n][c] = Absent
        /\ Hub \in Node /\ \A n \in Client : n \in Node
    BY Constants DEF Init
  <2>2. QED
    BY <2>1, Empties DEF OfferInv, RequestInv, HubOffers, QueueInv, AnswerInv, Awaited
<1>2. BasicInv /\ BasicInv' /\ OfferInv /\ [Next]_vars => OfferInv'
  <2> SUFFICES ASSUME BasicInv, BasicInv', OfferInv, [Next]_vars PROVE OfferInv'
    OBVIOUS
  <2>1. CASE Next
    BY <2>1, RequestsStand, HubKeepsOffering, QueueIsKept, AnswersAreTrue DEF BasicInv, OfferInv
  <2>2. CASE UNCHANGED vars
    BY <2>2 DEF vars, OfferInv, RequestInv, HubOffers, QueueInv, AnswerInv, Awaited
  <2>3. QED
    BY <2>1, <2>2
<1>3. QED
  BY <1>1, <1>2, SyncInvariant, PTL DEF Spec

\* A device's own version leaves sync_dirty only once the hub has ruled on it, provided the
\* device does not write between the export and the answer and can read what it exports.
THEOREM QueuedUntilOffered ==
  ASSUME PushAssumption
  PROVE  Spec => []DirtyUntilOffered
<1>1. OfferInv => DirtyUntilOffered
  BY DEF OfferInv, QueueInv, DirtyUntilOffered
<1>2. QED
  BY <1>1, OffersAreKept, PTL
=============================================================================
