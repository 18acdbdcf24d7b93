--------------------------- MODULE ActivityIngest ---------------------------
(***************************************************************************)
(* How the server takes activity events in (activity.service.ts): a batch  *)
(* is accepted or refused by the monitoring configuration, read through a  *)
(* cache; accepted events wait in memory, in one array per user; a timer   *)
(* flushes them to the database every ten seconds, whether or not the last *)
(* flush has ended.                                                        *)
(*                                                                         *)
(* The server is one thread: what it does between two awaits is one step.  *)
(* The arrays are JavaScript objects with an identity of their own: a      *)
(* flush keeps hold of the array it drained even when the map has come to  *)
(* hold another one.  The order of the events within an array is left out: *)
(* it decides nothing.                                                     *)
(***************************************************************************)
EXTENDS Naturals, FiniteSets, SequencesExt

CONSTANTS Users,
          Events,        \* the events there are
          MaxSent,       \* bound: how many of them are ever sent
          OwnerOf,       \* [Events -> Users], whose event it is
          Refused,       \* events no insert takes: a coordinate that the
                         \* column cannot hold, an account that is gone
          Requests,      \* bound: batches served at the same time
          Cycles,        \* bound: flushes running at the same time
          Admins,        \* bound: configuration updates at the same time
          Nobody, NoArray

ASSUME OwnerAssumption == OwnerOf \in [Events -> Users]
ASSUME RefusedAssumption == Refused \subseteq Events
ASSUME SmallAssumption ==
  IsFiniteSet(Users) /\ IsFiniteSet(Cycles) /\ IsFiniteSet(Events) /\ MaxSent \in Nat
ASSUME NoneAssumption == Nobody \notin Users /\ NoArray \notin Nat

\* Enough identities: every array is in the map or drained by a cycle.
Arrays == 1 .. (Cardinality(Users) + Cardinality(Cycles))

VARIABLES keys,      \* the users in eventBuffer, in order of insertion
          entry,     \* the array eventBuffer holds for a user
          content,   \* what is in an array
          cycle,     \* the runs of flushEventBuffer under way
          copies,    \* how often an event is in the ActivityEvent table
          config,    \* isMonitoringEnabled of MonitoringConfig, or "none"
          cache,     \* configCache
          req,       \* batches being served
          update,    \* configuration updates: whose cache entry they delete
          sent,      \* history: the events that were sent
          unsure,    \* history: stored, but the call failed all the same
          excused    \* history: users whose cache was filled or left late

buffer == <<keys, entry, content, cycle, copies>>
policy == <<config, cache, update>>
vars == <<keys, entry, content, cycle, copies, config, cache, req, update,
          sent, unsure, excused>>

Setting == {"on", "off"}

Idle == [user |-> Nobody, array |-> NoArray, batch |-> {}, stored |-> FALSE,
         crossed |-> FALSE, todo |-> {}]

Free == [pc |-> "free", user |-> Nobody, events |-> {}, row |-> "none"]

TypeOK ==
  /\ keys \in Seq(Users)
  /\ entry \in [Users -> Arrays \cup {NoArray}]
  /\ content \in [Arrays -> SUBSET Events]
  /\ cycle \in [Cycles -> [user : Users \cup {Nobody},
                           array : Arrays \cup {NoArray},
                           batch : SUBSET Events, stored : BOOLEAN,
                           crossed : BOOLEAN, todo : SUBSET Users]]
  /\ copies \in [Events -> 0 .. 2]
  /\ config \in [Users -> Setting \cup {"none"}]
  /\ cache \in [Users -> Setting \cup {"none"}]
  /\ req \in [Requests -> [pc : {"free", "find", "use"},
                           user : Users \cup {Nobody},
                           events : SUBSET Events,
                           row : Setting \cup {"none"}]]
  /\ update \in [Admins -> Users \cup {Nobody}]
  /\ sent \subseteq Events /\ unsure \subseteq Events
  /\ excused \subseteq Users

Init ==
  /\ keys = <<>>
  /\ entry = [u \in Users |-> NoArray]
  /\ content = [a \in Arrays |-> {}]
  /\ cycle = [c \in Cycles |-> Idle]
  /\ copies = [e \in Events |-> 0]
  /\ config \in [Users -> Setting \cup {"none"}]
  /\ cache = [u \in Users |-> "none"]
  /\ req = [r \in Requests |-> Free]
  /\ update = [a \in Admins |-> Nobody]
  /\ sent = {} /\ unsure = {} /\ excused = {}

Running == {c \in Cycles : cycle[c].user # Nobody}

-----------------------------------------------------------------------------
(* Batches.                                                                *)

Unused == Arrays \ ({entry[u] : u \in Users} \cup {cycle[c].array : c \in Cycles})

\* Mutant: without the look whether the user is in the map.
BufferActivityEvents_Unchecked(u, es) ==
  LET a == CHOOSE a \in Unused : TRUE
  IN  /\ keys' = Append(keys, u)
      /\ entry' = [entry EXCEPT ![u] = a]
      /\ content' = [content EXCEPT ![a] = es]
      /\ UNCHANGED <<cycle, copies>>

\* A user new to the map goes to its end, where every running iteration over
\* the map will still come to it.
BufferActivityEvents(u, es) ==
  /\ IF entry[u] # NoArray
       THEN /\ content' = [content EXCEPT ![entry[u]] = @ \cup es]
            /\ UNCHANGED <<keys, entry, cycle>>
       ELSE LET a == CHOOSE a \in Unused : TRUE
            IN  /\ keys' = Append(keys, u)
                /\ entry' = [entry EXCEPT ![u] = a]
                /\ content' = [content EXCEPT ![a] = es]
                /\ cycle' = [c \in Cycles |->
                     IF c \in Running
                       THEN [cycle[c] EXCEPT !.todo = @ \cup {u}] ELSE cycle[c]]
  /\ UNCHANGED copies

Decide(u, es, setting) ==
  IF setting = "on" THEN BufferActivityEvents(u, es) ELSE UNCHANGED buffer

\* The stamp of lastActivityAt has been written; a fresh cache entry decides
\* at once, without another call.
LogBatch(r, u, es) ==
  /\ req[r].pc = "free"
  /\ es # {} /\ es \cap sent = {} /\ \A e \in es : OwnerOf[e] = u
  /\ Cardinality(sent \cup es) <= MaxSent
  /\ sent' = sent \cup es
  /\ IF cache[u] # "none"
       THEN Decide(u, es, cache[u]) /\ UNCHANGED req
       ELSE /\ req' = [req EXCEPT ![r] =
                         [pc |-> "find", user |-> u, events |-> es, row |-> "none"]]
            /\ UNCHANGED buffer
  /\ UNCHANGED <<policy, unsure, excused>>

\* The configuration is also read for a dashboard or a status: such a reader
\* fills the cache like any other, and has no events to keep.
GetMonitoringConfig(r, u) ==
  /\ req[r].pc = "free" /\ cache[u] = "none"
  /\ req' = [req EXCEPT ![r] =
               [pc |-> "find", user |-> u, events |-> {}, row |-> "none"]]
  /\ UNCHANGED <<buffer, policy, sent, unsure, excused>>

\* findUnique has read the row; create writes one with monitoring on.
ReadConfig(r) ==
  /\ req[r].pc = "find" /\ config[req[r].user] # "none"
  /\ req' = [req EXCEPT ![r].pc = "use", ![r].row = config[req[r].user]]
  /\ UNCHANGED <<buffer, policy, sent, unsure, excused>>

ReadNoConfig(r) ==
  /\ req[r].pc = "find" /\ config[req[r].user] = "none"
  /\ req' = [req EXCEPT ![r].pc = "use"]
  /\ UNCHANGED <<buffer, policy, sent, unsure, excused>>

CreateConfig(r) ==
  LET u == req[r].user
  IN  /\ req[r].pc = "use" /\ req[r].row = "none" /\ config[u] = "none"
      /\ config' = [config EXCEPT ![u] = "on"]
      /\ req' = [req EXCEPT ![r].row = "on"]
      /\ UNCHANGED <<buffer, cache, update, sent, unsure, excused>>

UseConfig(r) ==
  LET u == req[r].user
  IN  /\ req[r].pc = "use" /\ req[r].row # "none"
      /\ cache' = [cache EXCEPT ![u] = req[r].row]
      /\ excused' = IF config[u] = req[r].row THEN excused \ {u} ELSE excused \cup {u}
      /\ IF req[r].events = {} THEN UNCHANGED buffer
         ELSE Decide(u, req[r].events, req[r].row)
      /\ req' = [req EXCEPT ![r] = Free]
      /\ UNCHANGED <<config, update, sent, unsure>>

\* A call rejects (a second create of the same row always does): the batch is
\* answered with an error and nothing is kept.
RejectBatch(r) ==
  /\ req[r].pc # "free"
  /\ req' = [req EXCEPT ![r] = Free]
  /\ UNCHANGED <<buffer, policy, sent, unsure, excused>>

-----------------------------------------------------------------------------
(* The configuration.  The row is written, then the cache entry deleted.   *)

UpsertConfig(a, u, setting) ==
  /\ update[a] = Nobody
  /\ config' = [config EXCEPT ![u] = setting]
  /\ update' = [update EXCEPT ![a] = u]
  /\ UNCHANGED <<buffer, cache, req, sent, unsure, excused>>

ToggleEmployeeMonitoring(a, u) ==
  \E enabled \in Setting : UpsertConfig(a, u, enabled)

\* isMonitoringEnabled may be missing from the update: a new row has it on.
UpdateMonitoringConfig(a, u) ==
  \E given \in Setting \cup {"missing"} :
    UpsertConfig(a, u, IF given # "missing" THEN given
                       ELSE IF config[u] = "none" THEN "on" ELSE config[u])

\* Mutant: the cache entry stays.
InvalidateCache_Forgotten(a) ==
  /\ update[a] # Nobody
  /\ update' = [update EXCEPT ![a] = Nobody]
  /\ UNCHANGED <<buffer, config, cache, req, sent, unsure, excused>>

InvalidateCache(a) ==
  /\ update[a] # Nobody
  /\ cache' = [cache EXCEPT ![update[a]] = "none"]
  /\ excused' = excused \ {update[a]}
  /\ update' = [update EXCEPT ![a] = Nobody]
  /\ UNCHANGED <<buffer, config, req, sent, unsure>>

\* The row was written, but the call is reported as failed.
UpdateFails(a) ==
  /\ update[a] # Nobody
  /\ excused' = excused \cup {update[a]}
  /\ update' = [update EXCEPT ![a] = Nobody]
  /\ UNCHANGED <<buffer, config, cache, req, sent, unsure>>

\* Mutant: entries that do not grow old.
ExpireCache_Never(u) == u \notin Users /\ UNCHANGED vars

\* CONFIG_CACHE_TTL_MS after it was filled an entry is as good as missing.
ExpireCache(u) ==
  /\ cache[u] # "none"
  /\ cache' = [cache EXCEPT ![u] = "none"]
  /\ excused' = excused \ {u}
  /\ UNCHANGED <<buffer, config, update, req, sent, unsure>>

-----------------------------------------------------------------------------
(* Flushes.  A cycle goes through the map and waits for each user's        *)
(* createMany before it looks at the next; users with nothing waiting are  *)
(* passed over at once.                                                    *)

\* What nothing refers to any more is garbage.
Reachable(ent, cyc, con) ==
  [a \in Arrays |-> IF a \in {ent[u] : u \in Users} \cup {cyc[d].array : d \in Cycles}
                      THEN con[a] ELSE {}]

\* Mutant: flushing only what has grown to a larger batch.
HasEvents_Several(u, ent, con) == Cardinality(con[ent[u]]) > 1

HasEvents(u, ent, con) == con[ent[u]] # {}

\* Mutant: copying the array instead of draining it.
Drained_Copied(a, con) == con

Drained(a, con) == [con EXCEPT ![a] = {}]

\* Cycle c, whose todo is up to date in cyc, goes on to the first user of the
\* map who has events waiting, and drains the array; or it ends.
FlushNext(c, ks, ent, con, cyc) ==
  LET todo  == cyc[c].todo
      ready == {i \in DOMAIN ks : ks[i] \in todo /\ HasEvents(ks[i], ent, con)}
  IN  /\ keys' = ks /\ entry' = ent
      /\ IF ready = {}
           THEN /\ cycle' = [cyc EXCEPT ![c] = Idle]
                /\ content' = Reachable(ent, cycle', con)
           ELSE LET i == CHOOSE i \in ready : \A j \in ready : i <= j
                    u == ks[i]
                    others == {d \in Cycles \ {c} : cyc[d].user = u}
                IN  /\ cycle' = [d \in Cycles |->
                         CASE d = c -> [user |-> u, array |-> ent[u],
                                        batch |-> con[ent[u]], stored |-> FALSE,
                                        crossed |-> others # {},
                                        todo |-> todo \ {ks[j] : j \in 1 .. i}]
                           [] d \in others -> [cyc[d] EXCEPT !.crossed = TRUE]
                           [] OTHER -> cyc[d]]
                    /\ content' = Reachable(ent, cycle', Drained(ent[u], con))

\* Every ten seconds, and only then.
StartCycle(c) ==
  /\ cycle[c].user = Nobody
  /\ FlushNext(c, keys, entry, content, [cycle EXCEPT ![c].todo = {keys[i] : i \in DOMAIN keys}])
  /\ UNCHANGED <<copies, policy, req, sent, unsure, excused>>

\* The database stores the batch: all of it, in one statement, or, when one
\* event of it is refused, nothing.
Commit(c) ==
  /\ c \in Running /\ ~ cycle[c].stored
  /\ cycle[c].batch \cap Refused = {}
  /\ copies' = [e \in Events |->
       IF e \in cycle[c].batch /\ copies[e] < 2 THEN copies[e] + 1 ELSE copies[e]]
  /\ cycle' = [cycle EXCEPT ![c].stored = TRUE]
  /\ UNCHANGED <<keys, entry, content, policy, req, sent, unsure, excused>>

\* Map.delete: nothing happens when the user is not in the map (any more).
Delete(ks, u) ==
  IF \E i \in DOMAIN ks : ks[i] = u
    THEN RemoveAt(ks, CHOOSE i \in DOMAIN ks : ks[i] = u) ELSE ks

\* Mutant: the entry is deleted although events have arrived during the write.
Return_DeletesAlways(c) ==
  LET u == cycle[c].user
  IN  /\ c \in Running /\ cycle[c].stored
      /\ FlushNext(c, Delete(keys, u),
                   [entry EXCEPT ![u] = NoArray], content,
                   [d \in Cycles |-> [cycle[d] EXCEPT !.todo = @ \ {u}]])
      /\ UNCHANGED <<copies, policy, req, sent, unsure, excused>>

\* createMany has returned.  If the array the cycle drained is still empty, the
\* user's entry is deleted from the map, whatever array it now holds.
Return(c) ==
  LET u == cycle[c].user
  IN  /\ c \in Running /\ cycle[c].stored
      /\ IF content[cycle[c].array] = {}
           THEN FlushNext(c, Delete(keys, u),
                          [entry EXCEPT ![u] = NoArray], content,
                          [d \in Cycles |-> [cycle[d] EXCEPT !.todo = @ \ {u}]])
           ELSE FlushNext(c, keys, entry, content, cycle)
      /\ UNCHANGED <<copies, policy, req, sent, unsure, excused>>

\* createMany has thrown, before or after the database stored the batch: the
\* events go back to the array they came from.
Throw(c) ==
  /\ c \in Running
  /\ FlushNext(c, keys, entry,
               [content EXCEPT ![cycle[c].array] = @ \cup cycle[c].batch], cycle)
  /\ unsure' = IF cycle[c].stored THEN unsure \cup cycle[c].batch ELSE unsure
  /\ UNCHANGED <<copies, policy, req, sent, excused>>

\* The process ends and starts again: what was in memory is gone.
Restart ==
  /\ keys' = <<>>
  /\ entry' = [u \in Users |-> NoArray]
  /\ content' = [a \in Arrays |-> {}]
  /\ cycle' = [c \in Cycles |-> Idle]
  /\ cache' = [u \in Users |-> "none"]
  /\ req' = [r \in Requests |-> Free]
  /\ update' = [a \in Admins |-> Nobody]
  /\ excused' = {}
  /\ UNCHANGED <<copies, config, sent, unsure>>

-----------------------------------------------------------------------------
Next ==
  \/ \E r \in Requests :
       \/ \E u \in Users, es \in SUBSET Events : LogBatch(r, u, es)
       \/ \E u \in Users : GetMonitoringConfig(r, u)
       \/ ReadConfig(r) \/ ReadNoConfig(r) \/ CreateConfig(r)
       \/ UseConfig(r) \/ RejectBatch(r)
  \/ \E a \in Admins :
       \/ \E u \in Users : ToggleEmployeeMonitoring(a, u) \/ UpdateMonitoringConfig(a, u)
       \/ InvalidateCache(a) \/ UpdateFails(a)
  \/ \E u \in Users : ExpireCache(u)
  \/ \E c \in Cycles : StartCycle(c) \/ Commit(c) \/ Return(c) \/ Throw(c)
  \/ Restart

\* Every call to the database ends, the timer keeps ticking and cache entries
\* grow old; and a batch the database can take does not fail forever when it is
\* tried again and again.
CommitEvent(e) == \E c \in Cycles : e \in cycle[c].batch /\ Commit(c)

Fairness ==
  /\ \A r \in Requests : WF_vars(UseConfig(r) \/ RejectBatch(r))
  /\ \A a \in Admins : WF_vars(InvalidateCache(a) \/ UpdateFails(a))
  /\ \A u \in Users : WF_vars(ExpireCache(u))
  /\ \A c \in Cycles : WF_vars(StartCycle(c)) /\ WF_vars(Return(c) \/ Throw(c))
  /\ \A e \in Events : SF_vars(CommitEvent(e))

Spec == Init /\ [][Next]_vars /\ Fairness

-----------------------------------------------------------------------------
(* Properties.                                                             *)

Waiting(e) == \E u \in Users : entry[u] # NoArray /\ e \in content[entry[u]]

Held(e) == Waiting(e) \/ \E c \in Cycles : e \in cycle[c].batch

\* No event is in two places of the process at once.
HeldOnce ==
  /\ \A a, b \in Arrays : content[a] \cap content[b] # {} => a = b
  /\ \A c, d \in Cycles : cycle[c].batch \cap cycle[d].batch # {} => c = d
  /\ \A a \in Arrays, c \in Cycles : content[a] \cap cycle[c].batch = {}

\* The map and its arrays are in order: a user is in the map once, with an array
\* of his own, a flush that no other flush of the same user overlapped still works
\* on the array the map holds, and no event is in two arrays or batches.
BufferInv ==
  /\ TypeOK
  /\ HeldOnce
  /\ \A u \in Users : entry[u] # NoArray <=> \E i \in DOMAIN keys : keys[i] = u
  /\ \A i, j \in DOMAIN keys : keys[i] = keys[j] => i = j
  /\ \A u, v \in Users : entry[u] = entry[v] => u = v \/ entry[u] = NoArray
  /\ \A c \in Running : ~ cycle[c].crossed => entry[cycle[c].user] = cycle[c].array

\* An accepted event that is not in the database is forgotten only when the
\* process restarts, or when a flush ends that overlapped another flush of the
\* same user (and then perhaps lets go of an array that is not its own).
ForgottenOnlyByOverlap ==
  [][\A e \in Events :
       Held(e) /\ copies[e] = 0 /\ ~ Held(e)' =>
         \/ Restart
         \/ \E c \in Running : cycle[c].crossed /\ cycle'[c] # cycle[c]]_vars

\* Draining the array before the write keeps two flushes from storing the same
\* event: an event is stored again only after a write that was reported failed.
StoredOnce ==
  \A e \in Events : copies[e] > 0 /\ (copies[e] > 1 \/ Waiting(e)) => e \in unsure

\* A cached setting that is not the stored one is there while an update is on its
\* way to the cache, or because a slow reader or a failed update left it there.
StaleForAReason ==
  \A u \in Users :
    cache[u] \notin {"none", config[u]} => u \in excused \/ \E a \in Admins : update[a] = u

\* An event that no insert takes holds up all events of its user: the batch goes
\* back whole, and is drained whole the next time.
HeldUp(e) == \E x \in Refused : OwnerOf[x] = OwnerOf[e] /\ Held(x)

\* Every accepted event reaches the database, or is forgotten (as above), or comes
\* to wait with an event of the same user that the database does not take.
EventuallyStored ==
  \A e \in Events : Held(e) ~> (copies[e] > 0 \/ ~ Held(e) \/ HeldUp(e))

\* Once monitoring is off for good, the cache stops saying that it is on.
OffTakesEffect ==
  \A u \in Users : <>[](config[u] = "off") => <>[](cache[u] # "on")
=============================================================================
