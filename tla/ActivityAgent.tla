---------------------------- MODULE ActivityAgent ----------------------------
(***************************************************************************)
(* The desktop agent (agent-index.js): input hooks put events into memory; *)
(* they are sent in batches; a batch that could not be sent is appended to *)
(* a queue file, which the next start of the agent replays in chunks.  The *)
(* heartbeats of the agent and of the user's page in the browser keep the  *)
(* user shown as online, and a shutdown of the agent takes that back.      *)
(*                                                                         *)
(* Every error of the queue file is swallowed: a file that cannot be read, *)
(* or was cut off while it was written, counts as empty; one that cannot   *)
(* be written or deleted stays as it is.                                   *)
(*                                                                         *)
(* The agent is one thread; a request is a step of its own on the server,  *)
(* and may reach the server although the agent has seen it fail, even      *)
(* later.  Logging in again after a 401 is part of the request.  Events    *)
(* are kept in sets: their order decides nothing.                          *)
(***************************************************************************)
EXTENDS Naturals, FiniteSets

CONSTANTS Events,        \* bound: the input events there are
          FlushAt,       \* flushIfNeeded: this many events are sent at once
          Chunk          \* replayDiskQueue: events in one request

ASSUME SizeAssumption == FlushAt \in Nat \ {0} /\ Chunk \in Nat \ {0}
ASSUME EventsAssumption == IsFiniteSet(Events)

VARIABLES phase,     \* of the agent's process
          buffer,    \* eventBuffer
          flight,    \* the batch flushEvents is waiting for: isFlushing
          disk,      \* the queue file
          replay,    \* the run of replayDiskQueue
          idle,      \* no input for IDLE_THRESHOLD_MS
          page,      \* the user has the web client open
          beats,     \* whose heartbeats are on their way to the server
          goodbye,   \* the offline signal: "none", "sent", "handled"
          online,    \* lastActivityAt is set and not older than five minutes
          handled,   \* how often the server has handled an event
          late,      \* given up by the agent, perhaps still on its way
          tracked,   \* history: the events there have been
          unsure     \* history: given up, or left in the file after an answer

memory == <<buffer, flight, replay>>
signals == <<page, beats, goodbye>>
server == <<online, handled, late>>
vars == <<phase, buffer, flight, disk, replay, idle, page, beats, goodbye,
          online, handled, late, tracked, unsure>>

NoFlight == [events |-> {}, arrived |-> FALSE]

NoReplay == [queued |-> {}, rest |-> {}, chunk |-> {}, arrived |-> FALSE]

Flushing == flight # NoFlight

Replaying == replay # NoReplay

TypeOK ==
  /\ phase \in {"off", "starting", "running", "stopping"}
  /\ buffer \subseteq Events
  /\ flight \in [events : SUBSET Events, arrived : BOOLEAN]
  /\ disk \subseteq Events
  /\ replay \in [queued : SUBSET Events, rest : SUBSET Events,
                 chunk : SUBSET Events, arrived : BOOLEAN]
  /\ idle \in BOOLEAN /\ page \in BOOLEAN /\ online \in BOOLEAN
  /\ beats \subseteq {"agent", "page"}
  /\ goodbye \in {"none", "sent", "handled"}
  /\ handled \in [Events -> 0 .. 2]
  /\ late \subseteq Events /\ tracked \subseteq Events
  /\ unsure \subseteq Events
  /\ phase \in {"off", "starting"} => buffer = {} /\ ~ Flushing /\ ~ Replaying

Init ==
  /\ phase = "off"
  /\ buffer = {} /\ flight = NoFlight /\ disk = {} /\ replay = NoReplay
  /\ idle = FALSE /\ page = FALSE /\ beats = {} /\ goodbye = "none"
  /\ online = FALSE
  /\ handled = [e \in Events |-> 0]
  /\ late = {} /\ tracked = {} /\ unsure = {}

-----------------------------------------------------------------------------
(* Start.                                                                  *)

\* With the device token or the credentials, before anything else.
Launch ==
  /\ phase = "off"
  /\ phase' = "starting" /\ idle' = FALSE
  /\ UNCHANGED <<memory, disk, signals, server, tracked, unsure>>

\* readDiskQueue: any error counts as an empty queue.
ReadDiskQueue == {disk, {}}

\* Hooks and timers are set up, and the queue file is read, once.
Authenticate ==
  /\ phase = "starting"
  /\ phase' = "running"
  /\ \E queued \in ReadDiskQueue :
       replay' = [NoReplay EXCEPT !.queued = queued, !.rest = queued]
  /\ UNCHANGED <<buffer, flight, disk, idle, signals, server, tracked, unsure>>

AuthenticationFails ==
  /\ phase = "starting"
  /\ phase' = "off"
  /\ UNCHANGED <<memory, disk, idle, signals, server, tracked, unsure>>

-----------------------------------------------------------------------------
(* Input and flushes.                                                      *)

Batch(es) == [events |-> es, arrived |-> FALSE]

\* Mutant: isFlushing is not looked at, and a copy of the buffer is sent.
FlushEvents_Copied(es) == flight' = Batch(es) /\ buffer' = es

FlushEvents(es) ==
  IF es # {} /\ ~ Flushing THEN flight' = Batch(es) /\ buffer' = {}
                           ELSE buffer' = es /\ UNCHANGED flight

\* A hook fires; with FlushAt events waiting they are sent at once.
Track(e) ==
  /\ phase = "running" /\ e \notin tracked
  /\ tracked' = tracked \cup {e} /\ idle' = FALSE
  /\ IF Cardinality(buffer \cup {e}) >= FlushAt
       THEN FlushEvents(buffer \cup {e})
       ELSE buffer' = buffer \cup {e} /\ UNCHANGED flight
  /\ UNCHANGED <<phase, disk, replay, signals, server, unsure>>

\* Mutant: the timer sends full batches only.
TimerFlush_OnlyFullBatches ==
  /\ phase = "running" /\ ~ idle /\ Cardinality(buffer) >= FlushAt
  /\ FlushEvents(buffer)
  /\ UNCHANGED <<phase, disk, replay, idle, signals, server, tracked,
                 unsure>>

\* The timer of FLUSH_INTERVAL_MS does nothing while the user is idle.
TimerFlush ==
  /\ phase = "running" /\ ~ idle
  /\ FlushEvents(buffer)
  /\ UNCHANGED <<phase, disk, replay, idle, signals, server, tracked,
                 unsure>>

\* The threshold is many flush intervals long: what could be sent has been.
Rest ==
  /\ phase = "running" /\ ~ idle
  /\ buffer = {} \/ Flushing
  /\ idle' = TRUE
  /\ UNCHANGED <<phase, memory, disk, signals, server, tracked, unsure>>

\* logActivityBatch stamps lastActivityAt and then keeps or refuses the events;
\* a refusal, and an error of the server, is an answer like any other.
Handle(es) ==
  /\ handled' = [e \in Events |->
       IF e \in es /\ handled[e] < 2 THEN handled[e] + 1 ELSE handled[e]]
  /\ online' = TRUE

FlushArrives ==
  /\ Flushing /\ ~ flight.arrived
  /\ flight' = [flight EXCEPT !.arrived = TRUE]
  /\ Handle(flight.events)
  /\ UNCHANGED <<phase, buffer, disk, replay, idle, signals, late,
                 tracked, unsure>>

FlushAnswered ==
  /\ flight.arrived
  /\ flight' = NoFlight
  /\ UNCHANGED <<phase, buffer, disk, replay, idle, signals, server,
                 tracked, unsure>>

\* The agent waits no longer for the batch: it has arrived, or may yet arrive.
MayArrive(es, arrived) == late' = IF arrived THEN late ELSE late \cup es

GiveUp(es, arrived) == unsure' = unsure \cup es /\ MayArrive(es, arrived)

PersistToDisk(es) == disk' = disk \cup es

\* writeDiskQueue, failing: the file could not be opened, or is cut off.
WriteFails == disk' \in {disk, {}}

\* Mutant: only the failed batch is written, what came in since is dropped.
FlushFails_BatchOnly ==
  /\ Flushing
  /\ PersistToDisk(flight.events)
  /\ buffer' = {} /\ flight' = NoFlight
  /\ GiveUp(flight.events, flight.arrived)
  /\ UNCHANGED <<phase, replay, idle, signals, online, handled, tracked>>

\* The batch and all that has come in since are appended to the queue file.
FlushFails ==
  /\ Flushing
  /\ PersistToDisk(flight.events \cup buffer)
  /\ buffer' = {} /\ flight' = NoFlight
  /\ GiveUp(flight.events, flight.arrived)
  /\ UNCHANGED <<phase, replay, idle, signals, online, handled, tracked>>

\* The file could not be read, and these events replace what it holds, or it
\* could not be written: a warning is logged.
PersistFails ==
  /\ Flushing
  /\ disk' = flight.events \cup buffer \/ WriteFails
  /\ buffer' = {} /\ flight' = NoFlight
  /\ GiveUp(flight.events, flight.arrived)
  /\ UNCHANGED <<phase, replay, idle, signals, online, handled, tracked>>

-----------------------------------------------------------------------------
(* Replay of the queue file, while events keep coming in.                  *)

ReplaySend ==
  /\ Replaying /\ replay.chunk = {}
  /\ \E es \in SUBSET replay.rest :
       /\ es # {} /\ Cardinality(es) <= Chunk
       /\ Cardinality(es) = Chunk \/ es = replay.rest
       /\ replay' = [replay EXCEPT !.chunk = es]
  /\ UNCHANGED <<phase, buffer, flight, disk, idle, signals, server,
                 tracked, unsure>>

ReplayArrives ==
  /\ replay.chunk # {} /\ ~ replay.arrived
  /\ replay' = [replay EXCEPT !.arrived = TRUE]
  /\ Handle(replay.chunk)
  /\ UNCHANGED <<phase, buffer, flight, disk, idle, signals, late,
                 tracked, unsure>>

\* After the last chunk the file is deleted, with whatever it now holds.
ReplayAnswered ==
  /\ replay.arrived
  /\ LET rest == replay.rest \ replay.chunk
     IN  IF rest = {} THEN replay' = NoReplay /\ disk' = {}
         ELSE /\ replay' = [replay EXCEPT !.rest = rest, !.chunk = {}, !.arrived = FALSE]
              /\ UNCHANGED disk
  /\ UNCHANGED <<phase, buffer, flight, idle, signals, server, tracked, unsure>>

\* clearDiskQueue, failing: the file stays, for the next start to replay.
ClearFails ==
  /\ replay.arrived /\ replay.rest = replay.chunk
  /\ replay' = NoReplay
  /\ unsure' = unsure \cup replay.queued
  /\ UNCHANGED <<phase, buffer, flight, disk, idle, signals, server, tracked>>

\* Mutant: the chunk that failed is not written back.
ReplayFails_NextChunk ==
  /\ replay.chunk # {}
  /\ disk' = replay.rest \ replay.chunk
  /\ replay' = NoReplay
  /\ GiveUp(replay.chunk, replay.arrived)
  /\ UNCHANGED <<phase, buffer, flight, idle, signals, online, handled, tracked>>

\* The chunk and those after it replace what the file holds.
ReplayFails ==
  /\ replay.chunk # {}
  /\ disk' = replay.rest
  /\ replay' = NoReplay
  /\ GiveUp(replay.chunk, replay.arrived)
  /\ UNCHANGED <<phase, buffer, flight, idle, signals, online, handled, tracked>>

\* They could not be written: a file left as it is holds answered chunks too.
WriteBackFails ==
  /\ replay.chunk # {}
  /\ WriteFails
  /\ replay' = NoReplay
  /\ unsure' = unsure \cup (replay.queued \ replay.rest) \cup replay.chunk
  /\ MayArrive(replay.chunk, replay.arrived)
  /\ UNCHANGED <<phase, buffer, flight, idle, signals, online, handled, tracked>>

-----------------------------------------------------------------------------
(* Heartbeats, shutdown and crashes.                                       *)

Send(who) == beats' = beats \cup {who} /\ UNCHANGED <<page, goodbye>>

\* A timer of the agent, idle or not.
Heartbeat ==
  /\ phase = "running" /\ "agent" \notin beats
  /\ Send("agent")
  /\ UNCHANGED <<phase, memory, disk, idle, server, tracked, unsure>>

\* The user opens or closes the web client.
TogglePage ==
  /\ page' = ~ page
  /\ UNCHANGED <<phase, memory, disk, idle, beats, goodbye, server, tracked, unsure>>

\* The web client reports every minute (and may post events, with one effect).
PageHeartbeat ==
  /\ page /\ "page" \notin beats
  /\ Send("page")
  /\ UNCHANGED <<phase, memory, disk, idle, server, tracked, unsure>>

Stamp(who) ==
  /\ who \in beats /\ beats' = beats \ {who}
  /\ online' = TRUE
  /\ UNCHANGED <<phase, memory, disk, idle, page, goodbye, handled, late, tracked,
                 unsure>>

RecordHeartbeat == Stamp("agent")

RecordBrowserHeartbeat == Stamp("page")

\* The timers stop.  flushEvents returns at once, for isShuttingDown is set:
\* what is in memory stays there.
Shutdown ==
  /\ phase = "running"
  /\ phase' = "stopping" /\ goodbye' = "sent"
  /\ UNCHANGED <<memory, disk, idle, page, beats, server, tracked, unsure>>

RecordOffline ==
  /\ goodbye = "sent" /\ goodbye' = "handled"
  /\ online' = FALSE
  /\ UNCHANGED <<phase, memory, disk, idle, page, beats, handled, late, tracked,
                 unsure>>

\* The process is gone.  A batch under way may still arrive, and events the
\* server has handled may still be in the queue file.
Gone ==
  /\ phase' = "off"
  /\ buffer' = {} /\ flight' = NoFlight /\ replay' = NoReplay
  /\ late' = late \cup (IF flight.arrived THEN {} ELSE flight.events)
                  \cup (IF replay.arrived THEN {} ELSE replay.chunk)
  /\ unsure' = unsure \cup (IF Replaying THEN (replay.queued \ replay.rest) \cup replay.chunk
                            ELSE {})
  /\ UNCHANGED <<idle, page, beats, handled, online, tracked>>

\* The offline signal was answered, or failed.
Exit ==
  /\ phase = "stopping"
  /\ Gone
  /\ goodbye' \in {goodbye, "none"}
  /\ UNCHANGED disk

Kill ==
  /\ phase # "off"
  /\ Gone
  /\ UNCHANGED <<disk, goodbye>>

\* Killed while the queue file is being written: it is cut off, and a file that
\* cannot be parsed counts as empty.
KillInWrite ==
  /\ Flushing \/ replay.chunk # {}
  /\ Gone
  /\ disk' = {}
  /\ UNCHANGED goodbye

\* Mutant: a stamp does not grow old.
StaleTimeout_Never == phase = "nowhere" /\ UNCHANGED vars

\* Five minutes without a stamp.
StaleTimeout ==
  /\ online /\ online' = FALSE
  /\ UNCHANGED <<phase, memory, disk, idle, signals, handled, late,
                 tracked, unsure>>

\* A request the agent has given up on is handled after all, or never.
LateArrives(e) ==
  /\ e \in late /\ late' = late \ {e}
  /\ Handle({e})
  /\ UNCHANGED <<phase, memory, disk, idle, signals, tracked, unsure>>

NetworkDrops ==
  /\ \/ \E who \in beats : beats' = beats \ {who} /\ UNCHANGED <<late, goodbye>>
     \/ goodbye = "sent" /\ goodbye' = "none" /\ UNCHANGED <<late, beats>>
     \/ \E e \in late : late' = late \ {e} /\ UNCHANGED <<beats, goodbye>>
  /\ UNCHANGED <<phase, memory, disk, idle, page, online, handled, tracked, unsure>>

-----------------------------------------------------------------------------
Next ==
  \/ Launch \/ Authenticate \/ AuthenticationFails
  \/ \E e \in Events : Track(e) \/ LateArrives(e)
  \/ TimerFlush \/ Rest
  \/ FlushArrives \/ FlushAnswered \/ FlushFails \/ PersistFails
  \/ ReplaySend \/ ReplayArrives \/ ReplayAnswered \/ ClearFails
  \/ ReplayFails \/ WriteBackFails
  \/ Heartbeat \/ RecordHeartbeat
  \/ TogglePage \/ PageHeartbeat \/ RecordBrowserHeartbeat
  \/ Shutdown \/ RecordOffline \/ Exit \/ Kill \/ KillInWrite
  \/ StaleTimeout \/ NetworkDrops

\* Timers tick, stamps grow old, and what the agent waits for no longer arrives
\* in the end or is lost.  A request may stay without an answer for good, for
\* node-fetch sets no timeout: nothing is assumed of the agent's requests.
Fairness ==
  /\ WF_vars(TimerFlush)
  /\ WF_vars(RecordHeartbeat \/ RecordBrowserHeartbeat \/ NetworkDrops)
  /\ WF_vars(StaleTimeout)
  /\ \A e \in Events : WF_vars(LateArrives(e))

Spec == Init /\ [][Next]_vars /\ Fairness

-----------------------------------------------------------------------------
(* Properties.                                                             *)

\* What the queue file holds and the server has not handled leaves the file only
\* when it was appended while a replay was under way, and goes with what the
\* replay had read; when the agent is killed while it writes; and when the file
\* cannot be read or written as a flush or a replay has failed.
OnDiskIsSafe ==
  [][\A e \in disk \ disk' :
       handled[e] = 0 =>
         \/ Replaying /\ e \notin replay.queued
         \/ KillInWrite \/ PersistFails \/ WriteBackFails]_vars

\* What is in memory and was not handled reaches the queue file unless it cannot
\* be written or the process ends, however it ends: a shutdown saves nothing.
MemoryLostOnlyAtExit ==
  [][\A e \in (buffer \cup flight.events) \ (buffer \cup flight.events \cup disk)' :
       handled[e] = 0 => phase' = "off" \/ PersistFails]_vars

\* The server handles an event twice only after a request it had handled, or
\* might still handle, was given up, the agent ended in the middle of a replay, or
\* the file could not be rewritten or deleted at the end of one.
HandledOnce ==
  TypeOK /\ \A e \in Events :
    \/ handled[e] > 1
    \/ handled[e] = 1 /\ (e \in buffer \cup late \/ (e \in flight.events /\ ~ flight.arrived))
    => e \in unsure

\* If no request hangs for ever, events leave the memory of the agent while the
\* user works.  (Those that came in during a flush that took until the user was
\* idle wait for his return, and a shutdown leaves its memory alone.)
FlushedWhileActive ==
  []<> ~ Flushing =>
    \A e \in Events : e \in buffer ~> (e \notin buffer \/ idle \/ phase = "stopping")

\* A user whose agent is gone for good, and who has closed the web client for
\* good, is shown as offline in the end, whatever was still on its way.
ShownOffline == <>[](phase = "off" /\ ~ page) => <>[] ~ online

\* Events that could not be sent are in the queue file until they are sent; only
\* a crash may cost the file, as long as the file can be read and written.
QueueKeepsUnsent ==
  [][\A e \in disk \ disk' :
       handled[e] > 0 \/ phase' = "off" \/ PersistFails \/ WriteBackFails]_vars
=============================================================================
