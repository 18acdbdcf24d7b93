------------------------- MODULE ActivityAgentProofs -------------------------
(***************************************************************************)
(* Theorems about ActivityAgent, for any events and sizes of batches.      *)
(***************************************************************************)
EXTENDS ActivityAgent, TLAPS

-----------------------------------------------------------------------------
(* The inductive invariant.                                                *)

\* An event the agent has not lost sight of is in one place; the file and what a
\* replay has read of it are one.
OnePlace ==
  /\ buffer \cup flight.events \cup disk \cup replay.queued \cup late \subseteq tracked
  /\ \A e \in Events : e \in tracked \/ handled[e] = 0
  /\ \A e \in Events \ unsure :
       /\ e \in buffer => e \notin flight.events \cup disk \cup replay.queued \cup late
       /\ e \in flight.events => e \notin disk \cup replay.queued \cup late
       /\ e \in disk \cup replay.queued => e \notin late

\* A replay sends a part of what is left of what it has read.  (The file may hold
\* more, and less once it could not be written.)
ReplayInOrder ==
  /\ replay.chunk \subseteq replay.rest /\ replay.rest \subseteq replay.queued
  /\ replay.arrived => replay.chunk # {}

\* What the agent takes for handled is handled.
AnsweredHandled ==
  /\ flight.arrived => \A e \in flight.events : handled[e] > 0
  /\ replay.arrived => \A e \in replay.chunk : handled[e] > 0
  /\ \A e \in replay.queued \ replay.rest : handled[e] > 0

\* And what it means to send is not, as far as it has not lost sight of it.
UnsentUnhandled ==
  \A e \in Events \ unsure :
    /\ handled[e] < 2
    /\ handled[e] = 1 =>
         /\ e \notin buffer \cup late
         /\ e \in flight.events => flight.arrived
         /\ e \in disk \cup replay.queued =>
              \/ e \in replay.queued \ replay.rest
              \/ e \in replay.chunk /\ replay.arrived

IInv == TypeOK /\ OnePlace /\ ReplayInOrder /\ AnsweredHandled /\ UnsentUnhandled

-----------------------------------------------------------------------------
(* Steps.                                                                  *)

\* The invariant, action by action, for what an action disturbs.
LEMMA InitIInv == Init => IInv
<1> SUFFICES ASSUME Init PROVE IInv
  OBVIOUS
<1>1. ~ Flushing /\ ~ Replaying
  BY DEF Init, Flushing, Replaying
<1>2. /\ NoFlight \in [events : SUBSET Events, arrived : BOOLEAN]
      /\ NoReplay \in [queued : SUBSET Events, rest : SUBSET Events,
                       chunk : SUBSET Events, arrived : BOOLEAN]
      /\ [e \in Events |-> 0] \in [Events -> 0 .. 2]
  BY DEF NoFlight, NoReplay
<1>3. TypeOK
  BY <1>1, <1>2 DEF Init, TypeOK
<1> QED BY <1>3 DEF Init, IInv, OnePlace, ReplayInOrder, AnsweredHandled, UnsentUnhandled,
                    NoFlight, NoReplay

LEMMA StartStep ==
  ASSUME IInv, Launch \/ Authenticate \/ AuthenticationFails
  PROVE  IInv'
<1>1. CASE Launch \/ AuthenticationFails
  BY <1>1 DEF IInv, TypeOK, OnePlace, ReplayInOrder, AnsweredHandled, UnsentUnhandled,
              Launch, AuthenticationFails, memory, signals, server, Flushing, Replaying
<1>2. CASE Authenticate
  <2>1. PICK queued \in {disk, {}} :
          replay' = [queued |-> queued, rest |-> queued, chunk |-> {}, arrived |-> FALSE]
    BY <1>2 DEF Authenticate, ReadDiskQueue, NoReplay
  <2>2. replay = NoReplay /\ queued \subseteq disk /\ disk \subseteq Events
    BY <1>2 DEF IInv, TypeOK, Authenticate, Replaying
  <2>3. TypeOK'
    BY <1>2, <2>1, <2>2 DEF IInv, TypeOK, Authenticate, signals, server, Flushing
  <2> QED BY <1>2, <2>1, <2>2, <2>3
             DEF IInv, TypeOK, OnePlace, ReplayInOrder, AnsweredHandled, UnsentUnhandled,
                 Authenticate, server, NoReplay
<1> QED BY <1>1, <1>2

\* A batch is what flushEvents waits for.
LEMMA BatchType ==
  ASSUME NEW es \in SUBSET Events
  PROVE  Batch(es) \in [events : SUBSET Events, arrived : BOOLEAN]
BY DEF Batch

LEMMA TrackStep ==
  ASSUME IInv, NEW e \in Events, Track(e)
  PROVE  IInv'
<1>1. /\ phase = "running" /\ e \notin tracked /\ tracked' = tracked \cup {e}
      /\ UNCHANGED <<phase, disk, replay, signals, handled, late, unsure>>
      /\ idle' = FALSE /\ online' = online
      /\ \/ buffer' = buffer \cup {e} /\ flight' = flight
         \/ flight = NoFlight /\ buffer' = {} /\ flight' = Batch(buffer \cup {e})
  BY DEF Track, FlushEvents, Flushing, signals, server
<1>3. TypeOK'
  <2>1. flight' \in [events : SUBSET Events, arrived : BOOLEAN]
    <3>1. buffer \cup {e} \in SUBSET Events /\ flight \in [events : SUBSET Events, arrived : BOOLEAN]
      BY DEF IInv, TypeOK
    <3>2. Batch(buffer \cup {e}) \in [events : SUBSET Events, arrived : BOOLEAN]
      BY <3>1, BatchType
    <3> QED BY <1>1, <3>1, <3>2
  <2> QED BY <1>1, <2>1 DEF IInv, TypeOK, Replaying, signals
<1>4. CASE buffer' = buffer \cup {e} /\ flight' = flight
  BY <1>1, <1>3, <1>4 DEF IInv, TypeOK, OnePlace, ReplayInOrder, AnsweredHandled, UnsentUnhandled
<1>5. CASE buffer' = {} /\ flight = NoFlight /\ flight' = Batch(buffer \cup {e})
  <2>1. flight'.events = buffer \cup {e} /\ ~ flight'.arrived /\ flight.events = {}
    BY <1>5 DEF Batch, NoFlight
  <2>2. OnePlace'
    BY <1>1, <1>5, <2>1 DEF IInv, TypeOK, OnePlace
  <2>3. ReplayInOrder' /\ AnsweredHandled'
    BY <1>1, <1>5, <2>1 DEF IInv, TypeOK, ReplayInOrder, AnsweredHandled
  <2>4. UnsentUnhandled'
    BY <1>1, <1>5, <2>1 DEF IInv, TypeOK, OnePlace, UnsentUnhandled
  <2> QED BY <1>3, <2>2, <2>3, <2>4 DEF IInv
<1> QED BY <1>1, <1>4, <1>5

LEMMA FlushStep ==
  ASSUME IInv, TimerFlush \/ Rest
  PROVE  IInv'
<1>1. CASE Rest
  BY <1>1 DEF IInv, TypeOK, OnePlace, ReplayInOrder, AnsweredHandled, UnsentUnhandled,
              Rest, memory, signals, server, Flushing, Replaying
<1>2. CASE TimerFlush
  <2>1. /\ phase = "running"
        /\ UNCHANGED <<phase, disk, replay, idle, signals, online, handled, late, tracked, unsure>>
        /\ \/ buffer' = buffer /\ flight' = flight
           \/ flight = NoFlight /\ buffer' = {} /\ flight' = Batch(buffer)
    BY <1>2 DEF TimerFlush, FlushEvents, Flushing, server
  <2>2. TypeOK'
    <3>1. flight' \in [events : SUBSET Events, arrived : BOOLEAN]
      <4>1. buffer \in SUBSET Events /\ flight \in [events : SUBSET Events, arrived : BOOLEAN]
        BY DEF IInv, TypeOK
      <4>2. Batch(buffer) \in [events : SUBSET Events, arrived : BOOLEAN]
        BY <4>1, BatchType
      <4> QED BY <2>1, <4>1, <4>2
    <3> QED BY <2>1, <3>1 DEF IInv, TypeOK, Replaying, signals
  <2>3. CASE buffer' = buffer /\ flight' = flight
    BY <2>1, <2>2, <2>3 DEF IInv, TypeOK, OnePlace, ReplayInOrder, AnsweredHandled, UnsentUnhandled
  <2>4. CASE buffer' = {} /\ flight = NoFlight /\ flight' = Batch(buffer)
    <3>1. flight'.events = buffer /\ ~ flight'.arrived /\ flight.events = {}
      BY <2>4 DEF Batch, NoFlight
    <3> QED BY <2>1, <2>2, <2>4, <3>1
               DEF IInv, TypeOK, OnePlace, ReplayInOrder, AnsweredHandled, UnsentUnhandled
  <2> QED BY <2>1, <2>3, <2>4
<1> QED BY <1>1, <1>2

\* The server handles a batch.
LEMMA HandledMore ==
  ASSUME TypeOK, NEW es \in SUBSET Events, Handle(es)
  PROVE  /\ handled' \in [Events -> 0 .. 2] /\ online' = TRUE
         /\ \A e \in Events \ es : handled'[e] = handled[e]
         /\ \A e \in es : handled'[e] > 0 /\ (handled[e] = 0 => handled'[e] = 1)
         /\ \A e \in Events : handled[e] > 0 => handled'[e] > 0
BY DEF TypeOK, Handle

LEMMA FlushArrivesStep ==
  ASSUME IInv, FlushArrives
  PROVE  IInv'
<1>1. /\ TypeOK /\ OnePlace /\ ReplayInOrder /\ AnsweredHandled /\ UnsentUnhandled
      /\ flight \in [events : SUBSET Events, arrived : BOOLEAN] /\ Flushing /\ ~ flight.arrived
      /\ Handle(flight.events)
      /\ UNCHANGED <<phase, buffer, disk, replay, idle, signals, late, tracked, unsure>>
      /\ flight' = [flight EXCEPT !.arrived = TRUE]
  BY DEF IInv, TypeOK, FlushArrives
<1>2. flight'.events = flight.events /\ flight'.arrived
      /\ flight' \in [events : SUBSET Events, arrived : BOOLEAN]
  BY <1>1
<1>3. /\ handled' \in [Events -> 0 .. 2] /\ online' = TRUE
      /\ \A e \in Events \ flight.events : handled'[e] = handled[e]
      /\ \A e \in flight.events : handled'[e] > 0 /\ (handled[e] = 0 => handled'[e] = 1)
      /\ \A e \in Events : handled[e] > 0 => handled'[e] > 0
  BY <1>1, HandledMore
<1>4. TypeOK'
  BY <1>1, <1>2, <1>3 DEF TypeOK, Flushing, Replaying, signals
<1>5. OnePlace' /\ ReplayInOrder'
  BY <1>1, <1>2, <1>3 DEF OnePlace, ReplayInOrder
<1>6. AnsweredHandled'
  BY <1>1, <1>2, <1>3 DEF TypeOK, AnsweredHandled, ReplayInOrder
<1>7. UnsentUnhandled'
  BY <1>1, <1>2, <1>3 DEF TypeOK, OnePlace, UnsentUnhandled
<1> QED BY <1>4, <1>5, <1>6, <1>7 DEF IInv

LEMMA FlushAnsweredStep ==
  ASSUME IInv, FlushAnswered
  PROVE  IInv'
BY DEF IInv, TypeOK, OnePlace, ReplayInOrder, AnsweredHandled, UnsentUnhandled,
       FlushAnswered, signals, server, NoFlight, Flushing, Replaying

LEMMA FlushFailsStep ==
  ASSUME IInv, FlushFails \/ PersistFails
  PROVE  IInv'
<1>1. /\ TypeOK /\ OnePlace /\ ReplayInOrder /\ AnsweredHandled /\ UnsentUnhandled
      /\ UNCHANGED <<phase, replay, idle, signals, online, handled, tracked>>
      /\ buffer' = {} /\ flight' = [events |-> {}, arrived |-> FALSE]
      /\ unsure' = unsure \cup flight.events
      /\ late' = IF flight.arrived THEN late ELSE late \cup flight.events
      /\ disk' \subseteq disk \cup flight.events \cup buffer
  BY DEF IInv, FlushFails, PersistFails, PersistToDisk, WriteFails, GiveUp, MayArrive, NoFlight
<1>2. TypeOK'
  BY <1>1 DEF TypeOK, NoFlight, Flushing, Replaying, signals
<1>3. OnePlace' /\ ReplayInOrder' /\ AnsweredHandled'
  BY <1>1 DEF TypeOK, OnePlace, ReplayInOrder, AnsweredHandled
<1>4. UnsentUnhandled'
  BY <1>1 DEF TypeOK, OnePlace, UnsentUnhandled
<1> QED BY <1>2, <1>3, <1>4 DEF IInv

LEMMA ReplaySendStep ==
  ASSUME IInv, ReplaySend
  PROVE  IInv'
<1>1. /\ UNCHANGED <<phase, buffer, flight, disk, idle, signals, online, handled, late,
                     tracked, unsure>>
      /\ Replaying /\ replay.chunk = {}
  BY DEF ReplaySend, server
<1>2. PICK es \in SUBSET replay.rest : es # {} /\ replay' = [replay EXCEPT !.chunk = es]
  BY DEF ReplaySend
<1>3. ~ replay.arrived
  BY <1>1 DEF IInv, ReplayInOrder
<1>4. /\ replay' \in [queued : SUBSET Events, rest : SUBSET Events,
                      chunk : SUBSET Events, arrived : BOOLEAN]
      /\ replay'.queued = replay.queued /\ replay'.rest = replay.rest /\ replay'.chunk = es
      /\ replay'.arrived = replay.arrived
  BY <1>2 DEF IInv, TypeOK
<1>5. TypeOK'
  BY <1>1, <1>4 DEF IInv, TypeOK, Flushing, Replaying, signals
<1> QED BY <1>1, <1>3, <1>4, <1>5
           DEF IInv, OnePlace, ReplayInOrder, AnsweredHandled, UnsentUnhandled

LEMMA ReplayArrivesStep ==
  ASSUME IInv, ReplayArrives
  PROVE  IInv'
<1>1. /\ TypeOK /\ OnePlace /\ ReplayInOrder /\ AnsweredHandled /\ UnsentUnhandled
      /\ replay.chunk # {} /\ ~ replay.arrived /\ replay.chunk \in SUBSET Events
      /\ Handle(replay.chunk)
      /\ UNCHANGED <<phase, buffer, flight, disk, idle, signals, late, tracked, unsure>>
      /\ replay' = [replay EXCEPT !.arrived = TRUE]
  BY DEF IInv, TypeOK, ReplayArrives
<1>2. /\ replay' \in [queued : SUBSET Events, rest : SUBSET Events,
                      chunk : SUBSET Events, arrived : BOOLEAN]
      /\ replay'.queued = replay.queued /\ replay'.rest = replay.rest
      /\ replay'.chunk = replay.chunk /\ replay'.arrived
  BY <1>1 DEF TypeOK
<1>3. /\ handled' \in [Events -> 0 .. 2] /\ online' = TRUE
      /\ \A e \in Events \ replay.chunk : handled'[e] = handled[e]
      /\ \A e \in replay.chunk : handled'[e] > 0 /\ (handled[e] = 0 => handled'[e] = 1)
      /\ \A e \in Events : handled[e] > 0 => handled'[e] > 0
  BY <1>1, HandledMore
<1>4. TypeOK'
  <2>1. Replaying
    BY <1>1 DEF Replaying, NoReplay
  <2> QED BY <1>1, <1>2, <1>3, <2>1 DEF TypeOK, Flushing, signals
<1>5. OnePlace' /\ ReplayInOrder'
  BY <1>1, <1>2, <1>3 DEF OnePlace, ReplayInOrder
<1>6. AnsweredHandled'
  BY <1>1, <1>2, <1>3 DEF TypeOK, AnsweredHandled, ReplayInOrder
<1>7. UnsentUnhandled'
  BY <1>1, <1>2, <1>3 DEF TypeOK, OnePlace, ReplayInOrder, UnsentUnhandled
<1> QED BY <1>1, <1>2, <1>4, <1>5, <1>6, <1>7 DEF IInv

LEMMA ReplayAnsweredStep ==
  ASSUME IInv, ReplayAnswered
  PROVE  IInv'
<1> DEFINE left == replay.rest \ replay.chunk
<1>1. /\ TypeOK /\ OnePlace /\ ReplayInOrder /\ AnsweredHandled /\ UnsentUnhandled
      /\ replay.arrived
      /\ UNCHANGED <<phase, buffer, flight, idle, signals, online, handled, late, tracked, unsure>>
  BY DEF IInv, ReplayAnswered, server
<1>2. CASE replay' = NoReplay /\ disk' = {}
  BY <1>1, <1>2 DEF IInv, TypeOK, OnePlace, ReplayInOrder, AnsweredHandled,
                    UnsentUnhandled, NoReplay, Flushing, Replaying, signals
<1>3. CASE replay' = [replay EXCEPT !.rest = left, !.chunk = {}, !.arrived = FALSE] /\ disk' = disk
  <2>1. /\ replay' \in [queued : SUBSET Events, rest : SUBSET Events,
                        chunk : SUBSET Events, arrived : BOOLEAN]
        /\ replay'.queued = replay.queued /\ replay'.rest = left /\ replay'.chunk = {}
        /\ ~ replay'.arrived
    BY <1>1, <1>3 DEF TypeOK
  <2>2. Replaying
    BY <1>1 DEF Replaying, NoReplay
  <2>3. TypeOK'
    BY <1>1, <1>3, <2>1, <2>2 DEF TypeOK, Flushing, signals
  <2> QED BY <1>1, <1>3, <2>1, <2>3
             DEF IInv, OnePlace, ReplayInOrder, AnsweredHandled, UnsentUnhandled
<1> QED BY <1>2, <1>3 DEF ReplayAnswered

LEMMA ClearFailsStep ==
  ASSUME IInv, ClearFails
  PROVE  IInv'
<1>1. /\ TypeOK /\ OnePlace /\ ReplayInOrder /\ AnsweredHandled /\ UnsentUnhandled
      /\ replay' = [queued |-> {}, rest |-> {}, chunk |-> {}, arrived |-> FALSE]
      /\ unsure' = unsure \cup replay.queued
      /\ UNCHANGED <<phase, buffer, flight, disk, idle, signals, online, handled, late, tracked>>
  BY DEF IInv, ClearFails, NoReplay, server
<1>2. TypeOK'
  BY <1>1 DEF TypeOK, NoReplay, Flushing, Replaying, signals
<1>3. OnePlace' /\ ReplayInOrder' /\ AnsweredHandled'
  BY <1>1 DEF TypeOK, OnePlace, ReplayInOrder, AnsweredHandled
<1>4. UnsentUnhandled'
  BY <1>1 DEF TypeOK, OnePlace, ReplayInOrder, UnsentUnhandled
<1> QED BY <1>2, <1>3, <1>4 DEF IInv

\* Written back or not: what the file then holds and was handled, it has lost sight of.
LEMMA ReplayFailsStep ==
  ASSUME IInv, ReplayFails \/ WriteBackFails
  PROVE  IInv'
<1>1. /\ TypeOK /\ OnePlace /\ ReplayInOrder /\ AnsweredHandled /\ UnsentUnhandled
      /\ replay' = [queued |-> {}, rest |-> {}, chunk |-> {}, arrived |-> FALSE]
      /\ late' = IF replay.arrived THEN late ELSE late \cup replay.chunk
      /\ \/ unsure' = unsure \cup replay.chunk /\ disk' = replay.rest
         \/ /\ unsure' = unsure \cup (replay.queued \ replay.rest) \cup replay.chunk
            /\ disk' \subseteq disk
      /\ UNCHANGED <<phase, buffer, flight, idle, signals, online, handled, tracked>>
  BY DEF IInv, ReplayFails, WriteBackFails, WriteFails, GiveUp, MayArrive, NoReplay
<1>2. TypeOK'
  BY <1>1 DEF TypeOK, ReplayInOrder, NoReplay, Flushing, Replaying, signals
<1>3. OnePlace' /\ ReplayInOrder' /\ AnsweredHandled'
  BY <1>1 DEF TypeOK, OnePlace, ReplayInOrder, AnsweredHandled
<1>4. UnsentUnhandled'
  BY <1>1 DEF TypeOK, OnePlace, ReplayInOrder, UnsentUnhandled
<1> QED BY <1>1, <1>2, <1>3, <1>4 DEF IInv

\* Heartbeats, the offline signal and the age of a stamp leave events alone.
LEMMA SignalStep ==
  ASSUME IInv,
         \/ Heartbeat \/ TogglePage \/ PageHeartbeat \/ RecordHeartbeat
         \/ RecordBrowserHeartbeat \/ Shutdown \/ RecordOffline \/ StaleTimeout
         \/ UNCHANGED vars
  PROVE  IInv'
<1>1. /\ UNCHANGED <<buffer, flight, replay, disk, handled, late, tracked, unsure>>
      /\ phase' = phase \/ (phase = "running" /\ phase' = "stopping")
      /\ idle' = idle /\ page' \in BOOLEAN /\ online' \in BOOLEAN
      /\ beats' \subseteq {"agent", "page"}
      /\ goodbye' \in {"none", "sent", "handled"}
  BY DEF IInv, TypeOK, Heartbeat, TogglePage, PageHeartbeat, Send, RecordHeartbeat,
         RecordBrowserHeartbeat, Stamp, Shutdown, RecordOffline, StaleTimeout, vars, memory,
         signals, server
<1>2. TypeOK'
  BY <1>1 DEF IInv, TypeOK, Flushing, Replaying, signals
<1> QED BY <1>1, <1>2 DEF IInv, OnePlace, ReplayInOrder, AnsweredHandled, UnsentUnhandled

LEMMA GoneStep ==
  ASSUME IInv, Exit \/ Kill \/ KillInWrite
  PROVE  IInv'
<1>1. /\ TypeOK /\ OnePlace /\ ReplayInOrder /\ AnsweredHandled /\ UnsentUnhandled /\ Gone
      /\ disk' = disk \/ disk' = {}
      /\ goodbye' \in {"none", "sent", "handled"}
  BY DEF IInv, TypeOK, Exit, Kill, KillInWrite
<1>2. /\ phase' = "off" /\ buffer' = {}
      /\ flight' = [events |-> {}, arrived |-> FALSE]
      /\ replay' = [queued |-> {}, rest |-> {}, chunk |-> {}, arrived |-> FALSE]
      /\ late' = late \cup (IF flight.arrived THEN {} ELSE flight.events)
                      \cup (IF replay.arrived THEN {} ELSE replay.chunk)
      /\ UNCHANGED <<idle, page, beats, handled, online, tracked>>
  BY <1>1 DEF Gone, NoFlight, NoReplay
<1>3. unsure' = unsure \cup (replay.queued \ replay.rest) \cup replay.chunk
  BY <1>1 DEF Gone, Replaying, NoReplay
<1>4. TypeOK'
  BY <1>1, <1>2, <1>3 DEF TypeOK, NoFlight, NoReplay, Flushing, Replaying
<1>5. OnePlace' /\ ReplayInOrder' /\ AnsweredHandled'
  BY <1>1, <1>2, <1>3 DEF TypeOK, OnePlace, ReplayInOrder, AnsweredHandled
<1>6. UnsentUnhandled'
  BY <1>1, <1>2, <1>3 DEF TypeOK, OnePlace, ReplayInOrder, UnsentUnhandled
<1> QED BY <1>2, <1>4, <1>5, <1>6 DEF IInv

LEMMA LateStep ==
  ASSUME IInv, NEW e \in Events, LateArrives(e)
  PROVE  IInv'
<1>1. /\ TypeOK /\ OnePlace /\ ReplayInOrder /\ AnsweredHandled /\ UnsentUnhandled
      /\ e \in late /\ late' = late \ {e} /\ Handle({e})
      /\ UNCHANGED <<phase, buffer, flight, replay, disk, idle, signals, tracked, unsure>>
  BY DEF IInv, LateArrives, memory
<1>2. /\ handled' \in [Events -> 0 .. 2] /\ online' = TRUE
      /\ \A d \in Events \ {e} : handled'[d] = handled[d]
      /\ handled'[e] > 0 /\ (handled[e] = 0 => handled'[e] = 1)
      /\ \A d \in Events : handled[d] > 0 => handled'[d] > 0
  BY <1>1, HandledMore
<1>3. TypeOK'
  BY <1>1, <1>2 DEF TypeOK, Flushing, Replaying, signals
<1>4. OnePlace' /\ ReplayInOrder' /\ AnsweredHandled'
  BY <1>1, <1>2 DEF TypeOK, OnePlace, ReplayInOrder, AnsweredHandled
<1>5. UnsentUnhandled'
  BY <1>1, <1>2 DEF TypeOK, OnePlace, UnsentUnhandled
<1> QED BY <1>1, <1>3, <1>4, <1>5 DEF IInv

LEMMA DropStep ==
  ASSUME IInv, NetworkDrops
  PROVE  IInv'
<1>1. /\ UNCHANGED <<phase, buffer, flight, replay, disk, idle, online, handled, tracked, unsure>>
      /\ late' \subseteq late /\ page' = page /\ beats' \subseteq {"agent", "page"}
      /\ goodbye' \in {"none", "sent", "handled"}
  BY DEF IInv, TypeOK, NetworkDrops, memory
<1>2. TypeOK'
  BY <1>1 DEF IInv, TypeOK, Flushing, Replaying, signals
<1> QED BY <1>1, <1>2 DEF IInv, OnePlace, ReplayInOrder, AnsweredHandled, UnsentUnhandled

\* The invariant holds in every state.
LEMMA IInvHolds == Spec => []IInv
<1>1. IInv /\ [Next]_vars => IInv'
  BY StartStep, TrackStep, FlushStep, FlushArrivesStep, FlushAnsweredStep, FlushFailsStep,
     ReplaySendStep, ReplayArrivesStep, ReplayAnsweredStep, ClearFailsStep, ReplayFailsStep,
     SignalStep, GoneStep, LateStep, DropStep DEF Next
<1> QED BY <1>1, InitIInv, PTL DEF Spec

-----------------------------------------------------------------------------
(* Theorems.                                                               *)

\* flushEvents takes the buffer before it waits, and replayDiskQueue goes on only
\* after an answer: an event is handled twice only after a request with it was given
\* up, the agent ended in the middle of a replay, or the file could not be rewritten
\* or deleted after one, whatever came in meanwhile.
THEOREM EventsHandledOnce == Spec => []HandledOnce
<1>1. IInv => HandledOnce
  BY DEF IInv, TypeOK, UnsentUnhandled, HandledOnce
<1> QED BY <1>1, IInvHolds, PTL

\* replayDiskQueue deletes the file after its last chunk, and writes back what was
\* not sent: what is lost was appended meanwhile, the file was being written as the
\* agent was killed, or a flush or a replay had failed and the file then failed too.
THEOREM DiskIsSafe == Spec => OnDiskIsSafe
<1> DEFINE Excused(e) == \/ Replaying /\ e \notin replay.queued
                         \/ KillInWrite \/ PersistFails \/ WriteBackFails
<1>1. IInv /\ [Next]_vars => \A e \in disk \ disk' : handled[e] = 0 => Excused(e)
  <2> SUFFICES ASSUME IInv, [Next]_vars, NEW e \in disk, e \notin disk', handled[e] = 0
               PROVE  Excused(e)
    OBVIOUS
  <2>1. CASE ReplayAnswered \/ ReplayFails
    <3>1. Replaying
      BY <2>1 DEF Replaying, NoReplay, ReplayAnswered, ReplayFails
    <3>2. e \notin replay.queued
      BY <2>1 DEF IInv, TypeOK, ReplayInOrder, AnsweredHandled, ReplayAnswered, ReplayFails
    <3> QED BY <3>1, <3>2
  <2>2. CASE ~ (\/ ReplayAnswered \/ ReplayFails \/ KillInWrite \/ PersistFails
                \/ WriteBackFails)
    <3>1. disk \subseteq disk'
      BY <2>2 DEF Next, vars, Launch, Authenticate, AuthenticationFails, Track, LateArrives,
                  TimerFlush, Rest, FlushArrives, FlushAnswered, FlushFails, PersistToDisk,
                  ReplaySend, ReplayArrives, ClearFails, Heartbeat, TogglePage, PageHeartbeat,
                  RecordHeartbeat, RecordBrowserHeartbeat, Stamp, Shutdown, RecordOffline, Exit,
                  Kill, StaleTimeout, NetworkDrops
    <3> QED BY <3>1
  <2> QED BY <2>1, <2>2
<1> QED BY <1>1, IInvHolds, PTL DEF Spec, OnDiskIsSafe

\* flushEvents writes the batch that failed to disk, and what came in since; only
\* a file that cannot be written, or the end of the process, costs what it held.
THEOREM MemoryIsSafe == Spec => MemoryLostOnlyAtExit
<1>1. IInv /\ [Next]_vars =>
        \A e \in (buffer \cup flight.events) \ (buffer \cup flight.events \cup disk)' :
          handled[e] = 0 => phase' = "off" \/ PersistFails
  <2> SUFFICES ASSUME IInv, [Next]_vars, NEW e \in buffer \cup flight.events,
                      e \notin (buffer \cup flight.events \cup disk)', handled[e] = 0
               PROVE  phase' = "off" \/ PersistFails
    OBVIOUS
  <2>1. CASE FlushAnswered
    BY <2>1 DEF FlushAnswered, IInv, TypeOK, AnsweredHandled
  <2>2. CASE FlushFails
    BY <2>2 DEF FlushFails, PersistToDisk
  <2>3. CASE Exit \/ Kill \/ KillInWrite
    BY <2>3 DEF Exit, Kill, KillInWrite, Gone
  <2>4. CASE TimerFlush \/ \E d \in Events : Track(d)
    <3>1. \/ buffer \subseteq buffer' /\ flight' = flight
          \/ flight = NoFlight /\ \E es : buffer \subseteq es /\ flight' = Batch(es)
      BY <2>4 DEF TimerFlush, Track, FlushEvents, Flushing
    <3>2. CASE flight = NoFlight /\ \E es : buffer \subseteq es /\ flight' = Batch(es)
      <4>1. flight.events = {} /\ buffer \subseteq flight'.events
        BY <3>2 DEF Batch, NoFlight
      <4> QED BY <4>1
    <3> QED BY <3>1, <3>2
  <2>5. CASE FlushArrives
    BY <2>5 DEF FlushArrives, IInv, TypeOK
  <2>6. CASE UNCHANGED <<buffer, flight>>
    BY <2>6
  <2>7. \/ FlushAnswered \/ FlushFails \/ PersistFails \/ Exit \/ Kill \/ KillInWrite
        \/ TimerFlush \/ (\E d \in Events : Track(d)) \/ FlushArrives
        \/ UNCHANGED <<buffer, flight>>
    BY DEF Next, vars, memory, Launch, Authenticate, AuthenticationFails, LateArrives, Rest,
           ReplaySend, ReplayArrives, ReplayAnswered, ClearFails, ReplayFails, WriteBackFails,
           Heartbeat, TogglePage, PageHeartbeat, RecordHeartbeat, RecordBrowserHeartbeat, Stamp,
           Shutdown, RecordOffline, StaleTimeout, NetworkDrops
  <2> QED BY <2>1, <2>2, <2>3, <2>4, <2>5, <2>6, <2>7
<1> QED BY <1>1, IInvHolds, PTL DEF Spec, MemoryLostOnlyAtExit
=============================================================================
