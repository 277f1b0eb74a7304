----------------------------- MODULE EventStream -----------------------------
(***************************************************************************)
(* The event journal and a client that follows it: goroutines of a run make  *)
(* events and append them (events.NewEvent, Store.AppendEvents), the store   *)
(* wrapper mirrors them to the broker (storage/streaming_store.go), the      *)
(* consumer hands them to the hub, and GET /workflows/:id/stream writes them *)
(* to the client (api/handlers/stream_workflow.go), from the database every  *)
(* second or from a snapshot and the hub.                                    *)
(*                                                                          *)
(* One workflow, one client.  Time is in ticks.  No code makes an event of a *)
(* terminal type, so terminalEvent never closes a stream.                    *)
(***************************************************************************)
EXTENDS Integers, FiniteSets, SequencesExt

CONSTANTS
  Events,        (* journal entries of the workflow                        *)
  TicksPerSecond,
  MaxClock,      (* bound: ticks                                           *)
  HubBuffer,     (* capacity of a subscriber's channel                     *)
  MaxEvFaults    (* bound: broker and store failures                       *)

ASSUME EventStreamAssumption ==
  /\ TicksPerSecond \in Nat \ {0}
  /\ MaxClock \in Nat
  /\ HubBuffer \in Nat \ {0}
  /\ MaxEvFaults \in Nat

VARIABLES
  evClock,       (* now, in ticks                                          *)
  evStore,       (* the database driver                                    *)
  made,          (* made[e]: OccurredAt of e, Never before it exists       *)
  journal,       (* workflow_events, in the order of insertion             *)
  topic,         (* records the consumer has not fetched yet               *)
  ended,         (* the row's status is terminal                           *)
  conn,          (* [at, transport]: the request                           *)
  wrote,         (* events written to the client                           *)
  lastTime,      (* lastEventTime                                          *)
  channel,       (* the subscriber's channel                               *)
  seen,          (* ghost: journal entries a listing of the stream returned,*)
                 (* and records the hub put into the channel               *)
  evFaults

connVars == <<conn, wrote, lastTime, channel, seen>>
evVars == <<evClock, evStore, made, journal, topic, ended, connVars, evFaults>>

Never == -1

EvInit ==
  /\ evClock = 0
  /\ evStore \in {"sqlite", "postgres"}
  /\ made = [e \in Events |-> Never]
  /\ journal = <<>>
  /\ topic = <<>>
  /\ ended = FALSE
  /\ conn = [at |-> "none", transport |-> "none"]
  /\ wrote = <<>>
  /\ lastTime = Never
  /\ channel = <<>>
  /\ seen = {}
  /\ evFaults = 0

EvFault == evFaults < MaxEvFaults /\ evFaults' = evFaults + 1

-----------------------------------------------------------------------------
(* The journal.                                                              *)

Tick ==
  /\ evClock < MaxClock
  /\ evClock' = evClock + 1
  /\ UNCHANGED <<evStore, made, journal, topic, ended, connVars, evFaults>>

NewEvent(e) ==
  /\ made[e] = Never
  /\ made' = [made EXCEPT ![e] = evClock]
  /\ UNCHANGED <<evClock, evStore, journal, topic, ended, connVars, evFaults>>

\* PublishWorkflowEvent: the client's buffer keeps the order of the calls, which
\* is not the order of OccurredAt; it may give a record up, and only logs that.
Publish(e) ==
  \/ topic' = Append(topic, e) /\ UNCHANGED evFaults
  \/ EvFault /\ UNCHANGED topic

\* streamingStore.AppendEvents: committed, then handed to the producer.
AppendEvents(e) ==
  /\ made[e] # Never /\ e \notin ToSet(journal)
  /\ journal' = Append(journal, e)
  /\ Publish(e)
  /\ UNCHANGED <<evClock, evStore, made, ended, connVars>>

\* UpdateWorkflowStatus or SaveWorkflow: other goroutines may append still.
WorkflowEnds ==
  /\ ~ended
  /\ ended' = TRUE
  /\ UNCHANGED <<evClock, evStore, made, journal, topic, connVars, evFaults>>

\* SQLite keeps whole seconds, Postgres all of the time.
WholeSeconds(t) == (t \div TicksPerSecond) * TicksPerSecond
Stored(e) == IF evStore = "sqlite" THEN WholeSeconds(made[e]) ELSE made[e]

\* ORDER BY occurred_at; ties as they were inserted.
Before(d, e) ==
  LET at(x) == CHOOSE i \in DOMAIN journal : journal[i] = x
  IN Stored(d) < Stored(e) \/ (Stored(d) = Stored(e) /\ at(d) < at(e))
\* The k-th of the listing is the entry that k - 1 entries come before.
Earlier(e) == {d \in ToSet(journal) : Before(d, e)}
ListEvents ==
  [k \in DOMAIN journal |-> CHOOSE e \in ToSet(journal) : Cardinality(Earlier(e)) = k - 1]

-----------------------------------------------------------------------------
(* The request.  "open": the row was read and was not terminal.  "terminal": *)
(* it was.  "polled": a poll has listed the journal and reads the row next.  *)
(* "listed": the snapshot is written.  "live": subscribed.                   *)

StreamWorkflowEvents(t) ==
  /\ conn.at = "none"
  /\ conn' = [at |-> IF ended THEN "terminal" ELSE "open", transport |-> t]
  /\ UNCHANGED <<evClock, evStore, made, journal, topic, ended,
                 wrote, lastTime, channel, seen, evFaults>>

StreamGoes(to) == conn' = [conn EXCEPT !.at = to]
StreamFrame == UNCHANGED <<evClock, evStore, made, journal, topic, ended>>

WriteTerminalSnapshot ==
  /\ conn.at = "terminal"
  /\ wrote' = ListEvents
  /\ seen' = ToSet(journal)
  /\ StreamGoes("closed")
  /\ StreamFrame /\ UNCHANGED <<lastTime, channel, evFaults>>

\* evt.OccurredAt.After(lastEventTime)
IsNew(t, last) == t > last

\* The loop over a listing; lastEventTime moves with every event it writes.
AfterEntry(e, acc) ==
  IF IsNew(Stored(e), acc.last)
  THEN [out |-> Append(acc.out, e), last |-> Stored(e)] ELSE acc
PollWrites ==
  LET after[k \in 0..Len(ListEvents)] ==
        IF k = 0 THEN [out |-> wrote, last |-> lastTime]
        ELSE AfterEntry(ListEvents[k], after[k - 1])
  IN after[Len(ListEvents)]

DatabasePoll ==
  /\ conn.at = "open" /\ conn.transport = "database"
  /\ wrote' = PollWrites.out
  /\ lastTime' = PollWrites.last
  /\ seen' = ToSet(journal)
  /\ StreamGoes("polled")
  /\ StreamFrame /\ UNCHANGED <<channel, evFaults>>

PollReadsRow ==
  /\ conn.at = "polled"
  /\ StreamGoes(IF ended THEN "closed" ELSE "open")
  /\ StreamFrame /\ UNCHANGED <<wrote, lastTime, channel, seen, evFaults>>

\* All of the listing is written; lastEventTime is the latest of it.
RedpandaSnapshot ==
  /\ conn.at = "open" /\ conn.transport = "redpanda"
  /\ wrote' = ListEvents
  /\ lastTime' = IF journal = <<>> THEN Never ELSE Stored(Last(ListEvents))
  /\ seen' = ToSet(journal)
  /\ StreamGoes("listed")
  /\ StreamFrame /\ UNCHANGED <<channel, evFaults>>

\* The listing failed: the stream goes on without a snapshot.
RedpandaSnapshotFails ==
  /\ conn.at = "open" /\ conn.transport = "redpanda"
  /\ EvFault
  /\ StreamGoes("listed")
  /\ StreamFrame /\ UNCHANGED <<wrote, lastTime, channel, seen>>

Subscribe ==
  /\ conn.at = "listed"
  /\ StreamGoes("live")
  /\ StreamFrame /\ UNCHANGED <<wrote, lastTime, channel, seen, evFaults>>

\* Consumer.Run fetches one record after the other.
Fetched == topic # <<>> /\ topic' = Tail(topic)

\* Hub.Publish: a full channel loses the event.
HubPublish ==
  /\ Fetched
  /\ IF conn.at = "live" /\ Len(channel) < HubBuffer
     THEN channel' = Append(channel, Head(topic)) /\ seen' = seen \cup {Head(topic)}
     ELSE UNCHANGED <<channel, seen>>
  /\ UNCHANGED <<evClock, evStore, made, journal, ended, conn, wrote, lastTime, evFaults>>

\* Mutant of LiveFilter: the IDs of the snapshot are not remembered.
FilterByTime(e) == lastTime = Never \/ IsNew(made[e], lastTime)
\* Not written yet and, once anything was written, later than all of it.
LiveFilter(e) ==
  /\ e \notin ToSet(wrote)
  /\ lastTime = Never \/ IsNew(made[e], lastTime)

RedpandaReceive ==
  /\ conn.at = "live" /\ channel # <<>>
  /\ channel' = Tail(channel)
  /\ IF LiveFilter(Head(channel))
     THEN wrote' = Append(wrote, Head(channel)) /\ lastTime' = made[Head(channel)]
     ELSE UNCHANGED <<wrote, lastTime>>
  /\ StreamFrame /\ UNCHANGED <<conn, seen, evFaults>>

RedpandaKeepalive ==
  /\ conn.at = "live" /\ ended
  /\ StreamGoes("closed")
  /\ channel' = <<>>
  /\ StreamFrame /\ UNCHANGED <<wrote, lastTime, seen, evFaults>>

\* The deadline passed or the client left, and Unsubscribe closed the channel.
StreamTimesOut ==
  /\ conn.at \in {"open", "live"}
  /\ EvFault
  /\ StreamGoes("gone")
  /\ channel' = <<>>
  /\ StreamFrame /\ UNCHANGED <<wrote, lastTime, seen>>

RequestNext ==
  \/ WriteTerminalSnapshot
  \/ DatabasePoll \/ PollReadsRow
  \/ RedpandaSnapshot \/ Subscribe \/ RedpandaReceive \/ RedpandaKeepalive

EvNext ==
  \/ Tick
  \/ \E e \in Events : NewEvent(e) \/ AppendEvents(e)
  \/ WorkflowEnds
  \/ \E t \in {"database", "redpanda"} : StreamWorkflowEvents(t)
  \/ RequestNext \/ RedpandaSnapshotFails \/ HubPublish \/ StreamTimesOut

EvTypeOK ==
  /\ evClock \in 0..MaxClock /\ evStore \in {"sqlite", "postgres"}
  /\ made \in [Events -> {Never} \cup 0..MaxClock]
  /\ ToSet(journal) \cup ToSet(topic) \cup ToSet(channel) \cup ToSet(wrote) \subseteq Events
  /\ ended \in BOOLEAN
  /\ conn.at \in {"none", "open", "terminal", "polled", "listed", "live", "closed", "gone"}
  /\ lastTime \in {Never} \cup 0..MaxClock
  /\ Len(channel) <= HubBuffer

EvSpec == EvInit /\ [][EvNext]_evVars

-----------------------------------------------------------------------------
(* An entry that the stream took up is written, waits in the channel, or     *)
(* comes with a stored time not later than another one that was written: the *)
(* reader loses an event only to the comparison of times, and never gets one *)
(* twice (stream_workflow.go).                                               *)
Overtaken(e) == \E d \in ToSet(wrote) : Stored(d) >= Stored(e)
LossExplained ==
  /\ \A e \in seen : e \in ToSet(channel) \/ Overtaken(e) \/ conn.at \in {"closed", "gone"}
  /\ \A i, j \in DOMAIN wrote : wrote[i] = wrote[j] => i = j
=============================================================================
