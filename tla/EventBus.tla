-------------------------------- MODULE EventBus --------------------------------
(***************************************************************************)
(* The telemetry Bus of internal/telemetry with its two sinks, as the      *)
(* programs set it up: a MemorySink that retains the last events, then a   *)
(* JSONLSink.  Publishers number an event and enqueue it while they hold   *)
(* b.mu for reading; run() takes events from the channel and writes each   *)
(* to both sinks; Close takes b.mu for writing, closes the channel and     *)
(* waits for run() to end.                                                 *)
(***************************************************************************)
EXTENDS Integers, FiniteSets, SequencesExt

CONSTANTS
  Publishers,   \* goroutines that call Publish
  Closers,      \* goroutines that call Close
  Kinds,        \* event kinds
  BufferSize,   \* capacity of the channel b.queue
  MaxEvents,    \* MemorySink.maxEvents; zero is unlimited
  MaxSequence,  \* bound of the model: how many events are numbered
  NoEvent

ASSUME BufferIsPositive == BufferSize \in Nat \ {0}
ASSUME RetentionIsNatural == MaxEvents \in Nat
ASSUME BoundIsNatural == MaxSequence \in Nat
ASSUME FinitePublishers == IsFiniteSet(Publishers)

Events == [sequence : Nat, kind : Kinds, from : Publishers]
ASSUME NoEventIsNone == NoEvent \notin Events

VARIABLES
  closed,      \* b.closed; the channel is closed with it
  queue,       \* b.queue
  sequence,    \* b.sequence
  published,   \* b.published
  delivered,   \* b.delivered
  sinkErrors,  \* b.sinkErrors
  publisher,   \* where each Publish is: "sending" and "sent" hold b.mu for reading
  event,       \* the event of a publisher inside Publish
  closer,      \* where each Close is: "locking" waits for b.mu, "once" for closeOnce
  runner,      \* where run() is
  current,     \* the event run() is delivering
  memory,      \* MemorySink.events
  log          \* the lines of the JSONL file

vars == <<closed, queue, sequence, published, delivered, sinkErrors, publisher, event,
          closer, runner, current, memory, log>>

Init ==
  /\ closed = FALSE
  /\ queue = <<>>
  /\ sequence = 0
  /\ published = 0
  /\ delivered = 0
  /\ sinkErrors = 0
  /\ publisher = [p \in Publishers |-> "idle"]
  /\ event = [p \in Publishers |-> NoEvent]
  /\ closer = [c \in Closers |-> "idle"]
  /\ runner = "receiving"
  /\ current = NoEvent
  /\ memory = <<>>
  /\ log = <<>>

Inside == {p \in Publishers : publisher[p] # "idle"}
Sent == {p \in Publishers : publisher[p] = "sent"}

-----------------------------------------------------------------------------
(* Publish *)

\* b.mu.RLock: a writer that waits keeps new readers out.
MayRead == \A c \in Closers : closer[c] # "locking"

\* b.mu.RLock, the check of b.closed, and the next sequence number.  A closed bus
\* answers ErrBusClosed and changes nothing.
PublishNumber(p) ==
  /\ publisher[p] = "idle"
  /\ MayRead
  /\ ~closed
  /\ sequence < MaxSequence
  /\ sequence' = sequence + 1
  /\ \E k \in Kinds :
       event' = [event EXCEPT ![p] = [sequence |-> sequence + 1, kind |-> k, from |-> p]]
  /\ publisher' = [publisher EXCEPT ![p] = "sending"]
  /\ UNCHANGED <<closed, queue, published, delivered, sinkErrors, closer, runner, current,
                 memory, log>>

\* The channel takes the event.
PublishSend(p) ==
  /\ publisher[p] = "sending"
  /\ Len(queue) < BufferSize
  /\ queue' = Append(queue, event[p])
  /\ publisher' = [publisher EXCEPT ![p] = "sent"]
  /\ UNCHANGED <<closed, sequence, published, delivered, sinkErrors, event, closer, runner,
                 current, memory, log>>

\* published.Add and b.mu.RUnlock.
PublishReturn(p) ==
  /\ publisher[p] = "sent"
  /\ published' = published + 1
  /\ publisher' = [publisher EXCEPT ![p] = "idle"]
  /\ event' = [event EXCEPT ![p] = NoEvent]
  /\ UNCHANGED <<closed, queue, sequence, delivered, sinkErrors, closer, runner, current,
                 memory, log>>

\* Mutant: the number of a dropped event is given back.
PublishExpireGivesBack(p) ==
  /\ publisher[p] = "sending"
  /\ publisher' = [publisher EXCEPT ![p] = "idle"]
  /\ event' = [event EXCEPT ![p] = NoEvent]
  /\ sequence' = sequence - 1
  /\ UNCHANGED <<closed, queue, published, delivered, sinkErrors, closer, runner, current,
                 memory, log>>

\* ctx ends first: the event is dropped, its number is not given back.
PublishExpire(p) ==
  /\ publisher[p] = "sending"
  /\ publisher' = [publisher EXCEPT ![p] = "idle"]
  /\ event' = [event EXCEPT ![p] = NoEvent]
  /\ UNCHANGED <<closed, queue, sequence, published, delivered, sinkErrors, closer, runner,
                 current, memory, log>>

-----------------------------------------------------------------------------
(* Close *)

\* The first Close runs closeOnce and asks for b.mu; a concurrent one waits in Do.
CloseCall(c) ==
  /\ closer[c] = "idle"
  /\ closer' = [closer EXCEPT ![c] =
       IF closed THEN "waiting"
       ELSE IF \E d \in Closers : closer[d] = "locking" THEN "once" ELSE "locking"]
  /\ UNCHANGED <<closed, queue, sequence, published, delivered, sinkErrors, publisher, event,
                 runner, current, memory, log>>

\* Mutant: b.mu is taken for reading.
LockedShared == TRUE

\* b.mu.Lock is granted when no publisher is inside.
Locked == Inside = {}

CloseQueue(c) ==
  /\ closer[c] = "locking"
  /\ Locked
  /\ closed' = TRUE
  /\ closer' = [d \in Closers |-> IF closer[d] \in {"locking", "once"} THEN "waiting" ELSE closer[d]]
  /\ UNCHANGED <<queue, sequence, published, delivered, sinkErrors, publisher, event, runner,
                 current, memory, log>>

\* b.done is closed: Close answers with b.Error.
CloseReturn(c) ==
  /\ closer[c] = "waiting"
  /\ runner = "done"
  /\ closer' = [closer EXCEPT ![c] = IF sinkErrors = 0 THEN "clean" ELSE "failed"]
  /\ UNCHANGED <<closed, queue, sequence, published, delivered, sinkErrors, publisher, event,
                 runner, current, memory, log>>

\* ctx ends first.
CloseExpire(c) ==
  /\ closer[c] = "waiting"
  /\ closer' = [closer EXCEPT ![c] = "idle"]
  /\ UNCHANGED <<closed, queue, sequence, published, delivered, sinkErrors, publisher, event,
                 runner, current, memory, log>>

-----------------------------------------------------------------------------
(* run *)

Receive ==
  /\ runner = "receiving"
  /\ queue # <<>>
  /\ current' = Head(queue)
  /\ queue' = Tail(queue)
  /\ runner' = "memory"
  /\ UNCHANGED <<closed, sequence, published, delivered, sinkErrors, publisher, event, closer,
                 memory, log>>

\* Mutants: nothing is forgotten; one event too many is.
RetainedAll(events) == events
RetainedShort(events) ==
  IF MaxEvents > 0 /\ Len(events) > MaxEvents
    THEN SubSeq(events, Len(events) - MaxEvents + 2, Len(events)) ELSE events

\* The last MaxEvents events.
Retained(events) ==
  IF MaxEvents > 0 /\ Len(events) > MaxEvents
    THEN SubSeq(events, Len(events) - MaxEvents + 1, Len(events)) ELSE events

WriteMemory ==
  /\ runner = "memory"
  /\ memory' = Retained(Append(memory, current))
  /\ runner' = "log"
  /\ UNCHANGED <<closed, queue, sequence, published, delivered, sinkErrors, publisher, event,
                 closer, current, log>>

\* Mutant: a failed write counts no error.
ErrorsAfterSilent(failed) == sinkErrors

\* recordError
ErrorsAfter(failed) == IF failed THEN sinkErrors + 1 ELSE sinkErrors

\* Mutant: counted inside the loop over the sinks.
CountedPerSink == delivered + 2

\* delivered.Add, after the loop over the sinks.
Counted == delivered + 1

\* Encode or Sync may fail, the one without and the other with the line in the file.
\* An error is recorded and the event counts as delivered all the same.
WriteLog ==
  /\ runner = "log"
  /\ \E encoded, synced \in BOOLEAN :
       /\ log' = IF encoded THEN Append(log, current) ELSE log
       /\ sinkErrors' = ErrorsAfter(~encoded \/ ~synced)
  /\ delivered' = Counted
  /\ current' = NoEvent
  /\ runner' = "receiving"
  /\ UNCHANGED <<closed, queue, sequence, published, publisher, event, closer, memory>>

\* Mutants: run leaves with events in the channel; the channel is never closed.
DrainedWhenClosed == closed
DrainedNever == FALSE

\* The range over the channel ends: closed and empty.
Drained == closed /\ queue = <<>>

\* JSONLSink.Close may fail too; then b.done is closed.
CloseSinks ==
  /\ runner = "receiving"
  /\ Drained
  /\ \E failed \in BOOLEAN : sinkErrors' = ErrorsAfter(failed)
  /\ runner' = "done"
  /\ UNCHANGED <<closed, queue, sequence, published, delivered, publisher, event, closer,
                 current, memory, log>>

-----------------------------------------------------------------------------
Publish(p) == PublishNumber(p) \/ PublishSend(p) \/ PublishReturn(p) \/ PublishExpire(p)
Close(c) == CloseCall(c) \/ CloseQueue(c) \/ CloseReturn(c) \/ CloseExpire(c)
Run == Receive \/ WriteMemory \/ WriteLog \/ CloseSinks

Next ==
  \/ \E p \in Publishers : Publish(p)
  \/ \E c \in Closers : Close(c)
  \/ Run

Spec == Init /\ [][Next]_vars

\* run() is never stopped, and a call inside Publish or Close goes on when it can.
\* A context need not end, nor a client call.
Fairness ==
  /\ WF_vars(Run)
  /\ \A p \in Publishers : WF_vars(PublishSend(p)) /\ WF_vars(PublishReturn(p))
  /\ \A c \in Closers : WF_vars(CloseQueue(c)) /\ WF_vars(CloseReturn(c))

FairSpec == Spec /\ Fairness

-----------------------------------------------------------------------------
(* What must hold *)

\* Every variable keeps its type, the MemorySink within its retention.
TypeOK ==
  /\ closed \in BOOLEAN
  /\ queue \in Seq(Events)
  /\ sequence \in Nat
  /\ published \in Nat
  /\ delivered \in Nat
  /\ sinkErrors \in Nat
  /\ publisher \in [Publishers -> {"idle", "sending", "sent"}]
  /\ event \in [Publishers -> Events \cup {NoEvent}]
  /\ closer \in [Closers -> {"idle", "locking", "once", "waiting", "clean", "failed"}]
  /\ runner \in {"receiving", "memory", "log", "done"}
  /\ current \in Events \cup {NoEvent}
  /\ memory \in Seq(Events)
  /\ MaxEvents > 0 => Len(memory) <= MaxEvents
  /\ log \in Seq(Events)

\* No Publish is under way on a closed bus: a send would panic.
NoSendOnClosed == closed => Inside = {}

\* No accepted event is lost or counted twice: what was accepted is delivered, in
\* run's hands or in the channel, which never holds more than its capacity.
EventsAreAccounted ==
  /\ published + Cardinality(Sent) =
       delivered + Len(queue) + (IF runner \in {"memory", "log"} THEN 1 ELSE 0)
  /\ Len(queue) <= BufferSize

\* Close that answers nil has drained the bus: every published event is in the log.
CloseDrains ==
  (\E c \in Closers : closer[c] = "clean") =>
    queue = <<>> /\ delivered = published /\ Len(log) = published

\* Between two events, and while no sink has failed, memory is the tail of the log,
\* as long as retention allows.
MemoryIsTailOfLog ==
  runner \in {"receiving", "done"} /\ sinkErrors = 0 =>
    /\ Len(memory) = IF MaxEvents > 0 /\ Len(log) > MaxEvents THEN MaxEvents ELSE Len(log)
    /\ \A i \in DOMAIN memory : memory[i] = log[Len(log) - Len(memory) + i]

Before(e, f) ==
  /\ e.sequence # f.sequence
  /\ e.from = f.from => e.sequence < f.sequence

\* The events of one publisher are logged in the order it published them, and no
\* sequence number is logged twice.
PublisherOrder == \A i, j \in DOMAIN log : i < j => Before(log[i], log[j])

\* What README.md says of Sequence: globally contiguous.  In the log of a bus whose
\* sinks have not failed the events are numbered 1, 2, 3, ...
SequenceIsContiguous ==
  sinkErrors = 0 => \A i \in DOMAIN log : log[i].sequence = i

\* A Close that has begun ends: publishers get out of its way and run drains the
\* channel.
CloseEnds == \A c \in Closers : (closer[c] = "locking") ~> (runner = "done" /\ closed)
===============================================================================
