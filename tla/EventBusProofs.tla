----------------------------- MODULE EventBusProofs -----------------------------
(***************************************************************************)
(* Theorems about EventBus, for any publishers, closers, kinds, buffer and *)
(* retention, and about EventWatch.                                        *)
(***************************************************************************)
EXTENDS EventWatch, Inductions, SequenceTheorems, FiniteSetTheorems, TLAPS

(* What the MemorySink keeps of a sequence: its tail, within the retention. *)
LEMMA RetainedProperties ==
  ASSUME NEW events \in Seq(Events)
  PROVE  /\ Retained(events) \in Seq(Events)
         /\ Len(Retained(events)) =
              IF MaxEvents > 0 /\ Len(events) > MaxEvents THEN MaxEvents ELSE Len(events)
         /\ \A i \in 1 .. Len(Retained(events)) :
              Retained(events)[i] = events[Len(events) - Len(Retained(events)) + i]
<1> DEFINE n == Len(events)
<1>1. n \in Nat /\ MaxEvents \in Nat /\ DOMAIN events = 1 .. n
  BY LenProperties, RetentionIsNatural
<1>2. CASE MaxEvents > 0 /\ n > MaxEvents
  <2> DEFINE tail == SubSeq(events, n - MaxEvents + 1, n)
  <2>1. \A i \in n - MaxEvents + 1 .. n : events[i] \in Events
    BY <1>1, <1>2, ElementOfSeq
  <2>2. tail \in Seq(Events) /\ Len(tail) = MaxEvents
        /\ \A i \in 1 .. MaxEvents : tail[i] = events[n - MaxEvents + i]
    BY <1>1, <1>2, <2>1, SubSeqProperties, Z3
  <2>3. Retained(events) = tail
    BY <1>2 DEF Retained
  <2> QED
    BY <1>2, <2>2, <2>3
<1>3. CASE ~(MaxEvents > 0 /\ n > MaxEvents)
  <2>1. Retained(events) = events
    BY <1>3 DEF Retained
  <2>2. \A i \in 1 .. n : events[i] = events[n - n + i]
    BY <1>1
  <2> QED
    BY <1>3, <2>1, <2>2
<1> QED
  BY <1>2, <1>3

-----------------------------------------------------------------------------
(* Types *)

\* What a publisher inside Publish and a delivering run() have in hand.
InHand ==
  /\ \A p \in Publishers :
       IF publisher[p] = "idle" THEN event[p] = NoEvent ELSE event[p] \in Events /\ event[p].from = p
  /\ IF runner \in {"memory", "log"} THEN current \in Events ELSE current = NoEvent

Typing == TypeOK /\ InHand

LEMMA InitTyping == Init => Typing
<1> SUFFICES ASSUME Init PROVE Typing
  OBVIOUS
<1>1. queue \in Seq(Events) /\ memory \in Seq(Events) /\ log \in Seq(Events) /\ Len(memory) = 0
  BY EmptySeq DEF Init
<1>2. MaxEvents > 0 => Len(memory) <= MaxEvents
  BY <1>1, RetentionIsNatural
<1> QED
  BY <1>1, <1>2 DEF Init, Typing, TypeOK, InHand

LEMMA NextTyping ==
  ASSUME Typing, [Next]_vars
  PROVE  Typing'
<1> USE DEF Typing, TypeOK, InHand
<1>1. ASSUME NEW p \in Publishers, PublishNumber(p) PROVE Typing'
  <2>1. PICK k \in Kinds :
          event' = [event EXCEPT ![p] = [sequence |-> sequence + 1, kind |-> k, from |-> p]]
    BY <1>1 DEF PublishNumber
  <2>2. [sequence |-> sequence + 1, kind |-> k, from |-> p] \in Events
    BY DEF Events
  <2> QED
    BY <1>1, <2>1, <2>2 DEF PublishNumber
<1>2. ASSUME NEW p \in Publishers, PublishSend(p) PROVE Typing'
  <2>1. event[p] \in Events
    BY <1>2 DEF PublishSend
  <2>2. queue' \in Seq(Events)
    BY <1>2, <2>1, AppendProperties DEF PublishSend
  <2> QED
    BY <1>2, <2>2 DEF PublishSend
<1>3. ASSUME NEW p \in Publishers, PublishReturn(p) PROVE Typing'
  BY <1>3 DEF PublishReturn
<1>4. ASSUME NEW p \in Publishers, PublishExpire(p) PROVE Typing'
  BY <1>4 DEF PublishExpire
<1>5. ASSUME NEW c \in Closers, Close(c) PROVE Typing'
  BY ZenonT(30), <1>5 DEF Close, CloseCall, CloseQueue, CloseReturn, CloseExpire
<1>6. CASE Receive
  <2>1. current' \in Events /\ queue' \in Seq(Events)
    BY <1>6, HeadTailProperties DEF Receive
  <2> QED
    BY <1>6, <2>1 DEF Receive
<1>7. CASE WriteMemory
  <2>1. Append(memory, current) \in Seq(Events)
    BY <1>7, AppendProperties DEF WriteMemory
  <2>2. memory' = Retained(Append(memory, current))
    BY <1>7 DEF WriteMemory
  <2>3. memory' \in Seq(Events)
    BY <2>1, <2>2, RetainedProperties
  <2>4. Len(memory') = IF MaxEvents > 0 /\ Len(Append(memory, current)) > MaxEvents
                        THEN MaxEvents ELSE Len(Append(memory, current))
    BY <2>1, <2>2, RetainedProperties
  <2>5. Len(Append(memory, current)) \in Nat
    BY <2>1, LenProperties
  <2>6. MaxEvents > 0 => Len(memory') <= MaxEvents
    BY <2>4, <2>5, RetentionIsNatural
  <2> QED
    BY <1>7, <2>3, <2>6 DEF WriteMemory
<1>8. CASE WriteLog
  <2>1. PICK encoded \in BOOLEAN, synced \in BOOLEAN :
          /\ log' = IF encoded THEN Append(log, current) ELSE log
          /\ sinkErrors' = ErrorsAfter(~encoded \/ ~synced)
    BY <1>8 DEF WriteLog
  <2>2. log' \in Seq(Events)
    BY <1>8, <2>1, AppendProperties DEF WriteLog
  <2>3. sinkErrors' \in Nat /\ delivered' \in Nat
    BY <1>8, <2>1 DEF WriteLog, ErrorsAfter, Counted
  <2> QED
    BY <1>8, <2>2, <2>3 DEF WriteLog
<1>9. CASE CloseSinks
  BY <1>9 DEF CloseSinks, ErrorsAfter
<1>10. CASE UNCHANGED vars
  BY <1>10 DEF vars
<1> QED
  BY <1>1, <1>2, <1>3, <1>4, <1>5, <1>6, <1>7, <1>8, <1>9, <1>10
  DEF Next, Publish, Run

\* Every variable keeps its type, and the MemorySink stays within its retention.
THEOREM BusTypes == Spec => []TypeOK
<1>1. Typing => TypeOK
  BY DEF Typing
<1> QED
  BY <1>1, InitTyping, NextTyping, PTL DEF Spec

-----------------------------------------------------------------------------
(* Accounting *)

\* After run() has left, nothing is in the channel and nothing can enter it; and the
\* log of sinks that never failed has every delivered event.
Quiet ==
  /\ runner = "done" => closed /\ queue = <<>>
  /\ sinkErrors = 0 => Len(log) = delivered
  /\ \A c \in Closers : closer[c] = "clean" => runner = "done" /\ sinkErrors = 0

Accounting == NoSendOnClosed /\ EventsAreAccounted /\ Quiet

LEMMA SentIsFinite == IsFiniteSet(Sent) /\ Cardinality(Sent) \in Nat
BY FinitePublishers, FS_Subset, FS_CardinalityType DEF Sent

\* Publishers that enqueue, or are counted, one at a time.
LEMMA SentGrows ==
  ASSUME Typing, NEW p \in Publishers, PublishSend(p)
  PROVE  Cardinality(Sent') = Cardinality(Sent) + 1
<1>1. Sent' = Sent \cup {p} /\ p \notin Sent
  BY DEF PublishSend, Sent, Typing, TypeOK
<1> QED
  BY <1>1, SentIsFinite, FS_AddElement

LEMMA SentShrinks ==
  ASSUME Typing, NEW p \in Publishers, PublishReturn(p)
  PROVE  Cardinality(Sent') = Cardinality(Sent) - 1
<1>1. Sent' = Sent \ {p} /\ p \in Sent
  BY DEF PublishReturn, Sent, Typing, TypeOK
<1> QED
  BY <1>1, SentIsFinite, FS_RemoveElement

LEMMA InitAccounting == Init => Accounting
<1> SUFFICES ASSUME Init PROVE Accounting
  OBVIOUS
<1>1. Sent = {} /\ Inside = {}
  BY DEF Init, Sent, Inside
<1>2. Cardinality(Sent) = 0
  BY <1>1, FS_EmptySet
<1> QED
  BY <1>1, <1>2, BufferIsPositive
  DEF Init, Accounting, NoSendOnClosed, EventsAreAccounted, Quiet

LEMMA NextAccounting ==
  ASSUME Typing, Accounting, [Next]_vars
  PROVE  Accounting'
<1> USE SentIsFinite, BufferIsPositive DEF Accounting, NoSendOnClosed, EventsAreAccounted, Quiet
<1>1. ASSUME NEW p \in Publishers, PublishNumber(p) PROVE Accounting'
  <2>1. Sent' = Sent
    BY <1>1 DEF PublishNumber, Sent, Typing, TypeOK
  <2> QED
    BY <1>1, <2>1 DEF PublishNumber, Typing, TypeOK
<1>2. ASSUME NEW p \in Publishers, PublishSend(p) PROVE Accounting'
  <2>1. Cardinality(Sent') = Cardinality(Sent) + 1
    BY <1>2, SentGrows
  <2>2. Len(queue') = Len(queue) + 1 /\ Len(queue) \in Nat
    BY <1>2, AppendProperties, LenProperties DEF PublishSend, Typing, TypeOK, InHand
  <2>3. ~closed
    BY <1>2 DEF PublishSend, Inside
  <2> QED
    BY <1>2, <2>1, <2>2, <2>3 DEF PublishSend, Typing, TypeOK
<1>3. ASSUME NEW p \in Publishers, PublishReturn(p) PROVE Accounting'
  <2>1. Cardinality(Sent') = Cardinality(Sent) - 1
    BY <1>3, SentShrinks
  <2>2. ~closed
    BY <1>3 DEF PublishReturn, Inside
  <2> QED
    BY <1>3, <2>1, <2>2 DEF PublishReturn, Typing, TypeOK
<1>4. ASSUME NEW p \in Publishers, PublishExpire(p) PROVE Accounting'
  <2>1. Sent' = Sent
    BY <1>4 DEF PublishExpire, Sent, Typing, TypeOK
  <2>2. ~closed
    BY <1>4 DEF PublishExpire, Inside
  <2> QED
    BY <1>4, <2>1, <2>2 DEF PublishExpire, Typing, TypeOK
<1>5. ASSUME NEW c \in Closers, Close(c) PROVE Accounting'
  <2>1. Sent' = Sent /\ Inside' = Inside
    BY <1>5 DEF Close, CloseCall, CloseQueue, CloseReturn, CloseExpire, Sent, Inside
  <2>2. CASE CloseCall(c)
    BY <2>1, <2>2 DEF CloseCall, Typing, TypeOK
  <2>3. CASE CloseQueue(c)
    BY <2>1, <2>3 DEF CloseQueue, Locked, Typing, TypeOK
  <2>4. CASE CloseReturn(c)
    BY <2>1, <2>4 DEF CloseReturn, Typing, TypeOK
  <2>5. CASE CloseExpire(c)
    BY <2>1, <2>5 DEF CloseExpire, Typing, TypeOK
  <2> QED
    BY <1>5, <2>2, <2>3, <2>4, <2>5 DEF Close
<1>6. CASE Receive
  <2>1. Sent' = Sent /\ Inside' = Inside
    BY <1>6 DEF Receive, Sent, Inside
  <2>2. Len(queue') = Len(queue) - 1 /\ Len(queue) \in Nat
    BY <1>6, HeadTailProperties, LenProperties DEF Receive, Typing, TypeOK
  <2> QED
    BY <1>6, <2>1, <2>2 DEF Receive, Typing, TypeOK
<1>7. CASE WriteMemory
  <2>1. Sent' = Sent /\ Inside' = Inside
    BY <1>7 DEF WriteMemory, Sent, Inside
  <2> QED
    BY <1>7, <2>1 DEF WriteMemory
<1>8. CASE WriteLog
  <2>1. Sent' = Sent /\ Inside' = Inside
    BY <1>8 DEF WriteLog, Sent, Inside
  <2>2. PICK encoded \in BOOLEAN, synced \in BOOLEAN :
          /\ log' = IF encoded THEN Append(log, current) ELSE log
          /\ sinkErrors' = ErrorsAfter(~encoded \/ ~synced)
    BY <1>8 DEF WriteLog
  <2>3. sinkErrors' = 0 => encoded /\ sinkErrors = 0
    BY <2>2 DEF ErrorsAfter, Typing, TypeOK
  <2>4. Len(Append(log, current)) = Len(log) + 1
    BY <1>8, AppendProperties DEF WriteLog, Typing, TypeOK, InHand
  <2>5. sinkErrors' = 0 => Len(log') = delivered'
    BY <1>8, <2>2, <2>3, <2>4 DEF WriteLog, Counted
  <2>6. \A c \in Closers : closer[c] # "clean"
    BY <1>8 DEF WriteLog
  <2>7. /\ published' + Cardinality(Sent') = delivered' + Len(queue')
        /\ Len(queue') <= BufferSize
    BY <1>8, <2>1, LenProperties DEF WriteLog, Counted, Typing, TypeOK
  <2> QED
    BY <1>8, <2>1, <2>5, <2>6, <2>7 DEF WriteLog, Typing, TypeOK
<1>9. CASE CloseSinks
  <2>1. Sent' = Sent /\ Inside' = Inside
    BY <1>9 DEF CloseSinks, Sent, Inside
  <2>2. \A c \in Closers : closer[c] # "clean"
    BY <1>9 DEF CloseSinks
  <2> QED
    BY <1>9, <2>1, <2>2 DEF CloseSinks, Drained, ErrorsAfter, Typing, TypeOK
<1>10. CASE UNCHANGED vars
  BY <1>10 DEF vars, Sent, Inside
<1> QED
  BY <1>1, <1>2, <1>3, <1>4, <1>5, <1>6, <1>7, <1>8, <1>9, <1>10
  DEF Next, Publish, Run

LEMMA BusAccounting == Spec => [](Typing /\ Accounting)
<1>1. Init => Typing /\ Accounting
  BY InitTyping, InitAccounting
<1>2. Typing /\ Accounting /\ [Next]_vars => (Typing /\ Accounting)'
  BY NextTyping, NextAccounting
<1> QED
  BY <1>1, <1>2, PTL DEF Spec

\* No Publish is ever under way on a closed bus, so none sends on a closed channel.
THEOREM NoSendOnClosedHolds == Spec => []NoSendOnClosed
<1>1. Accounting => NoSendOnClosed
  BY DEF Accounting
<1> QED
  BY <1>1, BusAccounting, PTL

\* Every event that the channel took is counted in exactly one place.
THEOREM EventsAreAccountedHolds == Spec => []EventsAreAccounted
<1>1. Accounting => EventsAreAccounted
  BY DEF Accounting
<1> QED
  BY <1>1, BusAccounting, PTL

\* A Close that answers nil leaves every published event in the log.
THEOREM CloseDrainsHolds == Spec => []CloseDrains
<1>1. Typing /\ Accounting => CloseDrains
  <2> SUFFICES ASSUME Typing, Accounting, NEW c \in Closers, closer[c] = "clean"
               PROVE  queue = <<>> /\ delivered = published /\ Len(log) = published
    BY DEF CloseDrains
  <2>1. closed /\ queue = <<>> /\ Len(log) = delivered /\ runner = "done"
    BY DEF Accounting, Quiet
  <2>2. Sent = {}
    BY <2>1 DEF Accounting, NoSendOnClosed, Inside, Sent
  <2>3. Cardinality(Sent) = 0 /\ Len(queue) = 0
    BY <2>1, <2>2, FS_EmptySet
  <2>4. published + 0 = delivered + 0 + 0
    BY <2>1, <2>3 DEF Accounting, EventsAreAccounted
  <2> QED
    BY <2>1, <2>4 DEF Typing, TypeOK
<1> QED
  BY <1>1, BusAccounting, PTL

-----------------------------------------------------------------------------
(* Memory and log *)

\* What the log will be once run() has written the event it has in hand.
LogToBe == IF runner = "log" THEN Append(log, current) ELSE log

IsTail(events) ==
  /\ Len(memory) = IF MaxEvents > 0 /\ Len(events) > MaxEvents THEN MaxEvents ELSE Len(events)
  /\ \A i \in 1 .. Len(memory) : memory[i] = events[Len(events) - Len(memory) + i]

MemoryFollowsLog == sinkErrors = 0 => IsTail(LogToBe)

LEMMA InitMemory == Init => MemoryFollowsLog
<1> SUFFICES ASSUME Init PROVE IsTail(log)
  BY DEF Init, MemoryFollowsLog, LogToBe
<1>1. Len(memory) = 0 /\ Len(log) = 0
  BY DEF Init
<1> QED
  BY <1>1, RetentionIsNatural DEF IsTail

\* Appending an event to memory and log, and forgetting the oldest, keeps the tail.
LEMMA TailGrows ==
  ASSUME NEW m \in Seq(Events), NEW l \in Seq(Events), NEW e \in Events,
         Len(m) = IF MaxEvents > 0 /\ Len(l) > MaxEvents THEN MaxEvents ELSE Len(l),
         \A i \in 1 .. Len(m) : m[i] = l[Len(l) - Len(m) + i]
  PROVE  LET r == Retained(Append(m, e))
             a == Append(l, e)
         IN /\ Len(r) = IF MaxEvents > 0 /\ Len(a) > MaxEvents THEN MaxEvents ELSE Len(a)
            /\ \A i \in 1 .. Len(r) : r[i] = a[Len(a) - Len(r) + i]
<1> DEFINE r == Retained(Append(m, e))
           a == Append(l, e)
           b == Append(m, e)
<1>1. /\ Len(m) \in Nat /\ Len(l) \in Nat /\ MaxEvents \in Nat
      /\ Len(a) = Len(l) + 1 /\ Len(b) = Len(m) + 1
      /\ \A i \in 1 .. Len(l) : a[i] = l[i]
      /\ \A i \in 1 .. Len(m) : b[i] = m[i]
      /\ a[Len(l) + 1] = e /\ b[Len(m) + 1] = e
  BY LenProperties, AppendProperties, RetentionIsNatural
<1>2. b \in Seq(Events)
  BY AppendProperties
<1>3. /\ Len(r) = IF MaxEvents > 0 /\ Len(b) > MaxEvents THEN MaxEvents ELSE Len(b)
      /\ \A i \in 1 .. Len(r) : r[i] = b[Len(b) - Len(r) + i]
  BY <1>2, RetainedProperties
<1> HIDE DEF r, a, b
<1>4. Len(r) = IF MaxEvents > 0 /\ Len(a) > MaxEvents THEN MaxEvents ELSE Len(a)
  BY <1>1, <1>3
<1>5. ASSUME NEW i \in 1 .. Len(r) PROVE r[i] = a[Len(a) - Len(r) + i]
  <2> DEFINE k == Len(b) - Len(r) + i
             n == Len(a) - Len(r) + i
  <2>1. k \in 1 .. Len(m) + 1 /\ n = Len(l) - Len(m) + k
    <3>1. Len(r) \in Nat /\ Len(r) <= Len(b)
      BY <1>1, <1>3
    <3>2. i \in Nat /\ 1 <= i /\ i <= Len(r)
      BY <3>1
    <3> HIDE DEF k, n
    <3>3. k = Len(b) - Len(r) + i /\ n = Len(a) - Len(r) + i
      BY Zenon DEF k, n
    <3>4. k \in Int /\ 1 <= k /\ k <= Len(m) + 1
      BY <1>1, <3>1, <3>2, <3>3
    <3>5. n = Len(l) - Len(m) + k
      <4>1. /\ Len(l) \in Int /\ Len(m) \in Int /\ Len(r) \in Int /\ i \in Int
            /\ Len(a) = Len(l) + 1 /\ Len(b) = Len(m) + 1
        BY <1>1, <3>1, <3>2
      <4>2. /\ n = (Len(l) + 1) - Len(r) + i
            /\ k = (Len(m) + 1) - Len(r) + i
        BY <3>3, <4>1, Zenon
      <4> QED
        BY SMTT(30), <4>1, <4>2
    <3>6. Len(m) + 1 \in Int
      BY <1>1
    <3>7. k \in 1 .. Len(m) + 1
      BY <3>4, <3>6
    <3> QED
      BY <3>5, <3>7, Zenon
  <2>2. r[i] = b[k]
    BY <1>3, Zenon
  <2> SUFFICES r[i] = a[n]
    BY Zenon
  <2> HIDE DEF k, n
  <2>3. CASE k = Len(m) + 1
    BY <1>1, <2>1, <2>2, <2>3
  <2>4. CASE k \in 1 .. Len(m)
    <3>1. b[k] = l[n]
      BY <1>1, <2>1, <2>4
    <3>2. n \in 1 .. Len(l)
      BY <1>1, <2>1, <2>4
    <3> QED
      BY <1>1, <2>2, <3>1, <3>2
  <2>5. k = Len(m) + 1 \/ k \in 1 .. Len(m)
    BY <1>1, <2>1
  <2> QED
    BY <2>3, <2>4, <2>5
<1> QED
  BY <1>4, <1>5 DEF r, a, b

LEMMA NextMemory ==
  ASSUME Typing, MemoryFollowsLog, [Next]_vars
  PROVE  MemoryFollowsLog'
<1> USE DEF MemoryFollowsLog
<1>1. ASSUME UNCHANGED <<memory, log, sinkErrors>>, LogToBe' = LogToBe PROVE MemoryFollowsLog'
  BY <1>1 DEF IsTail
<1>2. ASSUME NEW p \in Publishers, Publish(p) PROVE MemoryFollowsLog'
  BY <1>1, <1>2
  DEF Publish, PublishNumber, PublishSend, PublishReturn, PublishExpire, LogToBe
<1>3. ASSUME NEW c \in Closers, Close(c) PROVE MemoryFollowsLog'
  BY <1>1, <1>3 DEF Close, CloseCall, CloseQueue, CloseReturn, CloseExpire, LogToBe
<1>4. CASE Receive
  BY <1>1, <1>4 DEF Receive, LogToBe
<1>5. CASE WriteMemory
  <2>1. /\ LogToBe = log /\ LogToBe' = Append(log, current) /\ current \in Events
        /\ memory' = Retained(Append(memory, current)) /\ sinkErrors' = sinkErrors
    BY <1>5 DEF WriteMemory, LogToBe, Typing, InHand
  <2>2. memory \in Seq(Events) /\ log \in Seq(Events)
    BY DEF Typing, TypeOK
  <2> QED
    BY <2>1, <2>2, TailGrows, Zenon DEF IsTail
<1>6. CASE WriteLog
  <2>1. PICK encoded \in BOOLEAN, synced \in BOOLEAN :
          /\ log' = IF encoded THEN Append(log, current) ELSE log
          /\ sinkErrors' = ErrorsAfter(~encoded \/ ~synced)
    BY <1>6 DEF WriteLog
  <2>2. sinkErrors' = 0 => encoded /\ sinkErrors = 0
    BY <2>1 DEF ErrorsAfter, Typing, TypeOK
  <2>3. sinkErrors' = 0 => LogToBe' = LogToBe /\ memory' = memory
    BY <1>6, <2>1, <2>2 DEF WriteLog, LogToBe
  <2> QED
    BY <2>2, <2>3 DEF IsTail
<1>7. CASE CloseSinks
  <2>1. sinkErrors' = 0 => sinkErrors = 0
    BY <1>7 DEF CloseSinks, ErrorsAfter, Typing, TypeOK
  <2>2. LogToBe' = LogToBe /\ memory' = memory
    BY <1>7 DEF CloseSinks, LogToBe
  <2> QED
    BY <2>1, <2>2 DEF IsTail
<1>8. CASE UNCHANGED vars
  BY <1>1, <1>8 DEF vars, LogToBe
<1> QED
  BY <1>2, <1>3, <1>4, <1>5, <1>6, <1>7, <1>8 DEF Next, Run

\* While no sink fails, the query store is the tail of the durable log.
THEOREM MemoryIsTailOfLogHolds == Spec => []MemoryIsTailOfLog
<1>1. Init => Typing /\ MemoryFollowsLog
  BY InitTyping, InitMemory
<1>2. Typing /\ MemoryFollowsLog /\ [Next]_vars => (Typing /\ MemoryFollowsLog)'
  BY NextTyping, NextMemory
<1>3. Typing /\ MemoryFollowsLog => MemoryIsTailOfLog
  <2> SUFFICES ASSUME Typing, IsTail(log) PROVE MemoryIsTailOfLog
    BY DEF MemoryFollowsLog, LogToBe, MemoryIsTailOfLog
  <2> QED
    BY LenProperties DEF IsTail, MemoryIsTailOfLog, Typing, TypeOK
<1> QED
  BY <1>1, <1>2, <1>3, PTL DEF Spec

-----------------------------------------------------------------------------
(* Order *)

Ordered(s) == \A i, j \in 1 .. Len(s) : i < j => Before(s[i], s[j])
AllBefore(s, e) == \A i \in 1 .. Len(s) : Before(s[i], e)
Numbered(s) == \A i \in 1 .. Len(s) : s[i].sequence <= sequence
Delivering == runner \in {"memory", "log"}
Sending == {p \in Publishers : publisher[p] = "sending"}

\* What is written comes before what is being delivered, that before what is in the
\* channel, and that before what is about to enter it.
Written == Ordered(log) /\ Numbered(log) /\ \A j \in 1 .. Len(queue) : AllBefore(log, queue[j])
InChannel == Ordered(queue) /\ Numbered(queue)
InDelivery ==
  Delivering => /\ AllBefore(log, current)
                /\ current.sequence <= sequence
                /\ \A j \in 1 .. Len(queue) : Before(current, queue[j])
Entering ==
  /\ \A p \in Sending : /\ AllBefore(log, event[p])
                        /\ AllBefore(queue, event[p])
                        /\ Delivering => Before(current, event[p])
                        /\ event[p].sequence <= sequence
  /\ \A p, q \in Sending : p # q => event[p].sequence # event[q].sequence

Chain == Written /\ InChannel /\ InDelivery /\ Entering

LEMMA OrderedAppend ==
  ASSUME NEW s \in Seq(Events), NEW e \in Events, Ordered(s), AllBefore(s, e)
  PROVE  Ordered(Append(s, e))
<1>1. /\ Len(s) \in Nat /\ Len(Append(s, e)) = Len(s) + 1
      /\ \A i \in 1 .. Len(s) : Append(s, e)[i] = s[i]
      /\ Append(s, e)[Len(s) + 1] = e
  BY LenProperties, AppendProperties
<1> SUFFICES ASSUME NEW i \in 1 .. Len(s) + 1, NEW j \in 1 .. Len(s) + 1, i < j
             PROVE  Before(Append(s, e)[i], Append(s, e)[j])
  BY <1>1 DEF Ordered
<1>2. i \in 1 .. Len(s) /\ Append(s, e)[i] = s[i]
  BY <1>1
<1>3. CASE j = Len(s) + 1
  BY <1>1, <1>2, <1>3 DEF AllBefore
<1>4. CASE j \in 1 .. Len(s)
  BY <1>1, <1>2, <1>4 DEF Ordered
<1> QED
  BY <1>1, <1>3, <1>4

\* A fact about every event of s and about e is one about every event of Append(s, e).
LEMMA ElementsOfAppend ==
  ASSUME NEW s \in Seq(Events), NEW e, e \in Events, NEW i \in 1 .. Len(Append(s, e))
  PROVE  Append(s, e)[i] = e \/ (i \in 1 .. Len(s) /\ Append(s, e)[i] = s[i])
<1>1. /\ Len(s) \in Nat /\ Len(Append(s, e)) = Len(s) + 1
      /\ \A k \in 1 .. Len(s) : Append(s, e)[k] = s[k]
      /\ Append(s, e)[Len(s) + 1] = e
  BY LenProperties, AppendProperties
<1> QED
  BY <1>1

LEMMA InitChain == Init => Chain
<1> SUFFICES ASSUME Init PROVE Chain
  OBVIOUS
<1>1. Len(log) = 0 /\ Len(queue) = 0 /\ Sending = {} /\ ~Delivering
  BY DEF Init, Sending, Delivering
<1> QED
  BY <1>1
  DEF Chain, Written, InChannel, InDelivery, Entering, Ordered, Numbered, AllBefore

LEMMA PublishNumberChain ==
  ASSUME Typing, Chain, NEW p \in Publishers, PublishNumber(p)
  PROVE  Chain'
<1>1. /\ sequence' = sequence + 1 /\ sequence \in Nat
      /\ UNCHANGED <<log, queue, current, runner>>
      /\ publisher' = [publisher EXCEPT ![p] = "sending"] /\ publisher[p] = "idle"
  BY DEF PublishNumber, Typing, TypeOK
<1>2. /\ event'[p].sequence = sequence + 1
      /\ \A q \in Publishers : q # p => event'[q] = event[q]
  BY DEF PublishNumber, Typing, TypeOK
<1>3. \A q \in Sending' : q \in Publishers /\ (q = p \/ q \in Sending)
  BY <1>1 DEF Sending, Typing, TypeOK
<1>4. /\ \A i \in 1 .. Len(log) : log[i] \in Events
      /\ \A i \in 1 .. Len(queue) : queue[i] \in Events
      /\ Delivering => current \in Events
      /\ \A e \in Events : e.sequence \in Nat
      /\ \A q \in Sending : event[q] \in Events
  <2>1. log \in Seq(Events) /\ queue \in Seq(Events)
    BY DEF Typing, TypeOK
  <2>2. /\ \A i \in 1 .. Len(log) : log[i] \in Events
        /\ \A i \in 1 .. Len(queue) : queue[i] \in Events
    BY <2>1, ElementOfSeq
  <2>3. \A e \in Events : e.sequence \in Nat
    BY DEF Events
  <2>4. /\ Delivering => current \in Events
        /\ \A q \in Sending : event[q] \in Events
    BY DEF Typing, InHand, Delivering, Sending
  <2> QED
    BY <2>2, <2>3, <2>4
<1>5. \A e \in Events : e.sequence <= sequence => Before(e, event'[p]) /\ e.sequence <= sequence'
  BY <1>1, <1>2, <1>4 DEF Before
<1>6. Written' /\ InChannel' /\ InDelivery'
  BY <1>1, <1>4, <1>5
  DEF Chain, Written, InChannel, InDelivery, Ordered, Numbered, AllBefore, Delivering
<1>7. ASSUME NEW q \in Sending'
      PROVE  /\ AllBefore(log, event[q])' /\ AllBefore(queue, event[q])'
             /\ Delivering' => Before(current, event[q])'
             /\ event'[q].sequence <= sequence'
  <2>1. CASE q = p
    BY <1>1, <1>2, <1>4, <1>5, <2>1
    DEF Chain, Written, InChannel, InDelivery, Numbered, AllBefore, Delivering
  <2>2. CASE q # p
    BY <1>1, <1>2, <1>3, <1>4, <1>5, <2>2 DEF Chain, Entering, AllBefore, Delivering
  <2> QED
    BY <2>1, <2>2
<1>8. ASSUME NEW q \in Sending', NEW r \in Sending', q # r
      PROVE  event'[q].sequence # event'[r].sequence
  BY <1>1, <1>2, <1>3, <1>4, <1>8 DEF Chain, Entering
<1> QED
  BY <1>6, <1>7, <1>8 DEF Chain, Entering

LEMMA PublishSendChain ==
  ASSUME Typing, Chain, NEW p \in Publishers, PublishSend(p)
  PROVE  Chain'
<1>1. /\ queue' = Append(queue, event[p])
      /\ UNCHANGED <<log, sequence, current, runner, event>>
      /\ p \in Sending /\ event[p] \in Events
  BY DEF PublishSend, Sending, Typing, InHand
<1>2. Sending' \subseteq Sending \ {p}
  BY DEF PublishSend, Sending, Typing, TypeOK
<1>3. /\ AllBefore(log, event[p]) /\ AllBefore(queue, event[p])
      /\ Delivering => Before(current, event[p])
      /\ event[p].sequence <= sequence
  BY <1>1 DEF Chain, Entering
<1>4. queue \in Seq(Events)
  BY DEF Typing, TypeOK
<1>5. \A i \in 1 .. Len(queue') :
        queue'[i] = event[p] \/ (i \in 1 .. Len(queue) /\ queue'[i] = queue[i])
  BY <1>1, <1>4, ElementsOfAppend
<1>6. Ordered(queue)'
  <2>1. Ordered(Append(queue, event[p]))
    BY <1>1, <1>3, <1>4, OrderedAppend DEF Chain, InChannel
  <2> QED
    BY <1>1, <2>1 DEF Ordered
<1>7. Numbered(queue)'
  BY <1>1, <1>3, <1>5 DEF Chain, InChannel, Numbered
<1>8. Written'
  BY <1>1, <1>3, <1>5 DEF Chain, Written, Ordered, Numbered, AllBefore
<1>9. InDelivery'
  BY <1>1, <1>3, <1>5 DEF Chain, InDelivery, AllBefore, Delivering
<1>10. ASSUME NEW q \in Sending' PROVE AllBefore(queue, event[q])'
  <2>1. q \in Sending /\ q # p
    BY <1>2
  <2>2. event[p].sequence # event[q].sequence
    BY <1>1, <2>1 DEF Chain, Entering
  <2>3. event[p].from = p /\ event[q].from = q
    BY <1>1, <2>1 DEF Sending, Typing, InHand
  <2>4. Before(event[p], event[q])
    BY <2>1, <2>2, <2>3 DEF Before
  <2> QED
    BY <1>1, <1>5, <2>1, <2>4 DEF Chain, Entering, AllBefore
<1>11. Entering'
  BY <1>1, <1>2, <1>10 DEF Chain, Entering, AllBefore, Delivering
<1> QED
  BY <1>6, <1>7, <1>8, <1>9, <1>11 DEF Chain, InChannel

LEMMA ReceiveChain ==
  ASSUME Typing, Chain, Receive
  PROVE  Chain'
<1>1. /\ current' = queue[1] /\ 1 \in 1 .. Len(queue)
      /\ Delivering' /\ ~Delivering
      /\ UNCHANGED <<log, sequence, event, publisher>>
  BY LenProperties, EmptySeq DEF Receive, Delivering, Typing, TypeOK
<1>2. /\ Len(queue) \in Nat /\ Len(queue') = Len(queue) - 1
      /\ \A i \in 1 .. Len(queue') :
           i + 1 \in 1 .. Len(queue) /\ queue'[i] = queue[i + 1] /\ 1 < i + 1
  BY HeadTailProperties, LenProperties DEF Receive, Typing, TypeOK
<1>3. Written'
  BY <1>1, <1>2 DEF Chain, Written, Ordered, Numbered, AllBefore
<1>4. Ordered(queue)'
  <2> SUFFICES ASSUME NEW i \in 1 .. Len(queue'), NEW j \in 1 .. Len(queue'), i < j
               PROVE  Before(queue'[i], queue'[j])
    BY DEF Ordered, Before
  <2>1. i + 1 < j + 1
    OBVIOUS
  <2> QED
    BY <1>2, <2>1 DEF Chain, InChannel, Ordered
<1>5. Numbered(queue)'
  BY <1>1, <1>2 DEF Chain, InChannel, Numbered
<1>6. InDelivery'
  BY <1>1, <1>2 DEF Chain, Written, InChannel, InDelivery, Ordered, Numbered, AllBefore
<1>7. Sending' = Sending
  BY <1>1 DEF Sending
<1>8. Entering'
  BY <1>1, <1>2, <1>7 DEF Chain, Entering, AllBefore
<1> QED
  BY <1>3, <1>4, <1>5, <1>6, <1>8 DEF Chain, InChannel

LEMMA WriteLogChain ==
  ASSUME Typing, Chain, WriteLog
  PROVE  Chain'
<1>1. /\ Delivering /\ ~Delivering' /\ current \in Events
      /\ UNCHANGED <<queue, sequence, event, publisher>>
      /\ log' = log \/ log' = Append(log, current)
  BY DEF WriteLog, Delivering, Typing, InHand
<1>2. /\ AllBefore(log, current) /\ current.sequence <= sequence
      /\ \A j \in 1 .. Len(queue) : Before(current, queue[j])
  BY <1>1 DEF Chain, InDelivery
<1>3. log \in Seq(Events)
  BY DEF Typing, TypeOK
<1>4. \A i \in 1 .. Len(log') :
        log'[i] = current \/ (i \in 1 .. Len(log) /\ log'[i] = log[i])
  BY <1>1, <1>3, ElementsOfAppend
<1>5. Ordered(log)'
  <2>1. Ordered(Append(log, current))
    BY <1>1, <1>2, <1>3, OrderedAppend DEF Chain, Written
  <2> QED
    BY <1>1, <2>1 DEF Chain, Written, Ordered
<1>6. Written'
  BY <1>1, <1>2, <1>4, <1>5 DEF Chain, Written, Numbered, AllBefore
<1>7. InChannel' /\ InDelivery'
  BY <1>1 DEF Chain, InChannel, InDelivery, Ordered, Numbered
<1>8. Sending' = Sending
  BY <1>1 DEF Sending
<1>9. \A p \in Sending : Before(current, event[p])
  BY <1>1 DEF Chain, Entering
<1>10. Entering'
  BY <1>1, <1>4, <1>8, <1>9 DEF Chain, Entering, AllBefore
<1> QED
  BY <1>6, <1>7, <1>10 DEF Chain

LEMMA NextChain ==
  ASSUME Typing, Chain, [Next]_vars
  PROVE  Chain'
<1>1. ASSUME UNCHANGED <<log, queue, current, sequence>>, Delivering' = Delivering,
             Sending' \subseteq Sending, \A p \in Sending' : event'[p] = event[p]
      PROVE  Chain'
  BY <1>1
  DEF Chain, Written, InChannel, InDelivery, Entering, Ordered, Numbered, AllBefore
<1>2. ASSUME NEW p \in Publishers, PublishReturn(p) \/ PublishExpire(p) PROVE Chain'
  BY <1>1, <1>2 DEF PublishReturn, PublishExpire, Delivering, Sending, Typing, TypeOK
<1>3. ASSUME NEW c \in Closers, Close(c) PROVE Chain'
  BY <1>1, <1>3 DEF Close, CloseCall, CloseQueue, CloseReturn, CloseExpire, Delivering, Sending
<1>4. CASE WriteMemory \/ CloseSinks
  BY <1>1, <1>4 DEF WriteMemory, CloseSinks, Delivering, Sending
<1>5. CASE UNCHANGED vars
  BY <1>1, <1>5 DEF vars, Delivering, Sending
<1> QED
  BY <1>2, <1>3, <1>4, <1>5, PublishNumberChain, PublishSendChain, ReceiveChain, WriteLogChain
  DEF Next, Publish, Run

\* Whatever the interleaving of publishers, the events of each are logged in its order.
THEOREM PublisherOrderHolds == Spec => []PublisherOrder
<1>1. Init => Typing /\ Chain
  BY InitTyping, InitChain
<1>2. Typing /\ Chain /\ [Next]_vars => (Typing /\ Chain)'
  BY NextTyping, NextChain
<1>3. Typing /\ Chain => PublisherOrder
  BY LenProperties DEF Typing, TypeOK, Chain, Written, Ordered, PublisherOrder
<1> QED
  BY <1>1, <1>2, <1>3, PTL DEF Spec

-----------------------------------------------------------------------------
(* The page of EventWatch *)

Rising(s) == \A i, j \in 1 .. Len(s) : i < j => s[i].sequence < s[j].sequence

\* The handler's loop, without its LET.
FilterStep(g, n) ==
  IF n = 0 THEN <<>>
  ELSE IF Selected(memory[n]) THEN Append(g[n - 1], memory[n])
  ELSE g[n - 1]
Filtered == CHOOSE g : g = [n \in 0 .. Len(memory) |-> FilterStep(g, n)]

\* It is the same loop.
LEMMA MatchingIsFiltered == Matching = Filtered[Len(memory)]
BY Zenon DEF Matching, Filtered, FilterStep

\* The loop has a value at each of its steps: by induction on their number.
LEMMA FilterExists ==
  ASSUME Len(memory) \in Nat
  PROVE  Filtered = [n \in 0 .. Len(memory) |-> FilterStep(Filtered, n)]
<1> DEFINE T == {m \in Nat : \E g : g = [n \in 0 .. m |-> FilterStep(g, n)]}
<1>1. 0 \in T
  <2> DEFINE g == [n \in 0 .. 0 |-> <<>>]
  <2>1. g = [n \in 0 .. 0 |-> FilterStep(g, n)]
    BY DEF FilterStep
  <2> QED
    BY <2>1
<1>2. ASSUME NEW m \in Nat, m \in T PROVE m + 1 \in T
  <2>1. PICK g : g = [n \in 0 .. m |-> FilterStep(g, n)]
    BY <1>2
  <2> DEFINE more == [n \in 0 .. m + 1 |-> FilterStep(g, n)]
  <2>2. \A n \in 0 .. m : more[n] = g[n]
    <3>1. \A n \in 0 .. m : n \in 0 .. m + 1
      OBVIOUS
    <3> QED
      BY <2>1, <3>1, Zenon
  <2>3. \A n \in 0 .. m + 1 : n # 0 => more[n - 1] = g[n - 1]
    BY <2>2
  <2> HIDE DEF more
  <2>4. \A n \in 0 .. m + 1 : FilterStep(more, n) = FilterStep(g, n)
    BY <2>3 DEF FilterStep
  <2>5. more = [n \in 0 .. m + 1 |-> FilterStep(more, n)]
    BY <2>4 DEF more
  <2>6. \E new : new = [n \in 0 .. m + 1 |-> FilterStep(new, n)]
    BY <2>5
  <2> QED
    BY <2>6
<1>3. Len(memory) \in T
  <2>1. Nat \subseteq T
    <3> HIDE DEF T
    <3> QED
      BY <1>1, <1>2, Induction
  <2> QED
    BY <2>1
<1>4. \E g : g = [n \in 0 .. Len(memory) |-> FilterStep(g, n)]
  BY <1>3
<1> QED
  BY <1>4, Zenon DEF Filtered

\* What the loop has selected of the first n events.
Selection(n, F) ==
  /\ F \in Seq(Events)
  /\ Rising(F)
  /\ \A k \in 1 .. Len(F) : Selected(F[k]) /\ \E i \in 1 .. n : F[k] = memory[i]
  /\ \A i \in 1 .. n : Selected(memory[i]) => \E k \in 1 .. Len(F) : F[k] = memory[i]

\* One round of the loop that appends.
LEMMA SelectionGrows ==
  ASSUME NEW n \in Nat, NEW F, Selection(n, F),
         NEW e \in Events, e = memory[n + 1], Selected(e),
         \A i \in 1 .. n : memory[i].sequence < e.sequence
  PROVE  Selection(n + 1, Append(F, e))
<1> DEFINE G == Append(F, e)
<1>1. /\ F \in Seq(Events) /\ G \in Seq(Events) /\ Len(F) \in Nat /\ Len(G) = Len(F) + 1
      /\ \A k \in 1 .. Len(F) : G[k] = F[k]
      /\ G[Len(F) + 1] = e
  BY LenProperties, AppendProperties DEF Selection
<1>2. \A k \in 1 .. Len(G) : k = Len(F) + 1 \/ k \in 1 .. Len(F)
  BY <1>1
<1> HIDE DEF G
<1>3. \A k \in 1 .. Len(F) : F[k].sequence < e.sequence
  BY DEF Selection
<1>4. Rising(G)
  <2> SUFFICES ASSUME NEW i \in 1 .. Len(G), NEW j \in 1 .. Len(G), i < j
               PROVE  G[i].sequence < G[j].sequence
    BY DEF Rising
  <2>1. i \in 1 .. Len(F)
    BY <1>1
  <2>2. CASE j = Len(F) + 1
    BY <1>1, <1>3, <2>1, <2>2
  <2>3. CASE j \in 1 .. Len(F)
    BY <1>1, <2>1, <2>3 DEF Selection, Rising
  <2> QED
    BY <1>2, <2>2, <2>3
<1>5. ASSUME NEW k \in 1 .. Len(G)
      PROVE  Selected(G[k]) /\ \E i \in 1 .. n + 1 : G[k] = memory[i]
  <2>1. CASE k = Len(F) + 1
    BY <1>1, <2>1
  <2>2. CASE k \in 1 .. Len(F)
    <3>1. PICK i \in 1 .. n : F[k] = memory[i] /\ Selected(F[k])
      BY <2>2 DEF Selection
    <3>2. i \in 1 .. n + 1
      OBVIOUS
    <3> QED
      BY <1>1, <2>2, <3>1, <3>2
  <2> QED
    BY <1>2, <2>1, <2>2
<1>6. ASSUME NEW i \in 1 .. n + 1, Selected(memory[i])
      PROVE  \E k \in 1 .. Len(G) : G[k] = memory[i]
  <2>1. CASE i = n + 1
    BY <1>1, <2>1
  <2>2. CASE i \in 1 .. n
    <3>1. PICK k \in 1 .. Len(F) : F[k] = memory[i]
      BY <1>6, <2>2 DEF Selection
    <3> QED
      BY <1>1, <3>1
  <2> QED
    BY <2>1, <2>2
<1>7. Selection(n + 1, G)
  BY <1>1, <1>4, <1>5, <1>6 DEF Selection
<1> QED
  BY <1>7 DEF G

\* The handler selects what the query asks for, all of it and in the sink's order.
LEMMA MatchingIsSelection ==
  ASSUME memory \in Seq(Events), Rising(memory)
  PROVE  Selection(Len(memory), Matching)
<1> DEFINE N == Len(memory)
           T == {n \in Nat : n <= N => Selection(n, Filtered[n])}
<1>0. N \in Nat /\ \A i \in 1 .. N : memory[i] \in Events
  BY LenProperties, ElementOfSeq
<1>1. \A n \in 0 .. N : Filtered[n] = FilterStep(Filtered, n)
  BY <1>0, FilterExists, Zenon
<1>2. 0 \in T
  <2>1. Filtered[0] = <<>>
    BY <1>0, <1>1 DEF FilterStep
  <2>2. Selection(0, <<>>)
    <3>1. <<>> \in Seq(Events) /\ Len(<<>>) = 0
      BY EmptySeq
    <3>2. 1 .. 0 = {}
      OBVIOUS
    <3> QED
      BY <3>1, <3>2 DEF Selection, Rising
  <2> QED
    BY <2>1, <2>2
<1>3. ASSUME NEW n \in Nat, n \in T PROVE n + 1 \in T
  <2> SUFFICES ASSUME n + 1 <= N PROVE Selection(n + 1, Filtered[n + 1])
    OBVIOUS
  <2> DEFINE F == Filtered[n]
             e == memory[n + 1]
  <2>1. Selection(n, F) /\ e \in Events /\ n + 1 \in 1 .. N
    BY <1>0, <1>3
  <2>2. Filtered[n + 1] = IF Selected(e) THEN Append(F, e) ELSE F
    BY <1>0, <1>1 DEF FilterStep
  <2>3. \A i \in 1 .. n + 1 : i = n + 1 \/ i \in 1 .. n
    OBVIOUS
  <2> HIDE DEF F
  <2>4. CASE ~Selected(e)
    BY <2>1, <2>2, <2>3, <2>4 DEF Selection
  <2>5. CASE Selected(e)
    <3>1. \A i \in 1 .. n : i \in 1 .. N /\ i < n + 1
      BY <1>0
    <3>2. \A i \in 1 .. n : memory[i].sequence < e.sequence
      BY <2>1, <3>1 DEF Rising
    <3>3. Selection(n + 1, Append(F, e))
      BY <2>1, <2>5, <3>2, SelectionGrows
    <3> QED
      BY <2>2, <2>5, <3>3
  <2> QED
    BY <2>4, <2>5
<1>4. N \in T
  <2>1. Nat \subseteq T
    <3> HIDE DEF T
    <3> QED
      BY <1>2, <1>3, Induction
  <2> QED
    BY <1>0, <2>1
<1> QED
  BY <1>0, <1>4, MatchingIsFiltered

-----------------------------------------------------------------------------
(* The line that leads to the printed events *)
(*                                                                         *)
(* With publishers that take turns the events go through the channel and   *)
(* run() into the MemorySink in the order of their numbers, so that what   *)
(* is not in the sink yet is ahead of the cursor.                          *)

\* At most one Publish is under way: emitPayload is called with s.mu held.
TakeTurns == \A p, q \in Inside : p = q

\* e is yet to enter the sink, behind everything that is in it or was printed.
Ahead(e) ==
  /\ cursor < e.sequence /\ e.sequence <= sequence
  /\ \A i \in 1 .. Len(memory) : memory[i].sequence < e.sequence

\* The channel, run(), the publisher and the sink, one behind the other.
ChannelInLine == Rising(queue) /\ \A j \in 1 .. Len(queue) : Ahead(queue[j])
DeliveryInLine ==
  runner = "memory" =>
    Ahead(current) /\ \A j \in 1 .. Len(queue) : current.sequence < queue[j].sequence
SendersInLine ==
  \A p \in Sending :
    /\ Ahead(event[p])
    /\ \A j \in 1 .. Len(queue) : queue[j].sequence < event[p].sequence
    /\ runner = "memory" => current.sequence < event[p].sequence
MemoryInLine == Rising(memory) /\ \A i \in 1 .. Len(memory) : memory[i].sequence <= sequence

\* What was printed is in order and up to the cursor, and nothing is left out there.
PrintedSound ==
  /\ cursor \in Nat /\ cursor <= sequence
  /\ printed \in Seq(Events) /\ Rising(printed)
  /\ \A k \in 1 .. Len(printed) : printed[k].sequence <= cursor
  /\ \A i \in 1 .. Len(memory) :
       memory[i].kind \in Wanted /\ memory[i].sequence <= cursor =>
         \E k \in 1 .. Len(printed) : printed[k] = memory[i]

InLine == ChannelInLine /\ DeliveryInLine /\ SendersInLine /\ MemoryInLine /\ PrintedSound

\* The types, element by element.
LEMMA EventFacts ==
  ASSUME Typing
  PROVE  /\ \A e \in Events : e.sequence \in Nat
         /\ queue \in Seq(Events) /\ Len(queue) \in Nat
         /\ \A i \in 1 .. Len(queue) : queue[i] \in Events
         /\ memory \in Seq(Events) /\ Len(memory) \in Nat
         /\ \A i \in 1 .. Len(memory) : memory[i] \in Events
         /\ runner = "memory" => current \in Events
         /\ \A p \in Sending : event[p] \in Events
         /\ sequence \in Nat
<1>1. queue \in Seq(Events) /\ memory \in Seq(Events) /\ sequence \in Nat
  BY DEF Typing, TypeOK
<1>2. \A e \in Events : e.sequence \in Nat
  BY DEF Events
<1>3. (runner = "memory" => current \in Events) /\ \A p \in Sending : event[p] \in Events
  BY DEF Typing, InHand, Sending
<1> QED
  BY <1>1, <1>2, <1>3, LenProperties, ElementOfSeq

\* A new number is larger than all before it.
LEMMA NumberInLine ==
  ASSUME Typing, InLine, NEW p \in Publishers, PublishNumber(p), UNCHANGED watchVars
  PROVE  InLine'
<1>1. /\ sequence' = sequence + 1 /\ UNCHANGED <<queue, memory, current, runner, cursor, printed>>
      /\ event'[p].sequence = sequence + 1
      /\ \A q \in Publishers \ {p} : event'[q] = event[q]
  BY DEF PublishNumber, Typing, TypeOK, watchVars
<1>2. \A q \in Sending' : q = p \/ (q \in Sending /\ q \in Publishers \ {p})
  BY DEF PublishNumber, Sending, Typing, TypeOK
<1>3. \A e : e.sequence \in Nat /\ Ahead(e) => Ahead(e)'
  BY <1>1, EventFacts DEF Ahead
<1>4. ChannelInLine' /\ DeliveryInLine'
  BY <1>1, <1>3, EventFacts DEF InLine, ChannelInLine, DeliveryInLine, Rising
<1>5. MemoryInLine' /\ PrintedSound'
  BY <1>1, EventFacts DEF InLine, MemoryInLine, PrintedSound, Rising
<1>6. SendersInLine'
  <2> SUFFICES ASSUME NEW q \in Sending'
               PROVE  /\ Ahead(event[q])'
                      /\ \A j \in 1 .. Len(queue) : queue[j].sequence < event'[q].sequence
                      /\ runner = "memory" => current.sequence < event'[q].sequence
    BY <1>1 DEF SendersInLine
  <2>1. CASE q = p
    BY <1>1, <2>1, EventFacts
    DEF Ahead, InLine, ChannelInLine, DeliveryInLine, MemoryInLine, PrintedSound
  <2>2. CASE q \in Sending /\ q \in Publishers \ {p}
    BY <1>1, <1>3, <2>2, EventFacts DEF InLine, SendersInLine
  <2> QED
    BY <1>2, <2>1, <2>2
<1> QED
  BY <1>4, <1>5, <1>6 DEF InLine

\* The channel takes the event of the one publisher that is inside.
LEMMA SendInLine ==
  ASSUME Typing, InLine, TakeTurns, NEW p \in Publishers, PublishSend(p), UNCHANGED watchVars
  PROVE  InLine'
<1>1. /\ queue' = Append(queue, event[p])
      /\ UNCHANGED <<sequence, memory, current, runner, cursor, printed, event>>
      /\ p \in Sending /\ event[p] \in Events
  BY EventFacts DEF PublishSend, Sending, watchVars
<1>2. Sending' = {}
  BY DEF PublishSend, Sending, TakeTurns, Inside, Typing, TypeOK
<1>3. /\ Len(queue') = Len(queue) + 1
      /\ \A j \in 1 .. Len(queue) : queue'[j] = queue[j]
      /\ queue'[Len(queue) + 1] = event[p]
      /\ \A j \in 1 .. Len(queue') : j = Len(queue) + 1 \/ j \in 1 .. Len(queue)
  BY <1>1, EventFacts, AppendProperties
<1>4. /\ Ahead(event[p])
      /\ \A j \in 1 .. Len(queue) : queue[j].sequence < event[p].sequence
      /\ runner = "memory" => current.sequence < event[p].sequence
  BY <1>1 DEF InLine, SendersInLine
<1>5. \A e : Ahead(e) => Ahead(e)'
  BY <1>1 DEF Ahead
<1>6. (\A j \in 1 .. Len(queue) : Ahead(queue[j]))'
  BY <1>3, <1>4, <1>5 DEF InLine, ChannelInLine
<1>7. Rising(queue)'
  <2> SUFFICES ASSUME NEW i \in 1 .. Len(queue'), NEW j \in 1 .. Len(queue'), i < j
               PROVE  queue'[i].sequence < queue'[j].sequence
    BY DEF Rising
  <2>1. i \in 1 .. Len(queue)
    BY <1>3, EventFacts
  <2>2. CASE j = Len(queue) + 1
    BY <1>3, <1>4, <2>1, <2>2
  <2>3. CASE j \in 1 .. Len(queue)
    BY <1>3, <2>1, <2>3 DEF InLine, ChannelInLine, Rising
  <2> QED
    BY <1>3, <2>2, <2>3
<1>8. DeliveryInLine'
  BY <1>1, <1>3, <1>4, <1>5 DEF InLine, DeliveryInLine
<1>9. MemoryInLine' /\ PrintedSound'
  BY <1>1 DEF InLine, MemoryInLine, PrintedSound, Rising
<1> QED
  BY <1>2, <1>6, <1>7, <1>8, <1>9 DEF InLine, ChannelInLine, SendersInLine

\* run() takes the first event of the channel.
LEMMA ReceiveInLine ==
  ASSUME Typing, InLine, Receive, UNCHANGED watchVars
  PROVE  InLine'
<1>1. /\ current' = queue[1] /\ 1 \in 1 .. Len(queue) /\ runner' = "memory"
      /\ UNCHANGED <<sequence, memory, cursor, printed, event, publisher>>
  BY EventFacts, EmptySeq DEF Receive, watchVars
<1>2. /\ Len(queue') = Len(queue) - 1
      /\ \A j \in 1 .. Len(queue') :
           j + 1 \in 1 .. Len(queue) /\ queue'[j] = queue[j + 1] /\ 1 < j + 1
  BY HeadTailProperties, EventFacts DEF Receive
<1>3. \A e : Ahead(e) => Ahead(e)'
  BY <1>1 DEF Ahead
<1>4. Rising(queue)'
  <2> SUFFICES ASSUME NEW i \in 1 .. Len(queue'), NEW j \in 1 .. Len(queue'), i < j
               PROVE  queue'[i].sequence < queue'[j].sequence
    BY DEF Rising
  <2>1. i + 1 < j + 1
    OBVIOUS
  <2> QED
    BY <1>2, <2>1 DEF InLine, ChannelInLine, Rising
<1>5. ChannelInLine'
  BY <1>2, <1>3, <1>4 DEF InLine, ChannelInLine
<1>6. DeliveryInLine'
  BY <1>1, <1>2, <1>3 DEF InLine, ChannelInLine, DeliveryInLine, Rising
<1>7. SendersInLine'
  <2>1. Sending' = Sending
    BY <1>1 DEF Sending
  <2> QED
    BY <1>1, <1>2, <1>3, <2>1 DEF InLine, SendersInLine
<1>8. MemoryInLine' /\ PrintedSound'
  BY <1>1 DEF InLine, MemoryInLine, PrintedSound, Rising
<1> QED
  BY <1>5, <1>6, <1>7, <1>8 DEF InLine

\* The sink stores the event and forgets from its front.
LEMMA StoreInLine ==
  ASSUME Typing, InLine, WriteMemory, UNCHANGED watchVars
  PROVE  InLine'
<1>1. /\ memory' = Retained(Append(memory, current)) /\ runner = "memory" /\ runner' = "log"
      /\ UNCHANGED <<sequence, queue, current, cursor, printed, event, publisher>>
  BY DEF WriteMemory, watchVars
<1> DEFINE all == Append(memory, current)
           cut == Len(all) - Len(memory')
<1>2. /\ all \in Seq(Events) /\ Len(all) = Len(memory) + 1 /\ all[Len(memory) + 1] = current
      /\ \A i \in 1 .. Len(memory) : all[i] = memory[i]
  BY <1>1, EventFacts, AppendProperties
<1>3. /\ Len(memory') \in Nat /\ Len(memory') <= Len(all)
      /\ \A i \in 1 .. Len(memory') : memory'[i] = all[cut + i]
  <2>1. /\ Len(memory') =
             IF MaxEvents > 0 /\ Len(all) > MaxEvents THEN MaxEvents ELSE Len(all)
        /\ \A i \in 1 .. Len(memory') : memory'[i] = all[cut + i]
    BY <1>1, <1>2, RetainedProperties
  <2>2. Len(all) \in Nat
    BY <1>2, EventFacts
  <2> HIDE DEF all, cut
  <2> QED
    BY <2>1, <2>2, RetentionIsNatural
<1>4. cut \in Nat /\ \A i \in 1 .. Len(memory') :
        cut + i = Len(memory) + 1 \/ cut + i \in 1 .. Len(memory)
  <2>1. Len(memory) \in Nat /\ Len(all) = Len(memory) + 1 /\ cut = Len(all) - Len(memory')
    BY <1>2, EventFacts
  <2>2. Len(memory') \in Nat /\ Len(memory') <= Len(all)
    BY <1>3
  <2> HIDE DEF all, cut
  <2> QED
    BY <2>1, <2>2
<1> HIDE DEF all, cut
<1>5. Rising(all)
  <2> SUFFICES ASSUME NEW i \in 1 .. Len(all), NEW j \in 1 .. Len(all), i < j
               PROVE  all[i].sequence < all[j].sequence
    BY DEF Rising
  <2>1. i \in 1 .. Len(memory) /\ (j = Len(memory) + 1 \/ j \in 1 .. Len(memory))
    BY <1>2, EventFacts
  <2>2. CASE j = Len(memory) + 1
    BY <1>1, <1>2, <2>1, <2>2 DEF InLine, DeliveryInLine, Ahead
  <2>3. CASE j \in 1 .. Len(memory)
    BY <1>2, <2>1, <2>3 DEF InLine, MemoryInLine, Rising
  <2> QED
    BY <2>1, <2>2, <2>3
<1>6. Rising(memory)'
  <2> SUFFICES ASSUME NEW i \in 1 .. Len(memory'), NEW j \in 1 .. Len(memory'), i < j
               PROVE  memory'[i].sequence < memory'[j].sequence
    BY DEF Rising
  <2>1. cut + i \in 1 .. Len(all) /\ cut + j \in 1 .. Len(all) /\ cut + i < cut + j
    BY <1>2, <1>4, EventFacts
  <2> QED
    BY <1>3, <1>5, <2>1 DEF Rising
<1>7. \A i \in 1 .. Len(memory') :
        memory'[i] = current \/ \E k \in 1 .. Len(memory) : memory'[i] = memory[k]
  BY <1>2, <1>3, <1>4
<1>8. \A e : current.sequence < e.sequence /\ Ahead(e) => Ahead(e)'
  BY <1>1, <1>7 DEF Ahead
<1>9. ChannelInLine' /\ DeliveryInLine'
  BY <1>1, <1>8 DEF InLine, ChannelInLine, DeliveryInLine, Rising
<1>10. SendersInLine'
  <2>1. Sending' = Sending
    BY <1>1 DEF Sending
  <2> QED
    BY <1>1, <1>8, <2>1 DEF InLine, SendersInLine
<1>11. MemoryInLine'
  BY <1>1, <1>6, <1>7 DEF InLine, MemoryInLine, DeliveryInLine, Ahead
<1>12. PrintedSound'
  <2>1. cursor < current.sequence /\ current.sequence \in Nat /\ cursor \in Nat
    BY <1>1, EventFacts DEF InLine, DeliveryInLine, Ahead, PrintedSound
  <2>2. ASSUME NEW i \in 1 .. Len(memory'), memory'[i].kind \in Wanted,
               memory'[i].sequence <= cursor
        PROVE  \E k \in 1 .. Len(printed) : printed[k] = memory'[i]
    <3>1. memory'[i] # current
      BY <2>1, <2>2
    <3>2. PICK k \in 1 .. Len(memory) : memory'[i] = memory[k]
      BY <1>7, <3>1
    <3> QED
      BY <2>2, <3>2 DEF InLine, PrintedSound
  <2> QED
    BY <1>1, <2>2 DEF InLine, PrintedSound, Rising
<1> QED
  BY <1>9, <1>10, <1>11, <1>12 DEF InLine

\* The other steps of the Bus leave the line as it is.
LEMMA NextInLine ==
  ASSUME Typing, InLine, TakeTurns, [Next]_vars, UNCHANGED watchVars
  PROVE  InLine'
<1>1. ASSUME UNCHANGED <<sequence, queue, memory>>,
             runner' = "memory" => runner = "memory" /\ current' = current,
             Sending' \subseteq Sending, \A p \in Sending' : event'[p] = event[p]
      PROVE  InLine'
  <2>1. UNCHANGED <<cursor, printed>>
    BY DEF watchVars
  <2>2. \A e : Ahead(e) => Ahead(e)'
    BY <1>1, <2>1 DEF Ahead
  <2>3. ChannelInLine' /\ MemoryInLine' /\ PrintedSound'
    BY <1>1, <2>1, <2>2 DEF InLine, ChannelInLine, MemoryInLine, PrintedSound, Rising
  <2>4. DeliveryInLine'
    BY <1>1, <2>2 DEF InLine, DeliveryInLine
  <2>5. SendersInLine'
    BY <1>1, <2>2 DEF InLine, SendersInLine
  <2> QED
    BY <2>3, <2>4, <2>5 DEF InLine
<1>2. ASSUME NEW p \in Publishers, PublishReturn(p) \/ PublishExpire(p) PROVE InLine'
  BY <1>1, <1>2 DEF PublishReturn, PublishExpire, Sending, Typing, TypeOK
<1>3. ASSUME NEW c \in Closers, Close(c) PROVE InLine'
  BY <1>1, <1>3 DEF Close, CloseCall, CloseQueue, CloseReturn, CloseExpire, Sending
<1>4. CASE WriteLog \/ CloseSinks
  BY <1>1, <1>4 DEF WriteLog, CloseSinks, Sending
<1>5. CASE UNCHANGED vars
  BY <1>1, <1>5 DEF vars, Sending
<1> QED
  BY <1>2, <1>3, <1>4, <1>5, NumberInLine, SendInLine, ReceiveInLine, StoreInLine
  DEF Next, Publish, Run

\* A poll prints the next page and moves the cursor to its last event: what is not
\* on the page is behind it, and what the sink does not have yet is further behind.
LEMMA PollInLine ==
  ASSUME Typing, InLine, Poll
  PROVE  InLine'
<1> DEFINE N == Len(Page)
<1>1. /\ Page # <<>> /\ printed' = printed \o Page
      /\ cursor' = IF Page[N].sequence > cursor THEN Page[N].sequence ELSE cursor
      /\ UNCHANGED vars
  BY DEF Poll, NextSequence, Last
<1>2. Selection(Len(memory), Matching)
  BY EventFacts, MatchingIsSelection DEF InLine, MemoryInLine
<1>3. /\ Matching \in Seq(Events) /\ Len(Matching) \in Nat
      /\ \A k \in 1 .. Len(Matching) : Matching[k] \in Events
  BY <1>2, LenProperties, ElementOfSeq DEF Selection
<1>4. /\ Page \in Seq(Events) /\ N \in 1 .. Len(Matching)
      /\ \A k \in 1 .. N : Page[k] = Matching[k] /\ k \in 1 .. Len(Matching)
  <2> DEFINE n == IF Len(Matching) > PageLimit THEN PageLimit ELSE Len(Matching)
  <2>1. n \in Nat /\ n <= Len(Matching)
    BY <1>3, LimitIsPositive
  <2>2. Page = SubSeq(Matching, 1, n)
    BY DEF Page
  <2>3. \A k \in 1 .. n : k \in 1 .. Len(Matching)
    BY <1>3, <2>1
  <2> HIDE DEF n
  <2>4. /\ Page \in Seq(Events) /\ Len(Page) = IF 1 <= n THEN n - 1 + 1 ELSE 0
        /\ \A k \in 1 .. n - 1 + 1 : Page[k] = Matching[1 + k - 1]
    <3>1. 1 \in Int /\ n \in Int /\ \A k \in 1 .. n : Matching[k] \in Events
      BY <1>3, <2>1, <2>3
    <3> DEFINE sub == SubSeq(Matching, 1, n)
    <3>2. /\ sub \in Seq(Events) /\ Len(sub) = IF 1 <= n THEN n - 1 + 1 ELSE 0
          /\ \A k \in 1 .. n - 1 + 1 : sub[k] = Matching[1 + k - 1]
      BY <3>1, SubSeqProperties, Z3
    <3> QED
      BY <2>2, <3>2, Zenon
  <2>5. Len(Page) \in Nat \ {0}
    BY <1>1, <2>4, EmptySeq
  <2> QED
    BY <1>3, <2>1, <2>3, <2>4, <2>5
<1>5. /\ \A k \in 1 .. N : Page[k] \in Events /\ cursor < Page[k].sequence
      /\ \A k \in 1 .. N : \E i \in 1 .. Len(memory) : Page[k] = memory[i]
      /\ Rising(Page)
  BY <1>2, <1>3, <1>4 DEF Selection, Selected, Rising
<1>6. \A k \in 1 .. N : k < N => Page[k].sequence < Page[N].sequence
  BY <1>4, <1>5 DEF Rising
<1>7. N \in Nat /\ N \in 1 .. N
  BY <1>3, <1>4
<1>8. cursor' = Page[N].sequence /\ cursor < cursor'
  BY <1>1, <1>5, <1>7
<1>9. PICK m \in 1 .. Len(memory) : memory[m] = Page[N]
  BY <1>5, <1>7
<1>10. \A e : Ahead(e) => Ahead(e)'
  BY <1>1, <1>8, <1>9 DEF Ahead, vars
<1>11. ChannelInLine' /\ DeliveryInLine' /\ MemoryInLine'
  BY <1>1, <1>10 DEF InLine, ChannelInLine, DeliveryInLine, MemoryInLine, Rising, vars
<1>12. SendersInLine'
  BY <1>1, <1>10 DEF InLine, SendersInLine, Sending, vars
<1> DEFINE P == Len(printed)
<1>13. /\ printed' \in Seq(Events) /\ Len(printed') = P + N /\ P \in Nat
       /\ \A k \in 1 .. P : printed'[k] = printed[k] /\ printed[k] \in Events
       /\ \A k \in 1 .. N : printed'[P + k] = Page[k]
  <2>1. printed \in Seq(Events) /\ P \in Nat /\ \A k \in 1 .. P : printed[k] \in Events
    BY LenProperties, ElementOfSeq DEF InLine, PrintedSound
  <2>2. /\ printed' \in Seq(Events) /\ Len(printed') = P + N
        /\ \A k \in 1 .. P + N : printed'[k] = IF k <= P THEN printed[k] ELSE Page[k - P]
    BY <1>1, <1>4, <2>1, ConcatProperties
  <2> HIDE DEF N, P
  <2>3. \A k \in 1 .. P : k \in 1 .. P + N /\ k <= P
    BY <1>7, <2>1
  <2>4. \A k \in 1 .. N : P + k \in 1 .. P + N /\ ~(P + k <= P) /\ (P + k) - P = k
    BY <1>7, <2>1
  <2> QED
    BY <2>1, <2>2, <2>3, <2>4
<1>14. \A k \in 1 .. Len(printed') : k \in 1 .. P \/ \E n \in 1 .. N : k = P + n
  <2> HIDE DEF N, P
  <2> SUFFICES ASSUME NEW k \in 1 .. Len(printed'), k \notin 1 .. P
               PROVE  \E n \in 1 .. N : k = P + n
    OBVIOUS
  <2>1. k - P \in 1 .. N /\ k = P + (k - P)
    BY <1>7, <1>13
  <2> QED
    BY <2>1
<1> HIDE DEF N, P
<1>15. \A k \in 1 .. P : printed[k].sequence <= cursor /\ printed[k].sequence \in Nat
  BY <1>13, EventFacts DEF InLine, PrintedSound, P
<1>16. \A k \in 1 .. N : /\ Page[k].sequence \in Nat /\ cursor < Page[k].sequence
                         /\ Page[k].sequence <= cursor'
  BY SMTT(30), <1>5, <1>6, <1>7, <1>8, EventFacts
<1>17. cursor \in Nat /\ cursor' \in Nat
  BY <1>7, <1>8, <1>16 DEF InLine, PrintedSound
<1>18. Rising(printed)'
  <2> SUFFICES ASSUME NEW i \in 1 .. Len(printed'), NEW j \in 1 .. Len(printed'), i < j
               PROVE  printed'[i].sequence < printed'[j].sequence
    BY DEF Rising
  <2>1. CASE j \in 1 .. P
    <3>1. i \in 1 .. P
      BY <1>13, <2>1
    <3> QED
      BY <1>13, <2>1, <3>1 DEF InLine, PrintedSound, Rising, P
  <2>2. ASSUME i \in 1 .. P, NEW n \in 1 .. N, j = P + n
        PROVE  printed'[i].sequence < printed'[j].sequence
    <3>1. printed'[i] = printed[i] /\ printed'[j] = Page[n]
      BY <1>13, <2>2
    <3>2. /\ printed[i].sequence \in Nat /\ printed[i].sequence <= cursor
          /\ Page[n].sequence \in Nat /\ cursor < Page[n].sequence
      BY <1>15, <1>16, <2>2
    <3>3. \A x, y \in Nat : x <= cursor /\ cursor < y => x < y
      BY <1>17
    <3> QED
      BY <3>1, <3>2, <3>3
  <2>3. ASSUME NEW n \in 1 .. N, NEW k \in 1 .. N, i = P + n, j = P + k
        PROVE  printed'[i].sequence < printed'[j].sequence
    <3>1. n < k
      BY <1>7, <1>13, <2>3
    <3>2. printed'[i] = Page[n] /\ printed'[j] = Page[k]
      BY <1>13, <2>3
    <3> QED
      BY <1>5, <3>1, <3>2 DEF Rising, N
  <2> QED
    BY <1>14, <2>1, <2>2, <2>3
<1>19. \A k \in 1 .. Len(printed') : printed'[k].sequence <= cursor'
  <2> TAKE k \in 1 .. Len(printed')
  <2>1. CASE k \in 1 .. P
    BY <1>8, <1>13, <1>15, <1>17, <2>1
  <2>2. ASSUME NEW n \in 1 .. N, k = P + n
        PROVE  printed'[k].sequence <= cursor'
    BY <1>13, <1>16, <2>2
  <2> QED
    BY <1>14, <2>1, <2>2
<1>20. ASSUME NEW i \in 1 .. Len(memory), memory[i].kind \in Wanted,
              memory[i].sequence <= cursor'
       PROVE  \E k \in 1 .. Len(printed') : printed'[k] = memory[i]
  <2>1. CASE memory[i].sequence <= cursor
    <3>1. PICK k \in 1 .. P : printed[k] = memory[i]
      BY <1>20, <2>1 DEF InLine, PrintedSound, P
    <3>2. k \in 1 .. Len(printed')
      BY <1>7, <1>13
    <3> QED
      BY <1>13, <3>1, <3>2
  <2>2. CASE ~(memory[i].sequence <= cursor)
    <3>1. memory[i] \in Events /\ memory[i].sequence \in Nat
      BY EventFacts
    <3>2. Selected(memory[i])
      BY <1>17, <1>20, <2>2, <3>1 DEF Selected
    <3>3. PICK k \in 1 .. Len(Matching) : Matching[k] = memory[i]
      BY <1>2, <3>2 DEF Selection
    <3>4. k <= N
      <4> SUFFICES ASSUME N < k PROVE FALSE
        BY <1>7, <3>3
      <4>1. Matching[N].sequence < Matching[k].sequence
        BY <1>2, <1>4, <3>3 DEF Selection, Rising
      <4>2. Matching[N] = Page[N]
        BY <1>4, <1>7
      <4> QED
        BY <1>8, <1>17, <1>20, <3>1, <3>3, <4>1, <4>2
    <3>5. k \in 1 .. N
      BY <1>7, <3>3, <3>4
    <3>6. P + k \in 1 .. Len(printed')
      BY <1>7, <1>13, <3>5
    <3>7. printed'[P + k] = memory[i]
      BY <1>4, <1>13, <3>3, <3>5
    <3> QED
      BY <3>6, <3>7
  <2> QED
    BY <2>1, <2>2
<1>21. cursor' <= sequence
  BY <1>8, <1>9 DEF InLine, MemoryInLine
<1>22. PrintedSound'
  BY <1>1, <1>13, <1>17, <1>18, <1>19, <1>20, <1>21 DEF PrintedSound, vars
<1> QED
  BY <1>11, <1>12, <1>22 DEF InLine

\* At first nothing is in line.
LEMMA InitInLine == WatchInit => Typing /\ InLine
<1> SUFFICES ASSUME WatchInit PROVE InLine
  BY InitTyping DEF WatchInit
<1>1. /\ Len(memory) = 0 /\ Len(queue) = 0 /\ Sending = {} /\ runner = "receiving"
      /\ sequence = 0 /\ cursor = 0
  BY DEF WatchInit, Init, Sending
<1>2. printed \in Seq(Events) /\ Len(printed) = 0
  BY EmptySeq DEF WatchInit
<1> QED
  BY <1>1, <1>2
  DEF InLine, ChannelInLine, DeliveryInLine, SendersInLine, MemoryInLine, PrintedSound, Rising

\* watch skips nothing that the sink still had and prints each event once and in order,
\* for any page limit, filter, retention and buffer, whenever it polls.
THEOREM WatchIsCompleteHolds == WatchSpec /\ []TakeTurns => []WatchIsComplete
<1>1. WatchInit => Typing /\ InLine
  BY InitInLine
<1>2. Typing /\ InLine /\ TakeTurns /\ [WatchNext]_<<vars, watchVars>> => (Typing /\ InLine)'
  <2> SUFFICES ASSUME Typing, InLine, TakeTurns, [WatchNext]_<<vars, watchVars>>
               PROVE  Typing' /\ InLine'
    OBVIOUS
  <2>1. [Next]_vars /\ (UNCHANGED watchVars \/ Poll)
    BY DEF WatchNext, Poll
  <2> QED
    BY <2>1, NextTyping, NextInLine, PollInLine
<1>3. Typing /\ InLine => WatchIsComplete
  <2> SUFFICES ASSUME Typing, InLine PROVE WatchIsComplete
    OBVIOUS
  <2>1. DOMAIN memory = 1 .. Len(memory) /\ DOMAIN printed = 1 .. Len(printed)
    BY EventFacts, LenProperties DEF InLine, PrintedSound
  <2> QED
    BY <2>1 DEF WatchIsComplete, ToSet, InLine, PrintedSound, Rising
<1> QED
  BY <1>1, <1>2, <1>3, PTL DEF WatchSpec

\* The case that TLC checks: one publisher cannot but take turns, so watch misses nothing.
THEOREM WatchOfOnePublisher ==
  ASSUME \A p, q \in Publishers : p = q
  PROVE  WatchSpec => []WatchIsComplete
<1>1. TakeTurns
  BY DEF TakeTurns, Inside
<1> QED
  BY <1>1, WatchIsCompleteHolds, PTL

===============================================================================
