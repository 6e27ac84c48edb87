------------------------------- MODULE EventWatch -------------------------------
(***************************************************************************)
(* "aegisctl watch" on top of the Bus: it polls GET /v1/events with a      *)
(* cursor, prints the page it gets and moves the cursor to the page's      *)
(* next_sequence.  The handler reads the MemorySink, which forgets.        *)
(***************************************************************************)
EXTENDS EventBus

CONSTANTS
  Wanted,    \* the kinds that the query filters for
  PageLimit  \* the query's limit

ASSUME LimitIsPositive == PageLimit \in Nat \ {0}
ASSUME WantedKinds == Wanted \subseteq Kinds

VARIABLES
  cursor,    \* currentSequence
  printed    \* what watch has printed

watchVars == <<cursor, printed>>

WatchInit == Init /\ cursor = 0 /\ printed = <<>>

\* Mutant: Since includes the event at the cursor.
SelectedInclusive(e) == e.sequence >= cursor /\ e.kind \in Wanted

\* MemorySink.Since or Snapshot, and the query's filters.
Selected(e) == e.sequence > cursor /\ e.kind \in Wanted

\* The handler's loop over what the sink returns.
Matching ==
  LET filtered[n \in 0 .. Len(memory)] ==
        IF n = 0 THEN <<>>
        ELSE IF Selected(memory[n]) THEN Append(filtered[n - 1], memory[n])
        ELSE filtered[n - 1]
  IN  filtered[Len(memory)]

Page == SubSeq(Matching, 1, IF Len(Matching) > PageLimit THEN PageLimit ELSE Len(Matching))

\* Mutant: next_sequence goes by the events before the limit cut them.
NextSequenceOfAll(page) == Last(Matching).sequence

NextSequence(page) == Last(page).sequence

\* One request that succeeds.  One that fails, or finds nothing, changes nothing.
Poll ==
  /\ Page # <<>>
  /\ printed' = printed \o Page
  /\ cursor' = IF NextSequence(Page) > cursor THEN NextSequence(Page) ELSE cursor
  /\ UNCHANGED vars

WatchNext == (Next /\ UNCHANGED watchVars) \/ Poll

\* The loop polls for ever; the Bus is as fair as before.
WatchSpec ==
  /\ WatchInit
  /\ [][WatchNext]_<<vars, watchVars>>
  /\ Fairness
  /\ WF_<<vars, watchVars>>(Poll)

-----------------------------------------------------------------------------
\* With publishers that take turns, as the Scheduler's do under s.mu, watch skips
\* nothing that was there to be read, and prints each event once and in order.
WatchIsComplete ==
  /\ \A e \in ToSet(memory) :
       e.kind \in Wanted /\ e.sequence <= cursor => e \in ToSet(printed)
  /\ \A i, j \in DOMAIN printed : i < j => printed[i].sequence < printed[j].sequence

\* What is retained is printed or forgotten before it is read, nothing stays unread.
WatchCatchesUp ==
  \A n \in 1 .. MaxSequence :
    (\E e \in ToSet(memory) : e.sequence = n /\ e.kind \in Wanted)
      ~> (n \notin {e.sequence : e \in ToSet(memory)} \/ n \in {e.sequence : e \in ToSet(printed)})
===============================================================================
