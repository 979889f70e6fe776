-------------------------- MODULE StatusFeed_proofs --------------------------
(***************************************************************************)
(* Proofs about StatusFeed for any number of savers, requests and streams. *)
(***************************************************************************)
EXTENDS StatusFeed, TLAPS

-----------------------------------------------------------------------------
(* Types. *)

LEMMA InitType == Init => TypeOK
  <1> SUFFICES ASSUME Init PROVE TypeOK
    OBVIOUS
  <1>1. 0 \in 0..MaxChanges /\ 0 \in 0..MaxRequests /\ 0 \in 0..MaxFailures
    BY BoundAssumption
  <1>2. Current \in Payload
    BY <1>1 DEF Init, Current, Payload
  <1>3. saving \in [Goroutine -> Saving]
    BY <1>1 DEF Init, Saving, SavingStage
  <1>4. stream \in [Client -> Stream]
    BY <1>1, <1>2 DEF Init, Stream, StreamStage
  <1>5. eventMu \in Client \cup {None} /\ proxyOn \in BOOLEAN /\ paused \in BOOLEAN /\ empty \in BOOLEAN
    BY DEF Init
  <1>6. /\ version \in 0..MaxChanges /\ file \in 0..MaxChanges
        /\ requests \in 0..MaxRequests /\ failures \in 0..MaxFailures
    BY <1>1 DEF Init
  <1> QED BY <1>3, <1>4, <1>5, <1>6 DEF TypeOK

\* A step of one goroutine replaces what it is doing.
LEMMA SavingType ==
  ASSUME TypeOK, NEW g \in Goroutine, NEW r \in Saving, saving' = [saving EXCEPT ![g] = r]
  PROVE  saving' \in [Goroutine -> Saving]
  BY DEF TypeOK

LEMMA StreamType ==
  ASSUME TypeOK, NEW c \in Client, NEW r \in Stream, stream' = [stream EXCEPT ![c] = r]
  PROVE  stream' \in [Client -> Stream]
  BY DEF TypeOK

LEMMA WokenType == ASSUME NEW r \in Stream PROVE Woken(r) \in Stream
  BY DEF Woken, Stream, StreamStage

LEMMA CurrentType == TypeOK => Current \in Payload
  BY DEF TypeOK, Current, Payload

LEMMA SavesType == ASSUME TypeOK, NEW g \in Goroutine, Saves(g) PROVE TypeOK'
  <1>1. saving[g] \in Saving /\ saving \in [Goroutine -> Saving]
    BY DEF TypeOK
  <1>2. CASE Serialize(g)
    <2>1. saving' = [saving EXCEPT ![g] = [saving[g] EXCEPT !.stage = "rename", !.data = version]]
      BY <1>1, <1>2 DEF Serialize, Saving
    <2>2. [saving[g] EXCEPT !.stage = "rename", !.data = version] \in Saving
      BY <1>1 DEF TypeOK, Saving, SavingStage
    <2> QED BY <1>2, <2>1, <2>2, SavingType DEF Serialize, TypeOK
  <1>3. CASE Rename(g) \/ WriteFails(g)
    <2>1. saving' = [saving EXCEPT ![g] = [saving[g] EXCEPT !.stage = "broadcast", !.data = 0]]
      BY <1>1, <1>3 DEF Rename, WriteFails, Saving
    <2>2. [saving[g] EXCEPT !.stage = "broadcast", !.data = 0] \in Saving
      <3>1. 0 \in 0..MaxChanges
        BY BoundAssumption
      <3> QED BY <1>1, <3>1 DEF Saving, SavingStage
    <2>3. file' \in 0..MaxChanges
      BY <1>1, <1>3 DEF Rename, WriteFails, TypeOK, Saving
    <2>4. failures' \in 0..MaxFailures
      BY <1>3, BoundAssumption DEF Rename, WriteFails, TypeOK
    <2> QED BY <1>3, <2>1, <2>2, <2>3, <2>4, SavingType DEF Rename, WriteFails, TypeOK
  <1>4. CASE Broadcast(g)
    <2> DEFINE stage == IF saving[g].twice THEN "broadcast" ELSE "idle"
               r == [saving[g] EXCEPT !.stage = stage, !.twice = FALSE]
    <2>1. saving' = [saving EXCEPT ![g] = r]
      BY <1>1, <1>4 DEF Broadcast, Saving
    <2>2. r \in Saving
      BY <1>1 DEF Saving, SavingStage
    <2>3. \A c \in Client : [Woken(stream[c]) EXCEPT !.behind = TRUE] \in Stream
      <3>1. \A c \in Client : Woken(stream[c]) \in Stream
        BY WokenType DEF TypeOK
      <3> QED BY <3>1 DEF Stream
    <2>4. stream' \in [Client -> Stream]
      BY <1>4, <2>3 DEF Broadcast
    <2> HIDE DEF r
    <2> QED BY <1>4, <2>1, <2>2, <2>4, SavingType DEF Broadcast, TypeOK
  <1> QED BY <1>2, <1>3, <1>4 DEF Saves

LEMMA ChangesType ==
  ASSUME TypeOK, NEW g \in Goroutine, Change(g) \/ Retry(g) \/ Turns(g) \/ (g = Ticker /\ Tick)
  PROVE  TypeOK'
  <1>1. saving[g] \in Saving /\ saving \in [Goroutine -> Saving]
    BY DEF TypeOK
  <1>2. CASE Change(g) \/ Retry(g) \/ (g = Ticker /\ Tick)
    <2>1. saving' = [saving EXCEPT ![g] = [saving[g] EXCEPT !.stage = "save"]]
      BY <1>1, <1>2 DEF Change, Retry, Tick
    <2>2. [saving[g] EXCEPT !.stage = "save"] \in Saving
      BY <1>1 DEF Saving, SavingStage
    <2>3. version' \in 0..MaxChanges
      BY <1>2, BoundAssumption DEF Change, Retry, Tick, TypeOK
    <2> QED BY <1>2, <2>1, <2>2, <2>3, SavingType DEF Change, Retry, Tick, TypeOK
  <1>3. CASE Toggle(g)
    <2>1. saving' = [saving EXCEPT ![g] = [saving[g] EXCEPT !.stage = "store", !.next = ~proxyOn]]
      BY <1>1, <1>3 DEF Toggle, Saving
    <2>2. [saving[g] EXCEPT !.stage = "store", !.next = ~proxyOn] \in Saving
      BY <1>1 DEF Saving, SavingStage
    <2>3. requests' \in 0..MaxRequests
      BY <1>3, BoundAssumption DEF Toggle, TypeOK
    <2> QED BY <1>3, <2>1, <2>2, <2>3, SavingType DEF Toggle, TypeOK
  <1>4. CASE ToggleStores(g)
    <2>1. saving' = [saving EXCEPT ![g] = [saving[g] EXCEPT !.stage = "broadcast", !.next = FALSE]]
      BY <1>1, <1>4 DEF ToggleStores, Saving
    <2>2. [saving[g] EXCEPT !.stage = "broadcast", !.next = FALSE] \in Saving
      BY <1>1 DEF Saving, SavingStage
    <2>3. proxyOn' \in BOOLEAN
      BY <1>1, <1>4 DEF ToggleStores, Saving
    <2> QED BY <1>4, <2>1, <2>2, <2>3, SavingType DEF ToggleStores, TypeOK
  <1>5. CASE ToggleScanPause(g)
    <2>1. saving' = [saving EXCEPT ![g] = [saving[g] EXCEPT !.stage = "save", !.twice = TRUE]]
      BY <1>1, <1>5 DEF ToggleScanPause, Saving
    <2>2. [saving[g] EXCEPT !.stage = "save", !.twice = TRUE] \in Saving
      BY <1>1 DEF Saving, SavingStage
    <2>3. requests' \in 0..MaxRequests /\ paused' \in BOOLEAN
      BY <1>5, BoundAssumption DEF ToggleScanPause, TypeOK
    <2> QED BY <1>5, <2>1, <2>2, <2>3, SavingType DEF ToggleScanPause, TypeOK
  <1> QED BY <1>2, <1>3, <1>4, <1>5 DEF Turns

LEMMA BecomesType ==
  ASSUME TypeOK, NEW c \in Client, NEW r \in Stream, Becomes(c, r),
         eventMu' \in Client \cup {None}
  PROVE  TypeOK'
  BY StreamType DEF Becomes, TypeOK

LEMMA StreamsType ==
  ASSUME TypeOK, NEW c \in Client, Streams(c) \/ Leaves(c) \/ Wake(c) PROVE TypeOK'
  <1>1. stream[c] \in Stream /\ eventMu \in Client \cup {None} /\ file \in 0..MaxChanges
    BY DEF TypeOK
  <1>2. CASE Draft(c)
    <2>1. [stream[c] EXCEPT !.stage = "send", !.draft = file] \in Stream
      BY <1>1 DEF Stream, StreamStage
    <2> QED BY <1>1, <1>2, <2>1, BecomesType DEF Draft
  <1>3. CASE Send(c)
    <2> DEFINE stage == IF stream[c].first THEN "sequence" ELSE "enter"
               shown == [Current EXCEPT !.file = stream[c].draft]
    <2>1. stage \in StreamStage /\ shown \in Payload /\ 0 \in 0..MaxChanges
      BY <1>1, CurrentType, BoundAssumption DEF Stream, StreamStage, Payload
    <2> HIDE DEF stage, shown
    <2>2. [stream[c] EXCEPT !.stage = stage, !.draft = 0, !.shown = shown] \in Stream
      BY <1>1, <2>1 DEF Stream
    <2>3. [stream[c] EXCEPT !.stage = "left"] \in Stream
      BY <1>1 DEF Stream, StreamStage
    <2> QED BY <1>1, <1>3, <2>2, <2>3, BecomesType DEF Send, stage, shown
  <1>4. CASE TakeSequence(c)
    <2>1. [stream[c] EXCEPT !.stage = "enter", !.behind = FALSE] \in Stream
      BY <1>1 DEF Stream, StreamStage
    <2> QED BY <1>1, <1>4, <2>1, BecomesType DEF TakeSequence
  <1>5. CASE Enter(c)
    <2>1. [stream[c] EXCEPT !.stage = "left", !.waker = FALSE] \in Stream
      BY <1>1 DEF Stream, StreamStage
    <2>2. [stream[c] EXCEPT !.stage = "draft", !.behind = FALSE, !.first = FALSE,
                            !.waker = FALSE] \in Stream
      BY <1>1 DEF Stream, StreamStage
    <2>3. [stream[c] EXCEPT !.stage = "sleep", !.waker = TRUE] \in Stream
      BY <1>1 DEF Stream, StreamStage
    <2>4. CASE stream[c].gone
      BY <1>1, <1>5, <2>1, <2>4, BecomesType DEF Enter
    <2>5. CASE ~stream[c].gone /\ stream[c].behind
      BY <1>1, <1>5, <2>2, <2>5, BecomesType DEF Enter
    <2>6. CASE ~stream[c].gone /\ ~stream[c].behind
      BY <1>1, <1>5, <2>3, <2>6, BecomesType DEF Enter
    <2> QED BY <2>4, <2>5, <2>6
  <1>6. CASE Sleep(c)
    <2>1. [stream[c] EXCEPT !.stage = "asleep"] \in Stream
      BY <1>1 DEF Stream, StreamStage
    <2> QED BY <1>1, <1>6, <2>1, BecomesType DEF Sleep
  <1>7. CASE Leaves(c)
    <2>1. [stream[c] EXCEPT !.gone = TRUE] \in Stream
      BY <1>1 DEF Stream
    <2> QED BY <1>1, <1>7, <2>1, BecomesType DEF Leaves
  <1>8. CASE Wake(c)
    <2>1. \A d \in Client : Woken(stream[d]) \in Stream
      BY WokenType DEF TypeOK
    <2>2. \A d \in Client : [Woken(stream[d]) EXCEPT !.waker = FALSE] \in Stream
      BY <2>1 DEF Stream
    <2>3. stream' \in [Client -> Stream]
      BY <1>8, <2>1, <2>2 DEF Wake
    <2> QED BY <1>8, <2>3 DEF Wake, TypeOK
  <1> QED BY <1>2, <1>3, <1>4, <1>5, <1>6, <1>7, <1>8 DEF Streams

LEMMA NextType == TypeOK /\ [Next]_vars => TypeOK'
  <1> SUFFICES ASSUME TypeOK, [Next]_vars PROVE TypeOK'
    OBVIOUS
  <1>1. CASE UNCHANGED vars
    BY <1>1 DEF TypeOK, vars
  <1>2. CASE Next
    <2>1. Ticker \in Goroutine /\ Saver \subseteq Goroutine /\ Handler \subseteq Goroutine
      BY TickerAssumption DEF Goroutine
    <2> QED BY <1>2, <2>1, SavesType, ChangesType, StreamsType DEF Next
  <1> QED BY <1>1, <1>2

\* Versions, stages and payloads keep their shape.
THEOREM FeedTypeCorrect == Spec => []TypeOK
  <1>1. Init => TypeOK
    BY InitType
  <1>2. TypeOK /\ [Next]_vars => TypeOK'
    BY NextType
  <1> QED BY <1>1, <1>2, PTL DEF Spec

-----------------------------------------------------------------------------
(* No stream sleeps over a change. *)

SomebodyOwes == \E g \in Goroutine : Owes(g)
FeedInv == TypeOK /\ NothingMissed /\ DraftIsFresh /\ SequenceIsFirst

\* What the three invariants say of one stream in state r.
Informed(r) ==
    /\ r.stage = "sequence" => r.first
    /\ ~r.first /\ ~r.behind =>
        /\ r.stage \in {"enter", "sleep", "asleep"} => r.shown = Current \/ SomebodyOwes
        /\ r.stage = "send" => r.draft = file \/ SomebodyOwes

AllInformed == NothingMissed /\ DraftIsFresh /\ SequenceIsFirst

LEMMA InformedAll == (\A c \in Client : Informed(stream[c])) <=> AllInformed
  BY DEF Informed, AllInformed, NothingMissed, DraftIsFresh, SequenceIsFirst, SomebodyOwes, Holds

\* Whoever owes a broadcast owes it until the broadcast.
LEMMA OwesStays ==
  ASSUME TypeOK, SomebodyOwes, NEW g \in Goroutine, NEW r,
         saving' = [saving EXCEPT ![g] = r],
         ~At(g, "broadcast"), saving[g].twice => r.twice
  PROVE  SomebodyOwes'
  <1>1. PICK h \in Goroutine : Owes(h)
    BY DEF SomebodyOwes
  <1>2. CASE h = g
    <2>1. saving[g].twice
      BY <1>1, <1>2 DEF Owes
    <2>2. saving'[g].twice
      BY <2>1 DEF TypeOK
    <2> QED BY <2>2 DEF SomebodyOwes, Owes
  <1>3. CASE h # g
    <2>1. saving'[h] = saving[h]
      BY <1>3 DEF TypeOK
    <2> QED BY <1>1, <2>1 DEF SomebodyOwes, Owes, At
  <1> QED BY <1>2, <1>3

LEMMA QuietSteps ==
  ASSUME FeedInv, NEW g \in Goroutine, NEW r,
         saving' = [saving EXCEPT ![g] = r], ~At(g, "broadcast"), saving[g].twice => r.twice,
         UNCHANGED <<file, proxyOn, paused, stream>>
  PROVE  AllInformed'
  <1>1. Current' = Current
    BY DEF Current
  <1>2. SomebodyOwes => SomebodyOwes'
    BY OwesStays DEF FeedInv
  <1>3. \A c \in Client : Informed(stream[c])
    BY InformedAll DEF AllInformed, FeedInv
  <1>4. \A c \in Client : Informed(stream[c])'
    BY <1>1, <1>2, <1>3 DEF Informed
  <1> QED BY <1>4 DEF Informed, AllInformed, NothingMissed, DraftIsFresh, SequenceIsFirst,
                      SomebodyOwes, Holds

LEMMA GoroutineSteps ==
  ASSUME FeedInv, NEW g \in Goroutine,
         Saves(g) \/ Turns(g) \/ Change(g) \/ Retry(g) \/ (g = Ticker /\ Tick)
  PROVE  AllInformed'
  <1>1. saving \in [Goroutine -> Saving] /\ saving[g] \in Saving
    BY DEF FeedInv, TypeOK
  <1>2. CASE Change(g) \/ Retry(g) \/ (g = Ticker /\ Tick)
    <2>1. /\ saving' = [saving EXCEPT ![g] = [saving[g] EXCEPT !.stage = "save"]]
          /\ ~At(g, "broadcast") /\ UNCHANGED <<file, proxyOn, paused, stream>>
      BY <1>1, <1>2 DEF Change, Retry, Tick, At
    <2>2. [saving[g] EXCEPT !.stage = "save"].twice = saving[g].twice
      BY <1>1 DEF Saving
    <2> QED BY <2>1, <2>2, QuietSteps
  <1>3. CASE Toggle(g)
    <2>1. /\ saving' = [saving EXCEPT ![g] = [saving[g] EXCEPT !.stage = "store", !.next = ~proxyOn]]
          /\ ~At(g, "broadcast") /\ UNCHANGED <<file, proxyOn, paused, stream>>
      BY <1>1, <1>3 DEF Toggle, At, Saving
    <2>2. [saving[g] EXCEPT !.stage = "store", !.next = ~proxyOn].twice = saving[g].twice
      BY <1>1 DEF Saving
    <2> QED BY <2>1, <2>2, QuietSteps
  <1>4. CASE Serialize(g)
    <2>1. /\ saving' = [saving EXCEPT ![g] = [saving[g] EXCEPT !.stage = "rename", !.data = version]]
          /\ ~At(g, "broadcast") /\ UNCHANGED <<file, proxyOn, paused, stream>>
      BY <1>1, <1>4 DEF Serialize, At, Saving
    <2>2. [saving[g] EXCEPT !.stage = "rename", !.data = version].twice = saving[g].twice
      BY <1>1 DEF Saving
    <2> QED BY <2>1, <2>2, QuietSteps
  <1>5. CASE Rename(g) \/ WriteFails(g) \/ ToggleStores(g) \/ ToggleScanPause(g)
    <2>1. Owes(g)'
      BY <1>1, <1>5 DEF Rename, WriteFails, ToggleStores, ToggleScanPause, Owes, At, Saving
    <2>2. UNCHANGED stream
      BY <1>5 DEF Rename, WriteFails, ToggleStores, ToggleScanPause
    <2> QED BY <2>1, <2>2 DEF AllInformed, NothingMissed, DraftIsFresh, SequenceIsFirst, FeedInv, Holds
  <1>6. CASE Broadcast(g)
    <2>1. \A c \in Client : Woken(stream[c]) \in Stream
      BY WokenType DEF FeedInv, TypeOK
    <2>2. \A c \in Client : stream'[c].behind
      BY <1>6, <2>1 DEF Broadcast, Stream
    <2>3. \A c \in Client : /\ stream'[c].first = stream[c].first
                            /\ stream'[c].stage = "sequence" => stream[c].stage = "sequence"
      BY <1>6 DEF Broadcast, Woken, FeedInv, TypeOK, Stream
    <2> QED BY <2>2, <2>3 DEF AllInformed, NothingMissed, DraftIsFresh, SequenceIsFirst, FeedInv, Holds
  <1> QED BY <1>2, <1>3, <1>4, <1>5, <1>6 DEF Saves, Turns

LEMMA OneStream ==
  ASSUME FeedInv, NEW c \in Client, NEW r, Becomes(c, r), Informed(r)
  PROVE  AllInformed'
  <1>1. UNCHANGED <<file, proxyOn, paused, saving>> /\ stream' = [stream EXCEPT ![c] = r]
    BY DEF Becomes
  <1>2. Current' = Current /\ (SomebodyOwes' <=> SomebodyOwes)
    BY <1>1 DEF Current, SomebodyOwes, Owes, At
  <1>3. \A d \in Client : Informed(stream[d])
    BY InformedAll DEF AllInformed, FeedInv
  <1>4. \A d \in Client : Informed(stream'[d])
    <2>1. \A d \in Client : stream'[d] = IF d = c THEN r ELSE stream[d]
      BY <1>1 DEF FeedInv, TypeOK
    <2> QED BY <1>3, <2>1
  <1>5. \A d \in Client : Informed(stream[d])'
    BY <1>1, <1>2, <1>4 DEF Informed
  <1> QED BY <1>5 DEF Informed, AllInformed, NothingMissed, DraftIsFresh, SequenceIsFirst,
                      SomebodyOwes, Holds

LEMMA StreamSteps ==
  ASSUME FeedInv, NEW c \in Client, Streams(c) \/ Leaves(c) \/ Wake(c)
  PROVE  AllInformed'
  <1> DEFINE r == stream[c]
  <1>1. r \in Stream /\ Informed(r)
    BY InformedAll DEF AllInformed, FeedInv, TypeOK
  <1>2. CASE Draft(c)
    <2> DEFINE n == [r EXCEPT !.stage = "send", !.draft = file]
    <2>1. Informed(n)
      BY <1>1 DEF Informed, Stream
    <2> QED BY <1>2, <2>1, OneStream DEF Draft
  <1>3. CASE Send(c)
    <2> DEFINE stage == IF r.first THEN "sequence" ELSE "enter"
               shown == [Current EXCEPT !.file = r.draft]
               n == [r EXCEPT !.stage = stage, !.draft = 0, !.shown = shown]
               m == [r EXCEPT !.stage = "left"]
    <2>1. r.draft = file => shown = Current
      BY DEF Current
    <2>2. r.stage = "send"
      BY <1>3 DEF Send, Holds
    <2>3. Informed(n)
      <3> HIDE DEF shown
      <3> QED BY <1>1, <2>1, <2>2 DEF Informed, Stream
    <2>4. Informed(m)
      BY <1>1 DEF Informed, Stream
    <2>5. Becomes(c, n) \/ Becomes(c, m)
      BY <1>3 DEF Send
    <2> HIDE DEF n, m
    <2> QED BY <2>3, <2>4, <2>5, OneStream
  <1>4. CASE TakeSequence(c)
    <2> DEFINE n == [r EXCEPT !.stage = "enter", !.behind = FALSE]
    <2>1. r.first
      BY <1>1, <1>4 DEF TakeSequence, Holds, Informed
    <2>2. Informed(n)
      BY <1>1, <2>1 DEF Informed, Stream
    <2> QED BY <1>4, <2>2, OneStream DEF TakeSequence
  <1>5. CASE Enter(c)
    <2> DEFINE left == [r EXCEPT !.stage = "left", !.waker = FALSE]
               draft == [r EXCEPT !.stage = "draft", !.behind = FALSE, !.first = FALSE,
                                  !.waker = FALSE]
               sleep == [r EXCEPT !.stage = "sleep", !.waker = TRUE]
    <2>1. r.stage = "enter"
      BY <1>5 DEF Enter, Holds
    <2>2. Informed(left) /\ Informed(draft) /\ Informed(sleep)
      BY <1>1, <2>1 DEF Informed, Stream
    <2>3. Becomes(c, left) \/ Becomes(c, draft) \/ Becomes(c, sleep)
      BY <1>5 DEF Enter
    <2> HIDE DEF left, draft, sleep
    <2> QED BY <2>2, <2>3, OneStream
  <1>6. CASE Sleep(c)
    <2> DEFINE n == [r EXCEPT !.stage = "asleep"]
    <2>1. Informed(n)
      BY <1>1, <1>6 DEF Informed, Stream, Sleep, Holds
    <2> QED BY <1>6, <2>1, OneStream DEF Sleep
  <1>7. CASE Leaves(c)
    <2> DEFINE n == [r EXCEPT !.gone = TRUE]
    <2>1. Informed(n)
      BY <1>1 DEF Informed, Stream
    <2> QED BY <1>7, <2>1, OneStream DEF Leaves
  <1>8. CASE Wake(c)
    <2>1. UNCHANGED <<file, proxyOn, paused, saving>>
      BY <1>8 DEF Wake
    <2>2. Current' = Current /\ (SomebodyOwes' <=> SomebodyOwes)
      BY <2>1 DEF Current, SomebodyOwes, Owes, At
    <2>3. \A d \in Client : Informed(stream[d]) /\ stream[d] \in Stream
      BY InformedAll DEF AllInformed, FeedInv, TypeOK
    <2>4. \A d \in Client : Informed(Woken(stream[d])) /\ Woken(stream[d]) \in Stream
      BY <2>3, WokenType DEF Informed, Woken, Stream
    <2>5. \A d \in Client : Informed([Woken(stream[d]) EXCEPT !.waker = FALSE])
      BY <2>4 DEF Informed, Stream
    <2>6. \A d \in Client : Informed(stream'[d])
      BY <1>8, <2>4, <2>5 DEF Wake
    <2>7. \A d \in Client : Informed(stream[d])'
      BY <2>1, <2>2, <2>6 DEF Informed
    <2> QED BY <2>7 DEF Informed, AllInformed, NothingMissed, DraftIsFresh, SequenceIsFirst,
                        SomebodyOwes, Holds
  <1> QED BY <1>2, <1>3, <1>4, <1>5, <1>6, <1>7, <1>8 DEF Streams

LEMMA FeedInit == Init => FeedInv
  BY InitType DEF Init, FeedInv, NothingMissed, DraftIsFresh, SequenceIsFirst, Holds

LEMMA FeedNext == FeedInv /\ [Next]_vars => FeedInv'
  <1> SUFFICES ASSUME FeedInv, [Next]_vars PROVE FeedInv'
    OBVIOUS
  <1>1. TypeOK'
    BY NextType DEF FeedInv
  <1>2. AllInformed'
    <2>1. CASE UNCHANGED vars
      BY <2>1 DEF vars, FeedInv, AllInformed, NothingMissed, DraftIsFresh, SequenceIsFirst,
                  Current, Owes, At, Holds
    <2>2. CASE Next
      <3>1. Ticker \in Goroutine /\ Saver \subseteq Goroutine /\ Handler \subseteq Goroutine
        BY TickerAssumption DEF Goroutine
      <3> QED BY <2>2, <3>1, GoroutineSteps, StreamSteps DEF Next
    <2> QED BY <2>1, <2>2
  <1> QED BY <1>1, <1>2 DEF AllInformed, FeedInv

\* However savers, switches, failed writes and streams interleave: a stream that
\* waits for the next change has sent what there is, or is about to be woken
\* (saveState broadcasts last, waitStateChange compares sequence numbers).
THEOREM StreamsMissNothing == Spec => []NothingMissed
  <1>1. Init => FeedInv
    BY FeedInit
  <1>2. FeedInv /\ [Next]_vars => FeedInv'
    BY FeedNext
  <1>3. FeedInv => NothingMissed
    BY DEF FeedInv
  <1> QED BY <1>1, <1>2, <1>3, PTL DEF Spec
=============================================================================
