----------------------------- MODULE StatusFeed -----------------------------
(***************************************************************************)
(* How the state of cfnat gets to its viewers.  Every goroutine that       *)
(* changes App.state calls saveState: serialise under App.mu, write a      *)
(* temporary file, rename it to state.json, and broadcast.  An event       *)
(* stream of the Web panel (handleEvents) sends what statusPayload reads,  *)
(* the file and two switches, and sleeps in waitStateChange until the      *)
(* sequence number moves.  The switches are those of the proxy (Toggle)    *)
(* and of the scans (ToggleScanPause).                                     *)
(*                                                                         *)
(* The content of the state is a version number.  Of the sequence number   *)
(* a stream needs one bit: whether it has moved since the stream took it.  *)
(***************************************************************************)
EXTENDS Naturals

CONSTANTS
    Saver,         \* goroutines that change and save the state: scans, checks
    Ticker,        \* the one among them that runs the monitor ticks: maintain
    Handler,       \* goroutines of Web requests that turn a switch
    Client,        \* event streams
    None,          \* nobody
    MaxChanges,    \* bound of the model: changes of the state
    MaxRequests,   \* bound of the model: requests to turn a switch
    MaxFailures    \* bound of the model: failed writes of the file

ASSUME TickerAssumption == Ticker \in Saver
ASSUME NameAssumption == Saver \cap Handler = {} /\ None \notin Client
ASSUME BoundAssumption ==
    MaxChanges \in Nat /\ MaxRequests \in Nat /\ MaxFailures \in Nat

Goroutine == Saver \cup Handler

VARIABLES
    version,    \* App.state
    proxyOn,    \* proxy.Server.enabled
    paused,     \* App.scanPaused
    empty,      \* App.pool has no address
    file,       \* the version in state.json
    saving,     \* what each goroutine is doing
    eventMu,    \* the stream that holds App.eventMu between two steps
    stream,     \* what each event stream is doing
    requests, failures

vars == <<version, proxyOn, paused, empty, file, saving, eventMu, stream, requests, failures>>

\* `data` is what is to be written, `next` what Toggle stores (reset when used), `twice` that the
\* handler broadcasts once more after saveState did.
SavingStage == {"idle", "store", "save", "rename", "broadcast"}
Saving == [stage: SavingStage, data: 0..MaxChanges, next: BOOLEAN, twice: BOOLEAN]

Payload == [file: 0..MaxChanges, proxyOn: BOOLEAN, paused: BOOLEAN]

\* `behind`: the sequence number has moved since the stream took it.
\* `draft`: the version read for the next event.  `shown`: the last event.
\* `gone`: the request's context is cancelled; `waker`: the goroutine that
\* waitStateChange starts for that; `first`: it has not waited for a change yet.
StreamStage == {"draft", "send", "sequence", "enter", "sleep", "asleep", "left"}
Stream == [stage: StreamStage, draft: 0..MaxChanges, shown: Payload, behind: BOOLEAN,
           first: BOOLEAN, gone: BOOLEAN, waker: BOOLEAN]

TypeOK ==
    /\ version \in 0..MaxChanges /\ file \in 0..MaxChanges
    /\ proxyOn \in BOOLEAN /\ paused \in BOOLEAN /\ empty \in BOOLEAN
    /\ saving \in [Goroutine -> Saving]
    /\ eventMu \in Client \cup {None}
    /\ stream \in [Client -> Stream]
    /\ requests \in 0..MaxRequests /\ failures \in 0..MaxFailures

Current == [file |-> file, proxyOn |-> proxyOn, paused |-> paused]

Init ==
    /\ version = 0 /\ file = 0 /\ proxyOn = TRUE /\ paused = FALSE /\ empty = TRUE
    /\ saving = [g \in Goroutine |->
                   [stage |-> "idle", data |-> 0, next |-> FALSE, twice |-> FALSE]]
    /\ eventMu = None
    /\ stream = [c \in Client |->
                   [stage |-> "draft", draft |-> 0, shown |-> Current, behind |-> FALSE,
                    first |-> TRUE, gone |-> FALSE, waker |-> FALSE]]
    /\ requests = 0 /\ failures = 0

At(g, stage) == saving[g].stage = stage

(***************************************************************************)
(* saveState.                                                              *)
(***************************************************************************)

\* The state changes under App.mu, and the pool with it; saveState comes after
\* the unlock.
Change(s) ==
    /\ At(s, "idle") /\ version < MaxChanges
    /\ version' = version + 1
    /\ empty' \in BOOLEAN
    /\ saving' = [saving EXCEPT ![s].stage = "save"]
    /\ UNCHANGED <<proxyOn, paused, file, eventMu, stream, requests, failures>>

TickBroadcasts ==
    /\ At(Ticker, "idle") /\ ~empty
    /\ saving' = [saving EXCEPT ![Ticker].stage = "broadcast"]
    /\ UNCHANGED <<version, proxyOn, paused, empty, file, eventMu, stream, requests, failures>>
\* A monitor tick: checkAndPrunePool saves, changed or not, unless the pool is
\* empty (with an address cooling, a recovery round saves what it changed: Change).
Tick ==
    /\ At(Ticker, "idle") /\ ~empty
    /\ saving' = [saving EXCEPT ![Ticker].stage = "save"]
    /\ UNCHANGED <<version, proxyOn, paused, empty, file, eventMu, stream, requests, failures>>

\* With an empty pool the retry ticker scans, unless scans are paused, and a scan
\* saves whatever it finds; or a scan is under way, and saves when it ends.
Retry(s) ==
    /\ At(s, "idle") /\ empty /\ ~paused
    /\ saving' = [saving EXCEPT ![s].stage = "save"]
    /\ UNCHANGED <<version, proxyOn, paused, empty, file, eventMu, stream, requests, failures>>

SerializeNext(g) ==
    /\ At(g, "save")
    /\ saving' = [saving EXCEPT ![g].stage = "rename", ![g].data = version + 1]
    /\ UNCHANGED <<version, proxyOn, paused, empty, file, eventMu, stream, requests, failures>>
Serialize(g) ==
    /\ At(g, "save")
    /\ saving' = [saving EXCEPT ![g].stage = "rename", ![g].data = version]
    /\ UNCHANGED <<version, proxyOn, paused, empty, file, eventMu, stream, requests, failures>>

\* writeState: the rename is what makes it visible.
Rename(g) ==
    /\ At(g, "rename")
    /\ file' = saving[g].data
    /\ saving' = [saving EXCEPT ![g].stage = "broadcast", ![g].data = 0]
    /\ UNCHANGED <<empty, version, proxyOn, paused, eventMu, stream, requests, failures>>

WriteFails(g) ==
    /\ At(g, "rename") /\ failures < MaxFailures
    /\ failures' = failures + 1
    /\ saving' = [saving EXCEPT ![g].stage = "broadcast", ![g].data = 0]
    /\ UNCHANGED <<version, proxyOn, paused, empty, file, eventMu, stream, requests>>

\* What Cond.Broadcast does to a stream.
Woken(r) == IF r.stage = "asleep" THEN [r EXCEPT !.stage = "enter"] ELSE r

BroadcastNoSequence(g) ==
    /\ At(g, "broadcast")
    /\ eventMu = None
    /\ stream' = [c \in Client |-> Woken(stream[c])]
    /\ saving' = [saving EXCEPT ![g].stage = IF saving[g].twice THEN "broadcast" ELSE "idle",
                                ![g].twice = FALSE]
    /\ UNCHANGED <<version, proxyOn, paused, empty, file, eventMu, requests, failures>>
\* broadcastState: every stream is behind now, and those asleep wake up.
Broadcast(g) ==
    /\ At(g, "broadcast")
    /\ eventMu = None
    /\ stream' = [c \in Client |-> [Woken(stream[c]) EXCEPT !.behind = TRUE]]
    /\ saving' = [saving EXCEPT ![g].stage = IF saving[g].twice THEN "broadcast" ELSE "idle",
                                ![g].twice = FALSE]
    /\ UNCHANGED <<version, proxyOn, paused, empty, file, eventMu, requests, failures>>

(***************************************************************************)
(* The switches.                                                           *)
(***************************************************************************)

\* proxy.Toggle reads the switch, and stores the opposite of what it read.
Toggle(h) ==
    /\ At(h, "idle") /\ requests < MaxRequests
    /\ requests' = requests + 1
    /\ saving' = [saving EXCEPT ![h].stage = "store", ![h].next = ~proxyOn]
    /\ UNCHANGED <<version, proxyOn, paused, empty, file, eventMu, stream, failures>>

ToggleStores(h) ==
    /\ At(h, "store")
    /\ proxyOn' = saving[h].next
    /\ saving' = [saving EXCEPT ![h].stage = "broadcast", ![h].next = FALSE]
    /\ UNCHANGED <<version, paused, empty, file, eventMu, stream, requests, failures>>

ToggleScanPause(h) ==
    /\ At(h, "idle") /\ requests < MaxRequests
    /\ requests' = requests + 1
    /\ paused' = ~paused
    /\ saving' = [saving EXCEPT ![h].stage = "save", ![h].twice = TRUE]
    /\ UNCHANGED <<version, proxyOn, empty, file, eventMu, stream, failures>>

(***************************************************************************)
(* handleEvents.                                                           *)
(***************************************************************************)
Holds(c, stage) == stream[c].stage = stage
Becomes(c, r) ==
    /\ stream' = [stream EXCEPT ![c] = r]
    /\ UNCHANGED <<version, proxyOn, paused, empty, file, saving, requests, failures>>

\* statusPayload reads the file first and the switches after it.
Draft(c) ==
    /\ Holds(c, "draft")
    /\ Becomes(c, [stream[c] EXCEPT !.stage = "send", !.draft = file])
    /\ UNCHANGED eventMu

SendThenSequence(c) ==
    /\ Holds(c, "send")
    /\ \/ Becomes(c, [stream[c] EXCEPT !.stage = "sequence", !.draft = 0,
                        !.shown = [Current EXCEPT !.file = stream[c].draft]])
       \/ stream[c].gone /\ Becomes(c, [stream[c] EXCEPT !.stage = "left"])
    /\ UNCHANGED eventMu
\* Sending to a client that is gone may fail, which ends the handler.
Send(c) ==
    /\ Holds(c, "send")
    /\ \/ Becomes(c, [stream[c] EXCEPT !.stage = IF stream[c].first THEN "sequence" ELSE "enter",
                        !.draft = 0, !.shown = [Current EXCEPT !.file = stream[c].draft]])
       \/ stream[c].gone /\ Becomes(c, [stream[c] EXCEPT !.stage = "left"])
    /\ UNCHANGED eventMu

\* stateSequence, after the first event was sent.
TakeSequence(c) ==
    /\ Holds(c, "sequence") /\ eventMu = None
    /\ Becomes(c, [stream[c] EXCEPT !.stage = "enter", !.behind = FALSE])
    /\ UNCHANGED eventMu

EnterNeverGone(c) ==
    /\ Holds(c, "enter") /\ eventMu = None
    /\ IF stream[c].behind
       THEN /\ Becomes(c, [stream[c] EXCEPT !.stage = "draft", !.behind = FALSE,
                                            !.first = FALSE, !.waker = FALSE])
            /\ UNCHANGED eventMu
       ELSE /\ Becomes(c, [stream[c] EXCEPT !.stage = "sleep", !.waker = TRUE])
            /\ eventMu' = c
\* waitStateChange, from the lock to the test of the loop: behind, it returns
\* and sends; gone, it returns and the handler ends.
Enter(c) ==
    /\ Holds(c, "enter") /\ eventMu = None
    /\ LET r == stream[c] IN
         CASE r.gone -> /\ Becomes(c, [r EXCEPT !.stage = "left", !.waker = FALSE])
                        /\ UNCHANGED eventMu
           [] ~r.gone /\ r.behind ->
                        /\ Becomes(c, [r EXCEPT !.stage = "draft", !.behind = FALSE,
                                                !.first = FALSE, !.waker = FALSE])
                        /\ UNCHANGED eventMu
           [] OTHER ->  /\ Becomes(c, [r EXCEPT !.stage = "sleep", !.waker = TRUE])
                        /\ eventMu' = c

\* Cond.Wait queues the stream and gives the lock back.
Sleep(c) ==
    /\ Holds(c, "sleep")
    /\ Becomes(c, [stream[c] EXCEPT !.stage = "asleep"])
    /\ eventMu' = None

Leaves(c) ==
    /\ ~stream[c].gone /\ ~Holds(c, "left")
    /\ Becomes(c, [stream[c] EXCEPT !.gone = TRUE])
    /\ UNCHANGED eventMu

\* The waker broadcasts once, without eventMu: a stream that has tested its
\* context but is not queued yet does not hear it.
Wake(c) ==
    /\ stream[c].gone /\ stream[c].waker
    /\ stream' = [d \in Client |->
                    IF d = c THEN [Woken(stream[d]) EXCEPT !.waker = FALSE]
                             ELSE Woken(stream[d])]
    /\ UNCHANGED <<version, proxyOn, paused, empty, file, saving, eventMu, requests, failures>>

(***************************************************************************)
Saves(g) == Serialize(g) \/ Rename(g) \/ WriteFails(g) \/ Broadcast(g)
Turns(h) == Toggle(h) \/ ToggleStores(h) \/ ToggleScanPause(h)
Streams(c) == Draft(c) \/ Send(c) \/ TakeSequence(c) \/ Enter(c) \/ Sleep(c)

Next == \/ Tick
        \/ \E s \in Saver : Change(s) \/ Retry(s)
        \/ \E g \in Goroutine : Saves(g)
        \/ \E h \in Handler : Turns(h)
        \/ \E c \in Client : Streams(c) \/ Leaves(c) \/ Wake(c)

Spec == Init /\ [][Next]_vars

\* Goroutines go on; the tickers tick for ever; a sync.Mutex that is asked for
\* is granted in the end (its starvation mode), hence SF where eventMu is taken.
Fairness ==
    /\ WF_vars(Tick)
    /\ WF_vars(\E s \in Saver : Retry(s))
    /\ \A g \in Goroutine : /\ WF_vars(Serialize(g) \/ Rename(g) \/ ToggleStores(g))
                            /\ SF_vars(Broadcast(g))
    /\ \A c \in Client : /\ WF_vars(Draft(c) \/ Send(c) \/ Sleep(c) \/ Wake(c))
                         /\ SF_vars(TakeSequence(c) \/ Enter(c))

FairSpec == Spec /\ Fairness

(***************************************************************************)
(* Properties.                                                             *)
(***************************************************************************)

\* A goroutine that has made a change visible and has yet to broadcast it.
Owes(g) == At(g, "broadcast") \/ saving[g].twice

\* Between two events a stream does not sleep over a change: what it shows is
\* what statusPayload would read now, or the sequence number has moved, or
\* somebody is about to move it (waitStateChange returns before the state is
\* read; only the first event is read before the sequence number is taken).
NothingMissed ==
    \A c \in Client :
        /\ stream[c].stage \in {"enter", "sleep", "asleep"}
        /\ ~stream[c].first /\ ~stream[c].behind
        => stream[c].shown = Current \/ \E g \in Goroutine : Owes(g)

\* Nothing in the program saves of itself any more: no pool to check, and the
\* scans that would fill it are paused.
Quiet == empty /\ paused

\* Unless it ends up quiet: when the state stops changing, state.json becomes
\* that state, in whatever order the savers renamed their files and whichever
\* write failed (saveState, README: state.json).
FileCatchesUp == <>[]Quiet \/ <>[](file = version)

\* And every open event stream comes to show it, with both switches, also the
\* one that was opened while it changed (README: pushed without a refresh).
StreamCatchesUp ==
    \/ <>[]Quiet
    \/ \A c \in Client : <>[](stream[c].gone \/ (stream[c].shown = Current /\ file = version))

\* The handler of a client that went away ends, even when the one broadcast
\* that tells it so came too early (waitStateChange).
GoneClientsLeave ==
    <>[]Quiet \/ \A c \in Client : stream[c].gone ~> Holds(c, "left")

\* The same with no exception, which the code does not give: the broadcast of the
\* goroutine in waitStateChange is not under eventMu, and may fall between the
\* test of the context and Cond.Wait; in a quiet program no other one follows.
HandlersEnd == \A c \in Client : stream[c].gone ~> Holds(c, "left")

\* FileCatchesUp with no exception: a failed or overtaken write of a quiet
\* program stays.
FileIsCurrentInTheEnd == <>[](file = version)

(***************************************************************************)
(* The inductive strengthening the proofs need.                            *)
(***************************************************************************)

\* Only the first event is read before the sequence number is taken.
SequenceIsFirst == \A c \in Client : Holds(c, "sequence") => stream[c].first

\* The same as NothingMissed of the event a stream is about to send.
DraftIsFresh ==
    \A c \in Client :
        Holds(c, "send") /\ ~stream[c].first /\ ~stream[c].behind
        => stream[c].draft = file \/ \E g \in Goroutine : Owes(g)
=============================================================================
