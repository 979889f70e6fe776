--------------------------- MODULE ShodanManager ---------------------------
(***************************************************************************)
(* The Shodan manager of cfnat (internal/shodan): search profiles in a      *)
(* file, fetches of addresses for one profile at a time, and a loop that    *)
(* fetches the profiles whose schedule is due.                             *)
(*                                                                         *)
(* Every operation reads the whole file, changes its copy and writes the    *)
(* whole file; nothing locks the file.  `mu` admits one fetch at a time.    *)
(* A fetch writes two result files, the archive of its query and the copy   *)
(* of its profile, and tells how it is doing in status.json, which others   *)
(* write as well.  os.WriteFile empties a file and then writes it.          *)
(* Web handlers and fetches are goroutines of their own (`Web`), the loop   *)
(* is another (`Loop`).                                                    *)
(***************************************************************************)
EXTENDS Naturals, FiniteSets

CONSTANTS
    Profile,      \* names of profiles
    Default,      \* the profile of a new installation
    Web,          \* goroutines of Web requests
    Setting,      \* what the form of a profile holds, the download switch included
    NoKey,        \* the settings of a new profile: no API key
    None,         \* no goroutine; no fetch so far
    MaxRequests   \* bound of the model: requests of users and restarts of the process

ASSUME ProfileAssumption == Default \in Profile
ASSUME SettingAssumption == NoKey \in Setting /\ Setting \cap Profile = {}
ASSUME NoneAssumption == None \notin Web /\ None # "loop"
ASSUME RequestsAssumption == MaxRequests \in Nat

VARIABLES
    file,      \* config.json: "whole", or why it cannot be read
    store,     \* the last configuration that was written whole
    status,    \* status.json: the state in it, or why it cannot be read
    results,   \* the result files, as ResultFile describes them
    mu,        \* who holds Manager.mu
    pc,        \* where each goroutine is
    cfg,       \* the copy of the configuration it works on
    name,      \* the profile it fetches
    resume,    \* where it goes on when it has saved
    listed,    \* the copy that RunDueAutoFetch iterates over
    todo,      \* the profiles that were due and that it has yet to look at
    say,       \* the state that each goroutine is about to write to status.json
    moved,     \* history: profiles that got another schedule during its fetch
    requests

vars == <<file, store, status, results, mu, pc, cfg, name, resume, listed, todo, say,
          moved, requests>>

Loop == "loop"
Thread == Web \cup {Loop}

\* `next`: is NextAutoFetchAt after now, or is it past, empty or unreadable?
Entry == [settings : Setting, auto : {"off", "on", "broken"}, next : {"later", "due"},
          fetched : Setting \cup {None}]
StoreConfig ==
    [active : Profile, profiles : UNION {[names -> Entry] : names \in SUBSET Profile}]

\* A new profile, and what Go finds in the map for a name that is not there.
Fresh == [settings |-> NoKey, auto |-> "off", next |-> "due", fetched |-> None]
NewStore == [active |-> Default, profiles |-> [p \in {Default} |-> Fresh]]

\* A result file is the archive of a setting's query or the copy of a profile.
\* "open": emptied and being written.  "failed": the last write of it failed or
\* was cut short; there may be no file, part of one, or what was there before.
ResultFile == Setting \cup Profile
FileState == {"absent", "open", "whole", "failed"}

State == {"idle", "running", "error"}

PC == {"idle", "save", "write", "show", "showing", "lock", "refused", "check", "search",
       "archive", "copy", "saved", "leave", "next", "record"}

Resume == {"idle", "lock", "check", "search", "saved", "leave", "next", "record"}

TypeOK ==
    /\ file \in {"absent", "empty", "mixed", "whole"}
    /\ store \in StoreConfig
    /\ status \in State \cup {"absent", "empty", "mixed"}
    /\ results \in [ResultFile -> FileState]
    /\ mu \in Thread \cup {None}
    /\ pc \in [Thread -> PC]
    /\ cfg \in [Thread -> StoreConfig]
    /\ name \in [Thread -> Profile]
    /\ resume \in [Thread -> Resume]
    /\ listed \in StoreConfig
    /\ todo \subseteq Profile
    /\ say \in [Thread -> State]
    /\ moved \in [Thread -> SUBSET Profile]
    /\ requests \in 0 .. MaxRequests

\* A new installation, or one profile whose schedule was edited by hand.
Init ==
    /\ \/ file = "absent" /\ store = NewStore
       \/ file = "whole" /\ store = [NewStore EXCEPT !.profiles[Default].auto = "broken"]
    /\ status = "absent" /\ mu = None
    /\ results = [f \in ResultFile |-> "absent"]
    /\ pc = [t \in Thread |-> "idle"]
    /\ cfg = [t \in Thread |-> NewStore]
    /\ name = [t \in Thread |-> Default]
    /\ resume = [t \in Thread |-> "idle"]
    /\ listed = NewStore /\ todo = {}
    /\ say = [t \in Thread |-> "idle"]
    /\ moved = [t \in Thread |-> {}]
    /\ requests = 0

\* What Manager.Config returns, one of these; nothing: an error.
Config ==
    CASE file = "absent" -> {NewStore}
      [] file = "whole" -> IF store.active \in DOMAIN store.profiles THEN {store}
                           ELSE {[store EXCEPT !.active = p] : p \in DOMAIN store.profiles}
      [] OTHER -> {}

EntryOf(c, p) == IF p \in DOMAIN c.profiles THEN c.profiles[p] ELSE Fresh
Put(c, p, e) ==
    [c EXCEPT !.profiles = [q \in DOMAIN c.profiles \cup {p} |->
                               IF q = p THEN e ELSE c.profiles[q]]]

Goto(t, l) == pc' = [pc EXCEPT ![t] = l]
Request == requests < MaxRequests /\ requests' = requests + 1
\* The local copy of t is out of scope.
Forget(t) == cfg' = [cfg EXCEPT ![t] = NewStore]

\* A profile's schedule in a configuration, and where two configurations differ.
Schedule(c, p) == IF p \in DOMAIN c.profiles THEN c.profiles[p].auto ELSE "no profile"
Rescheduling(c, d) == {p \in Profile : Schedule(c, p) # Schedule(d, p)}

\* Between reading the configuration and saving it with the result of the search.
Fetching(t) ==
    \/ pc[t] \in {"search", "archive", "copy"}
    \/ pc[t] \in {"show", "showing"} /\ resume[t] = "search"
    \/ pc[t] \in {"save", "write"} /\ resume[t] = "saved"

(***************************************************************************)
(* SaveConfig and setStatus: both files are emptied and then written.      *)
(***************************************************************************)
Saving(t, c, then) ==
    /\ Goto(t, "save")
    /\ cfg' = [cfg EXCEPT ![t] = c]
    /\ resume' = [resume EXCEPT ![t] = then]

Truncate(t) ==
    /\ pc[t] = "save" /\ Goto(t, "write")
    /\ file' = "empty"
    /\ UNCHANGED <<store, status, results, mu, cfg, name, resume, listed, todo, say, moved,
                   requests>>

\* If somebody else wrote since the file was emptied, the end of a longer text stays.
Write(t) ==
    /\ pc[t] = "write" /\ Goto(t, resume[t]) /\ Forget(t)
    /\ \/ file' = "whole" /\ store' = cfg[t]
       \/ file # "empty" /\ file' = "mixed" /\ store' = store
    /\ moved' = [u \in Thread |-> IF u # t /\ Fetching(u)
                                  THEN moved[u] \cup Rescheduling(store, store') ELSE {}]
    /\ UNCHANGED <<status, results, mu, name, resume, listed, todo, say, requests>>

\* A full disk.  Handlers report it, fetches and the loop do not care.
WriteFails(t) ==
    /\ pc[t] = "write" /\ Goto(t, resume[t]) /\ Forget(t)
    /\ moved' = [moved EXCEPT ![t] = {}]
    /\ UNCHANGED <<file, store, status, results, mu, name, resume, listed, todo, say, requests>>

Showing(t, s, then) ==
    /\ Goto(t, "show")
    /\ say' = [say EXCEPT ![t] = s]
    /\ resume' = [resume EXCEPT ![t] = then]

ShowTruncates(t) ==
    /\ pc[t] = "show" /\ Goto(t, "showing")
    /\ status' = "empty"
    /\ UNCHANGED <<file, store, results, mu, cfg, name, resume, listed, todo, say, moved, requests>>

\* Several goroutines may write it at once, as with the configuration.
Show(t) ==
    /\ pc[t] = "showing" /\ Goto(t, resume[t])
    /\ status' \in {say[t]} \cup (IF status = "empty" THEN {} ELSE {"mixed"})
    /\ say' = [say EXCEPT ![t] = "idle"]
    /\ UNCHANGED <<file, store, results, mu, cfg, name, resume, listed, todo, moved, requests>>

\* The file is not opened, or not written.  Only ensure minds.
ShowFails(t) ==
    /\ pc[t] \in {"show", "showing"}
    /\ Goto(t, IF resume[t] = "check" THEN "leave" ELSE resume[t])
    /\ say' = [say EXCEPT ![t] = "idle"]
    /\ UNCHANGED <<file, store, status, results, mu, cfg, name, resume, listed, todo, moved,
                   requests>>

(***************************************************************************)
(* What users do.  Each handler reads, changes its copy and saves it.       *)
(***************************************************************************)
Edit(w, c) ==
    /\ pc[w] = "idle" /\ Request
    /\ Saving(w, c, "idle")
    /\ UNCHANGED <<file, store, status, results, mu, name, listed, todo, say, moved>>

\* UpdateActive and ToggleDownload
SaveSettings(w) == \E c \in Config, s \in Setting :
    Edit(w, Put(c, c.active, [EntryOf(c, c.active) EXCEPT !.settings = s]))

UpdateActiveSchedule(w) == \E c \in Config, on \in BOOLEAN :
    Edit(w, Put(c, c.active, [EntryOf(c, c.active) EXCEPT
                                 !.auto = IF on THEN "on" ELSE "off",
                                 !.next = IF on THEN "later" ELSE "due"]))

SwitchProfile(w) == \E c \in Config : \E p \in DOMAIN c.profiles :
    Edit(w, [c EXCEPT !.active = p])

NewProfile(w) == \E c \in Config : \E p \in Profile \ DOMAIN c.profiles :
    Edit(w, [Put(c, p, Fresh) EXCEPT !.active = p])

\* Some profile that is left becomes the active one.
NextActiveForgotten(c) == {c.active}
NextActive(c) == DOMAIN c.profiles \ {c.active}

DeleteActive(w) == \E c \in Config :
    /\ Cardinality(DOMAIN c.profiles) > 1
    /\ \E p \in NextActive(c) :
          Edit(w, [active |-> p,
                   profiles |-> [q \in DOMAIN c.profiles \ {c.active} |-> c.profiles[q]]])

\* FetchAsync and Fetch
StartFetch(w) ==
    /\ pc[w] = "idle" /\ Request /\ Goto(w, "lock")
    /\ \E c \in Config : name' = [name EXCEPT ![w] = c.active]
    /\ UNCHANGED <<file, store, status, results, mu, cfg, resume, listed, todo, say, moved>>

\* A look at the panel creates the status file (Active, ensure).
FirstLook(w) ==
    /\ pc[w] = "idle" /\ Request
    /\ Config # {} /\ status = "absent"
    /\ Showing(w, "idle", "idle")
    /\ UNCHANGED <<file, store, status, results, mu, cfg, name, listed, todo, moved>>

(***************************************************************************)
(* FetchProfile, for a user or for the loop.                               *)
(***************************************************************************)
AfterFetch(t) == IF t = Loop THEN "record" ELSE "idle"

TryLock(t) ==
    /\ pc[t] = "lock"
    /\ IF mu = None THEN mu' = t /\ Goto(t, "check")
                    ELSE mu' = mu /\ Goto(t, "refused")
    /\ UNCHANGED <<file, store, status, results, cfg, name, resume, listed, todo, say, moved,
                   requests>>

\* Another fetch is running, says the status; to the caller this is success.
RefusedStatusUnknown == "refused"
RefusedStatus == "running"

Refused(t) ==
    /\ pc[t] = "refused"
    /\ Showing(t, RefusedStatus, AfterFetch(t))
    /\ UNCHANGED <<file, store, status, results, mu, cfg, name, listed, todo, moved, requests>>

UnlockForgotten == mu
Unlocked == None

Leave(t) ==
    /\ pc[t] = "leave" /\ Goto(t, AfterFetch(t))
    /\ mu' = Unlocked
    /\ UNCHANGED <<file, store, status, results, cfg, name, resume, listed, todo, say, moved,
                   requests>>

\* ensure, which a fetch calls first as well.
Ensure(t) ==
    /\ pc[t] = "check" /\ status = "absent" /\ Config # {}
    /\ Showing(t, "idle", "check")
    /\ UNCHANGED <<file, store, status, results, mu, cfg, name, listed, todo, moved, requests>>

\* The file cannot be read, or the profile is gone.
NoProfile(t) ==
    /\ pc[t] = "check" /\ Goto(t, "leave")
    /\ Config = {} \/ status # "absent"
    /\ \A c \in Config : name[t] \notin DOMAIN c.profiles
    /\ UNCHANGED <<file, store, status, results, mu, cfg, name, resume, listed, todo, say, moved,
                   requests>>

NoQuery(t) ==
    /\ pc[t] = "check" /\ status # "absent"
    /\ \E c \in Config : /\ name[t] \in DOMAIN c.profiles
                         /\ c.profiles[name[t]].settings = NoKey
    /\ Showing(t, "error", "leave")
    /\ UNCHANGED <<file, store, status, results, mu, cfg, name, listed, todo, moved, requests>>

\* The configuration is read, and the status file says that a search runs.
StartsSearchOfTick(t) == IF t = Loop THEN {listed} ELSE Config
StartsSearch(t) == Config

Search(t) ==
    /\ pc[t] = "check" /\ status # "absent"
    /\ \E c \in StartsSearch(t) : /\ name[t] \in DOMAIN c.profiles
                                  /\ c.profiles[name[t]].settings # NoKey
                                  /\ cfg' = [cfg EXCEPT ![t] = c]
    /\ Showing(t, "running", "search")
    /\ UNCHANGED <<file, store, status, results, mu, name, listed, todo, moved, requests>>

\* Shodan answers with an error.
SearchFails(t) ==
    /\ pc[t] = "search" /\ Showing(t, "error", "leave") /\ Forget(t)
    /\ moved' = [moved EXCEPT ![t] = {}]
    /\ UNCHANGED <<file, store, status, results, mu, name, listed, todo, requests>>

Query(t) == cfg[t].profiles[name[t]].settings
CopyOfActive(t) == cfg[t].active
Copy(t) == name[t]
Keeps(f, s) == results' = [results EXCEPT ![f] = s]

\* The archive of the query is opened, and emptied with that.
SearchSucceeds(t) ==
    /\ pc[t] = "search" /\ Goto(t, "archive")
    /\ Keeps(Query(t), "open")
    /\ UNCHANGED <<file, store, status, mu, cfg, name, resume, listed, todo, say, moved, requests>>

\* It cannot be opened or written: the fetch has failed.
ArchiveFails(t) ==
    /\ pc[t] = "archive" /\ Showing(t, "error", "leave") /\ Forget(t)
    /\ Keeps(Query(t), "failed")
    /\ moved' = [moved EXCEPT ![t] = {}]
    /\ UNCHANGED <<file, store, status, mu, name, listed, todo, requests>>

\* It is written, and the copy of the profile is opened.
Archived(t) ==
    /\ pc[t] = "archive" /\ Goto(t, "copy")
    /\ results' = [results EXCEPT ![Query(t)] = "whole", ![Copy(t)] = "open"]
    /\ UNCHANGED <<file, store, status, mu, cfg, name, resume, listed, todo, say, moved, requests>>

\* Whether the copy could be written or not, the configuration of before the search
\* is saved, and names the copy as the last result.
Copied(t) ==
    /\ pc[t] = "copy"
    /\ \E s \in {"whole", "failed"} : Keeps(Copy(t), s)
    /\ LET e == cfg[t].profiles[name[t]]
       IN  Saving(t, Put(cfg[t], name[t], [e EXCEPT !.fetched = e.settings]), "saved")
    /\ UNCHANGED <<file, store, status, mu, name, listed, todo, say, moved, requests>>

FetchEnds(t) ==
    /\ pc[t] = "saved" /\ Showing(t, "idle", "leave")
    /\ UNCHANGED <<file, store, status, results, mu, cfg, name, listed, todo, moved, requests>>

(***************************************************************************)
(* AutoFetchLoop and RunDueAutoFetch.                                      *)
(***************************************************************************)
Due(e) == e.auto = "on" /\ e.next = "due"

Tick ==
    /\ pc[Loop] = "idle" /\ Goto(Loop, "next")
    /\ \E c \in Config :
          /\ listed' = c
          /\ todo' = {p \in DOMAIN c.profiles :
                        c.profiles[p].auto = "broken" \/ Due(c.profiles[p])}
    /\ UNCHANGED <<file, store, status, results, mu, cfg, name, resume, say, moved, requests>>

Looked(p) == pc[Loop] = "next" /\ p \in todo /\ todo' = todo \ {p}

\* The error is recorded in the copy of before the tick, and that is saved.
Complain(p) ==
    /\ Looked(p)
    /\ listed.profiles[p].auto = "broken"
    /\ Saving(Loop, listed, "next")
    /\ UNCHANGED <<file, store, status, results, mu, name, listed, say, moved, requests>>

\* A profile that was deleted in the meantime is created again.
Rescheduled(c, p) == Put(c, p, [EntryOf(c, p) EXCEPT !.next = "later"])

MarkDue(p) ==
    /\ Looked(p)
    /\ listed.profiles[p].auto # "broken"
    /\ name' = [name EXCEPT ![Loop] = p]
    /\ \/ \E c \in Config : Saving(Loop, Rescheduled(c, p), "lock")
       \/ Config = {} /\ Goto(Loop, "lock") /\ UNCHANGED <<cfg, resume>>
    /\ UNCHANGED <<file, store, status, results, mu, listed, say, moved, requests>>

RecordAutoFetch ==
    /\ pc[Loop] = "record"
    /\ \/ \E c \in Config : Saving(Loop, Rescheduled(c, name[Loop]), "next")
       \/ Config = {} /\ Goto(Loop, "next") /\ UNCHANGED <<cfg, resume>>
    /\ UNCHANGED <<file, store, status, results, mu, name, listed, todo, say, moved, requests>>

TickEnds ==
    /\ pc[Loop] = "next" /\ todo = {} /\ Goto(Loop, "idle")
    /\ listed' = NewStore
    /\ UNCHANGED <<file, store, status, results, mu, cfg, name, resume, todo, say, moved, requests>>

(***************************************************************************)
(* The world.                                                              *)
(***************************************************************************)
\* The clock reaches the NextAutoFetchAt of p, in all copies at once.
Waits(c, p) == p \in DOMAIN c.profiles /\ c.profiles[p].next = "later"
Aged(c, p) == IF Waits(c, p) THEN [c EXCEPT !.profiles[p].next = "due"] ELSE c

TimePasses(p) ==
    /\ Waits(store, p) \/ Waits(listed, p) \/ \E t \in Thread : Waits(cfg[t], p)
    /\ store' = Aged(store, p) /\ listed' = Aged(listed, p)
    /\ cfg' = [t \in Thread |-> Aged(cfg[t], p)]
    /\ UNCHANGED <<file, status, results, mu, pc, name, resume, todo, say, moved, requests>>

\* The files stay as they are, one that is being written too.
Restart ==
    /\ Request
    /\ results' = [f \in ResultFile |-> IF results[f] = "open" THEN "failed" ELSE results[f]]
    /\ mu' = None
    /\ pc' = [t \in Thread |-> "idle"]
    /\ cfg' = [t \in Thread |-> NewStore]
    /\ listed' = NewStore /\ todo' = {}
    /\ say' = [t \in Thread |-> "idle"]
    /\ moved' = [t \in Thread |-> {}]
    /\ UNCHANGED <<file, store, status, name, resume>>

UserStep(w) ==
    \/ SaveSettings(w) \/ UpdateActiveSchedule(w) \/ SwitchProfile(w)
    \/ NewProfile(w) \/ DeleteActive(w) \/ StartFetch(w) \/ FirstLook(w)
SaveStep(t) ==
    \/ Truncate(t) \/ Write(t) \/ WriteFails(t)
    \/ ShowTruncates(t) \/ Show(t) \/ ShowFails(t)
FetchStep(t) ==
    \/ TryLock(t) \/ Refused(t) \/ Ensure(t) \/ NoProfile(t) \/ NoQuery(t) \/ Search(t)
    \/ SearchFails(t) \/ SearchSucceeds(t) \/ ArchiveFails(t) \/ Archived(t) \/ Copied(t)
    \/ FetchEnds(t) \/ Leave(t)
AutoStep ==
    \/ Tick \/ TickEnds \/ RecordAutoFetch
    \/ \E p \in Profile : Complain(p) \/ MarkDue(p)

Next ==
    \/ \E w \in Web : UserStep(w)
    \/ \E t \in Thread : SaveStep(t) \/ FetchStep(t)
    \/ AutoStep
    \/ \E p \in Profile : TimePasses(p)
    \/ Restart

Spec == Init /\ [][Next]_vars

\* Goroutines run and searches time out; the clock goes on.
FairSpec ==
    /\ Spec
    /\ \A t \in Thread : WF_vars(SaveStep(t) \/ FetchStep(t))
    /\ WF_vars(AutoStep)
    /\ \A p \in Profile : SF_vars(TimePasses(p))

-----------------------------------------------------------------------------
(***************************************************************************)
(* What should hold.                                                       *)
(***************************************************************************)
\* config.json always has an active profile, whichever snapshots are written back
\* by whom: the panel shows one, and a fetch has one to begin with.
ActiveExists == store.active \in DOMAIN store.profiles

\* A profile that says it was fetched has its two files, the archive of the query
\* and its own copy: each is there, or the last write of that very file failed or
\* was cut short.  Also after a crash between the files and the configuration, and
\* after handlers and fetches put old snapshots of it back.
FetchedHasResults ==
    \A p \in DOMAIN store.profiles :
        store.profiles[p].fetched # None =>
            results[store.profiles[p].fetched] # "absent" /\ results[p] # "absent"

\* A fetch undoes only what was saved while it ran: it leaves every profile's
\* schedule alone, and every profile in or out of the configuration, unless somebody
\* changed just that since the fetch read the configuration.
FetchUndoesOnlyNews ==
    [][\A t \in Thread : Fetching(t) /\ pc[t] = "write" /\ pc'[t] = "saved" =>
          Rescheduling(store, store') \subseteq moved[t]]_vars

\* A profile whose schedule is on is fetched again and again, if users leave the
\* manager alone and config.json can be read.
Scheduled(p) == p \in DOMAIN store.profiles /\ store.profiles[p].auto = "on"
AutoFetches == \A p \in Profile :
    /\ <>[](\A w \in Web : pc[w] = "idle")
    /\ <>[](Scheduled(p) /\ file \in {"whole", "empty"})
    /\ []<>(file = "whole")
    => []<>(pc[Loop] = "check" /\ name[Loop] = p)

\* Each profile has a schedule of its own, which users turn on and off
\* (README.md:37): a fetch that succeeds leaves all of them as they are.  Violated:
\* it saves the configuration it read before the search, and with it every schedule,
\* setting and profile of that time.
FetchKeepsSchedules ==
    [][(\E t \in Thread : pc[t] = "write" /\ pc'[t] = "saved") =>
          \A p \in DOMAIN store.profiles \cap DOMAIN store'.profiles :
             store'.profiles[p].auto = store.profiles[p].auto]_vars

\* A profile that was fetched has its copy (README.md:150).  Violated: the error of
\* writing the copy is ignored, and the configuration names a file that is not there.
FetchedHasCopy ==
    \A p \in DOMAIN store.profiles : store.profiles[p].fetched # None => results[p] # "failed"

\* What the panel reads of status.json.
Shown == IF status \in State THEN status ELSE "idle"

\* While a fetch searches, the panel says so.  Violated: errors of writing the file
\* are ignored, and whoever is refused writes it as well, without a lock.
SearchIsShown == (\E t \in Thread : pc[t] = "search") => Shown = "running"

\* When nobody has the lock or is about to write, nothing is shown as running.
\* Violated: who was refused may write after the fetch in his way has ended, and a
\* process that stops in a search leaves the file as it is.
RunningIsFetching ==
    (\A t \in Thread : pc[t] \in {"idle", "next"}) => Shown # "running"

-----------------------------------------------------------------------------
(***************************************************************************)
(* What the proofs show inductive (ShodanManager_proofs).                  *)
(***************************************************************************)

\* The files that somebody has begun to write, once.
Begun == {f \in ResultFile : results[f] # "absent"}

\* What the entry e of profile p may say when the writing of the files r has begun.
Honest(e, p, r) == e.fetched # None => e.fetched \in r /\ p \in r

\* A configuration that may be written at that time.
Good(c, r) ==
    /\ c \in StoreConfig
    /\ c.active \in DOMAIN c.profiles
    /\ \A p \in DOMAIN c.profiles : Honest(c.profiles[p], p, r)

\* What goroutine t has is such a configuration, since any copy may be saved at any
\* time.  A fetch has the schedules of the file, but for those that were changed since
\* it read them.
Sound(t) ==
    /\ Good(cfg[t], Begun)
    /\ IF Fetching(t)
       THEN /\ name[t] \in DOMAIN cfg[t].profiles
            /\ Rescheduling(cfg[t], store) \subseteq moved[t]
       ELSE moved[t] = {}
    /\ pc[t] \in {"archive", "copy"} => Query(t) \in Begun
    /\ pc[t] = "copy" => Copy(t) \in Begun
    /\ pc[t] \in {"save", "write"} => resume[t] # "search"

CopiesInv ==
    /\ Good(store, Begun) /\ Good(listed, Begun)
    /\ file = "absent" => Rescheduling(NewStore, store) = {}
    /\ \A t \in Thread : Sound(t)

=============================================================================
