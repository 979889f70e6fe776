----------------------- MODULE ShodanManager_proofs -----------------------
(***************************************************************************)
(* Type correctness and safety of the Shodan manager, for any number of     *)
(* goroutines, profiles, settings and requests.                            *)
(*                                                                         *)
(* All operations save some copy of the configuration, so the argument is   *)
(* about copies: each way of changing one keeps it good (first part), and   *)
(* each step changes a copy in one of these ways (second part).            *)
(***************************************************************************)
EXTENDS ShodanManager, TLAPS

\* The parts of a configuration.
LEMMA StoreParts ==
  ASSUME NEW c \in StoreConfig
  PROVE  /\ c.active \in Profile
         /\ DOMAIN c.profiles \in SUBSET Profile
         /\ c.profiles \in [DOMAIN c.profiles -> Entry]
         /\ c = [active |-> c.active, profiles |-> c.profiles]
  BY DEF StoreConfig

\* A configuration from its parts.
LEMMA StoreOf ==
  ASSUME NEW a \in Profile, NEW S \in SUBSET Profile, NEW f \in [S -> Entry]
  PROVE  [active |-> a, profiles |-> f] \in StoreConfig
  BY DEF StoreConfig

\* The same for good ones.
LEMMA GoodOf ==
  ASSUME NEW r, NEW S \in SUBSET Profile, NEW a \in S, NEW f \in [S -> Entry],
         \A p \in S : Honest(f[p], p, r)
  PROVE  Good([active |-> a, profiles |-> f], r)
  <1>1. [active |-> a, profiles |-> f] \in StoreConfig BY StoreOf
  <1>2. DOMAIN f = S OBVIOUS
  <1> QED BY <1>1, <1>2 DEF Good

LEMMA FreshGood ==
  /\ Fresh \in Entry /\ Fresh.fetched = None
  /\ \A r : Good(NewStore, r)
  <1>1. Fresh \in Entry /\ Fresh.fetched = None
    BY SettingAssumption DEF Fresh, Entry
  <1>2. [p \in {Default} |-> Fresh] \in [{Default} -> Entry] BY <1>1
  <1>3. ASSUME NEW r PROVE Good(NewStore, r)
    <2>1. \A p \in {Default} : Honest(Fresh, p, r) BY <1>1 DEF Honest
    <2> QED BY <1>1, <1>2, <2>1, GoodOf, ProfileAssumption DEF NewStore
  <1> QED BY <1>1, <1>3

\* Results that are added spoil nothing.
LEMMA GoodStays ==
  ASSUME NEW c, NEW r, NEW s, Good(c, r), r \subseteq s PROVE Good(c, s)
  BY DEF Good, Honest

LEMMA EntryGood ==
  ASSUME NEW r, NEW c, Good(c, r), NEW p \in Profile
  PROVE  EntryOf(c, p) \in Entry /\ Honest(EntryOf(c, p), p, r)
  <1>1. CASE p \in DOMAIN c.profiles
    BY <1>1, StoreParts DEF Good, EntryOf
  <1>2. CASE p \notin DOMAIN c.profiles
    BY <1>2, FreshGood DEF EntryOf, Honest
  <1> QED BY <1>1, <1>2

LEMMA EntryChanged ==
  ASSUME NEW e \in Entry
  PROVE  /\ \A s \in Setting : /\ [e EXCEPT !.settings = s] \in Entry
                               /\ [e EXCEPT !.settings = s].fetched = e.fetched
                               /\ [e EXCEPT !.fetched = s] \in Entry
                               /\ [e EXCEPT !.fetched = s].fetched = s
         /\ \A n \in {"later", "due"} : /\ [e EXCEPT !.next = n] \in Entry
                                       /\ [e EXCEPT !.next = n].fetched = e.fetched
         /\ \A a \in {"off", "on"}, n \in {"later", "due"} :
               /\ [e EXCEPT !.auto = a, !.next = n] \in Entry
               /\ [e EXCEPT !.auto = a, !.next = n].fetched = e.fetched
  BY DEF Entry

\* Changing one profile, or adding one.
LEMMA PutGood ==
  ASSUME NEW r, NEW c, Good(c, r), NEW p \in Profile, NEW e \in Entry,
         Honest(e, p, r)
  PROVE  Good(Put(c, p, e), r) /\ p \in DOMAIN Put(c, p, e).profiles
  <1> DEFINE S == DOMAIN c.profiles \cup {p}
             f == [q \in S |-> IF q = p THEN e ELSE c.profiles[q]]
  <1>1. /\ c.active \in DOMAIN c.profiles
        /\ DOMAIN c.profiles \in SUBSET Profile
        /\ c.profiles \in [DOMAIN c.profiles -> Entry]
        /\ c = [active |-> c.active, profiles |-> c.profiles]
    BY StoreParts DEF Good
  <1>2. Put(c, p, e) = [active |-> c.active, profiles |-> f]
    BY <1>1 DEF Put
  <1>3. S \in SUBSET Profile /\ f \in [S -> Entry] BY <1>1
  <1>4. \A q \in S : Honest(f[q], q, r) BY DEF Good
  <1>5. c.active \in S /\ DOMAIN f = S BY <1>1
  <1>6. Good([active |-> c.active, profiles |-> f], r)
    <2> HIDE DEF f
    <2> QED BY <1>3, <1>4, <1>5, GoodOf
  <1> QED BY <1>2, <1>5, <1>6

\* Choosing the active profile.
LEMMA SwitchGood ==
  ASSUME NEW r, NEW c, Good(c, r), NEW p \in DOMAIN c.profiles
  PROVE  Good([c EXCEPT !.active = p], r)
  <1>1. /\ DOMAIN c.profiles \in SUBSET Profile
        /\ c.profiles \in [DOMAIN c.profiles -> Entry]
        /\ c = [active |-> c.active, profiles |-> c.profiles]
    BY StoreParts DEF Good
  <1>2. [c EXCEPT !.active = p] = [active |-> p, profiles |-> c.profiles] BY <1>1
  <1> QED BY <1>1, <1>2, GoodOf DEF Good

\* Taking one profile away.
LEMMA DeleteGood ==
  ASSUME NEW r, NEW c, Good(c, r), NEW p \in NextActive(c)
  PROVE  Good([active |-> p,
               profiles |-> [q \in DOMAIN c.profiles \ {c.active} |-> c.profiles[q]]], r)
  <1> DEFINE S == DOMAIN c.profiles \ {c.active}
             f == [q \in S |-> c.profiles[q]]
  <1>1. /\ DOMAIN c.profiles \in SUBSET Profile
        /\ c.profiles \in [DOMAIN c.profiles -> Entry]
    BY StoreParts DEF Good
  <1>2. S \in SUBSET Profile /\ f \in [S -> Entry] BY <1>1
  <1>3. \A q \in S : Honest(f[q], q, r) BY DEF Good
  <1>4. p \in S BY DEF NextActive
  <1> HIDE DEF f
  <1>5. Good([active |-> p, profiles |-> f], r) BY <1>2, <1>3, <1>4, GoodOf
  <1> QED BY <1>5 DEF f

\* The clock.
LEMMA AgedGood ==
  ASSUME NEW r, NEW c, Good(c, r), NEW p
  PROVE  Good(Aged(c, p), r) /\ DOMAIN Aged(c, p).profiles = DOMAIN c.profiles
  <1>1. CASE ~ Waits(c, p) BY <1>1 DEF Aged
  <1>2. CASE Waits(c, p)
    <2> DEFINE e == [c.profiles[p] EXCEPT !.next = "due"]
               f == [c.profiles EXCEPT ![p] = e]
    <2>1. /\ c.active \in DOMAIN c.profiles
          /\ DOMAIN c.profiles \in SUBSET Profile
          /\ c.profiles \in [DOMAIN c.profiles -> Entry]
          /\ c = [active |-> c.active, profiles |-> c.profiles]
      BY StoreParts DEF Good
    <2>2. p \in DOMAIN c.profiles BY <1>2 DEF Waits
    <2>3. c.profiles[p] \in Entry BY <2>1, <2>2
    <2>4. e \in Entry /\ e.fetched = c.profiles[p].fetched BY <2>3 DEF Entry
    <2>5. f \in [DOMAIN c.profiles -> Entry] BY <2>1, <2>4
    <2>6. \A q \in DOMAIN c.profiles : Honest(f[q], q, r)
      <3> SUFFICES ASSUME NEW q \in DOMAIN c.profiles
                   PROVE  Honest(f[q], q, r) OBVIOUS
      <3>1. Honest(c.profiles[q], q, r) BY DEF Good
      <3>2. CASE q = p BY <2>1, <2>4, <3>1, <3>2 DEF Honest
      <3>3. CASE q # p BY <2>1, <3>1, <3>3
      <3> QED BY <3>2, <3>3
    <2>7. Aged(c, p) = [active |-> c.active, profiles |-> f] BY <1>2, <2>1 DEF Aged
    <2>8. DOMAIN f = DOMAIN c.profiles OBVIOUS
    <2> HIDE DEF f
    <2>9. Good([active |-> c.active, profiles |-> f], r) BY <2>1, <2>5, <2>6, GoodOf
    <2> QED BY <2>7, <2>8, <2>9
  <1> QED BY <1>1, <1>2

\* Reading the file gives a good configuration.
LEMMA ConfigGood ==
  ASSUME CopiesInv, NEW c \in Config PROVE Good(c, Begun)
  BY FreshGood DEF Config, CopiesInv, Good

-----------------------------------------------------------------------------
(***************************************************************************)
(* Schedules in configurations.                                            *)
(***************************************************************************)

\* Three configurations: where the first and the last differ.
LEMMA Differences ==
  ASSUME NEW c, NEW d, NEW e
  PROVE  /\ Rescheduling(c, e) \subseteq Rescheduling(c, d) \cup Rescheduling(d, e)
         /\ Rescheduling(c, d) = Rescheduling(d, c)
         /\ Rescheduling(c, c) = {}
  BY DEF Rescheduling

\* The clock turns no schedule on or off.
LEMMA AgedSchedules ==
  ASSUME NEW c \in StoreConfig, NEW p PROVE \A q : Schedule(Aged(c, p), q) = Schedule(c, q)
  <1>1. CASE ~ Waits(c, p) BY <1>1 DEF Aged
  <1>2. CASE Waits(c, p)
    <2> DEFINE e == [c.profiles[p] EXCEPT !.next = "due"]
               f == [c.profiles EXCEPT ![p] = e]
    <2>1. /\ c.profiles \in [DOMAIN c.profiles -> Entry]
          /\ c = [active |-> c.active, profiles |-> c.profiles]
      BY StoreParts
    <2>2. p \in DOMAIN c.profiles BY <1>2 DEF Waits
    <2>3. c.profiles[p] \in Entry BY <2>1, <2>2
    <2>4. e.auto = c.profiles[p].auto BY <2>3 DEF Entry
    <2>5. /\ DOMAIN f = DOMAIN c.profiles
          /\ \A q \in DOMAIN c.profiles : f[q].auto = c.profiles[q].auto
      BY <2>4
    <2>6. Aged(c, p).profiles = f BY <1>2, <2>1 DEF Aged
    <2> QED BY <2>5, <2>6 DEF Schedule
  <1> QED BY <1>1, <1>2

\* Nor does the record of a fetch.
LEMMA FetchedSchedules ==
  ASSUME NEW c \in StoreConfig, NEW p \in DOMAIN c.profiles, NEW s, NEW d
  PROVE  Rescheduling(Put(c, p, [c.profiles[p] EXCEPT !.fetched = s]), d) = Rescheduling(c, d)
  <1> DEFINE e == [c.profiles[p] EXCEPT !.fetched = s]
             f == [q \in DOMAIN c.profiles \cup {p} |->
                      IF q = p THEN e ELSE c.profiles[q]]
  <1>1. /\ c.profiles \in [DOMAIN c.profiles -> Entry]
        /\ c = [active |-> c.active, profiles |-> c.profiles]
    BY StoreParts
  <1>2. c.profiles[p] \in Entry BY <1>1
  <1>3. e.auto = c.profiles[p].auto BY <1>2 DEF Entry
  <1>4. /\ DOMAIN f = DOMAIN c.profiles
        /\ \A q \in DOMAIN c.profiles : f[q].auto = c.profiles[q].auto
    BY <1>3
  <1>5. Put(c, p, e).profiles = f BY <1>1 DEF Put
  <1>6. \A q : Schedule(Put(c, p, e), q) = Schedule(c, q) BY <1>4, <1>5 DEF Schedule
  <1> QED BY <1>6 DEF Rescheduling

\* What a fetch reads.
LEMMA ConfigSchedules ==
  ASSUME CopiesInv, NEW c \in Config PROVE Rescheduling(c, store) = {}
  <1>1. CASE file = "absent" BY <1>1 DEF Config, CopiesInv
  <1>2. CASE file = "whole"
    <2>1. store \in StoreConfig BY DEF CopiesInv, Good
    <2>2. store = [active |-> store.active, profiles |-> store.profiles]
      BY <2>1, StoreParts
    <2>3. c.profiles = store.profiles BY <1>2, <2>2 DEF Config
    <2> QED BY <2>3 DEF Rescheduling, Schedule
  <1> QED BY <1>1, <1>2 DEF Config

-----------------------------------------------------------------------------
(***************************************************************************)
(* What a step of goroutine t does to the copies: `Reads`, nothing to the   *)
(* file, and what it has itself is sound again; or `Writes` its copy.       *)
(***************************************************************************)

\* The parts of TypeOK that are not about copies.
Plain ==
    /\ file \in {"absent", "empty", "mixed", "whole"}
    /\ status \in State \cup {"absent", "empty", "mixed"}
    /\ results \in [ResultFile -> FileState]
    /\ mu \in Thread \cup {None}
    /\ pc \in [Thread -> PC]
    /\ DOMAIN cfg = Thread /\ cfg = [t \in Thread |-> cfg[t]]
    /\ name \in [Thread -> Profile]
    /\ resume \in [Thread -> Resume]
    /\ todo \subseteq Profile
    /\ say \in [Thread -> State]
    /\ moved \in [Thread -> SUBSET Profile]
    /\ requests \in 0 .. MaxRequests

LEMMA TypeFromParts == Plain /\ CopiesInv => TypeOK
  BY DEF Plain, CopiesInv, Sound, Good, TypeOK

LEMMA Threads == Loop \in Thread /\ Web \subseteq Thread /\ None \notin Thread
  <1>1. Loop \in Thread /\ Web \subseteq Thread BY DEF Thread
  <1>2. None \notin Web /\ None # Loop BY NoneAssumption DEF Loop
  <1>3. \A t \in Thread : t \in Web \/ t = Loop BY DEF Thread
  <1> QED BY <1>1, <1>2, <1>3

Others(t) == \A u \in Thread \ {t} :
    pc'[u] = pc[u] /\ name'[u] = name[u] /\ cfg'[u] = cfg[u] /\ resume'[u] = resume[u]

Reads(t) ==
    /\ Others(t) /\ \A u \in Thread \ {t} : moved'[u] = moved[u]
    /\ store' = store /\ Good(listed', Begun') /\ Begun \subseteq Begun'
    /\ file' = "absent" => file = "absent"
    /\ ~ (pc[t] = "write" /\ pc'[t] = "saved")
    /\ Sound(t)'

Writes(t) ==
    /\ Others(t)
    /\ pc[t] = "write" /\ pc'[t] \notin {"save", "write"}
    /\ ~ Fetching(t)' /\ cfg'[t] = NewStore /\ moved'[t] = {}
    /\ \A u \in Thread \ {t} :
          \/ store' = store /\ moved'[u] = moved[u]
          \/ moved'[u] = IF Fetching(u) THEN moved[u] \cup Rescheduling(store, store') ELSE {}
    /\ store' \in {store, cfg[t]} /\ listed' = listed /\ results' = results
    /\ file' = "absent" => file = "absent" /\ store' = store

\* What FetchUndoesOnlyNews says of a step.
SavesOnlyNews ==
    \A t \in Thread : Fetching(t) /\ pc[t] = "write" /\ pc'[t] = "saved" =>
        Rescheduling(store, store') \subseteq moved[t]

LEMMA ReadsStep ==
  ASSUME CopiesInv, NEW t \in Thread, Reads(t) PROVE CopiesInv' /\ SavesOnlyNews
  <1>1. Good(store', Begun') BY GoodStays DEF Reads, CopiesInv
  <1>2. ASSUME NEW u \in Thread PROVE Sound(u)'
    <2>1. CASE u = t BY <2>1 DEF Reads
    <2>2. CASE u # t
      <3>1. /\ pc'[u] = pc[u] /\ name'[u] = name[u] /\ cfg'[u] = cfg[u]
            /\ resume'[u] = resume[u] /\ moved'[u] = moved[u] /\ store' = store
            /\ Begun \subseteq Begun'
        BY <2>2 DEF Reads, Others
      <3>2. Sound(u) BY DEF CopiesInv
      <3>3. Good(cfg'[u], Begun') BY <3>1, <3>2, GoodStays DEF Sound
      <3>4. (Fetching(u)' <=> Fetching(u)) /\ Query(u)' = Query(u) /\ Copy(u)' = Copy(u)
        BY <3>1 DEF Fetching, Query, Copy
      <3> QED BY <3>1, <3>2, <3>3, <3>4 DEF Sound
    <2> QED BY <2>1, <2>2
  <1>3. file' = "absent" => Rescheduling(NewStore, store') = {} BY DEF Reads, CopiesInv
  <1>4. SavesOnlyNews
    <2> SUFFICES ASSUME NEW u \in Thread, pc[u] = "write", pc'[u] = "saved" PROVE FALSE
      BY DEF SavesOnlyNews
    <2> QED BY DEF Reads, Others
  <1> QED BY <1>1, <1>2, <1>3, <1>4 DEF Reads, CopiesInv

LEMMA WritesStep ==
  ASSUME CopiesInv, NEW t \in Thread, Writes(t) PROVE CopiesInv' /\ SavesOnlyNews
  <1>1. Begun' = Begun BY DEF Writes, Begun
  <1>2. Good(store', Begun') BY <1>1 DEF Writes, CopiesInv, Sound
  <1>3. Good(listed', Begun') BY <1>1 DEF Writes, CopiesInv
  <1>4. file' = "absent" => Rescheduling(NewStore, store') = {} BY DEF Writes, CopiesInv
  <1>5. ASSUME NEW u \in Thread PROVE Sound(u)'
    <2>1. CASE u = t
      <3>1. /\ Good(cfg'[u], Begun') /\ ~ Fetching(u)' /\ moved'[u] = {}
            /\ pc'[u] \notin {"save", "write"}
        BY <2>1, FreshGood DEF Writes
      <3> QED BY <3>1 DEF Sound, Fetching
    <2>2. CASE u # t
      <3>1. /\ pc'[u] = pc[u] /\ name'[u] = name[u] /\ cfg'[u] = cfg[u]
            /\ resume'[u] = resume[u]
        BY <2>2 DEF Writes, Others
      <3>2. Sound(u) BY DEF CopiesInv
      <3>3. (Fetching(u)' <=> Fetching(u)) /\ Query(u)' = Query(u) /\ Copy(u)' = Copy(u)
        BY <3>1 DEF Fetching, Query, Copy
      <3>4. CASE Fetching(u)
        <4>1. Rescheduling(cfg[u], store) \subseteq moved[u] BY <3>2, <3>4 DEF Sound
        <4>2. Rescheduling(cfg[u], store') \subseteq moved'[u]
          <5>1. Rescheduling(cfg[u], store')
                   \subseteq Rescheduling(cfg[u], store) \cup Rescheduling(store, store')
            BY Differences
          <5> QED BY <2>2, <3>4, <4>1, <5>1 DEF Writes
        <4> QED BY <1>1, <3>1, <3>2, <3>3, <3>4, <4>2 DEF Sound
      <3>5. CASE ~ Fetching(u)
        <4>1. moved'[u] = {} BY <2>2, <3>2, <3>5 DEF Writes, Sound
        <4> QED BY <1>1, <3>1, <3>2, <3>3, <3>5, <4>1 DEF Sound
      <3> QED BY <3>4, <3>5
    <2> QED BY <2>1, <2>2
  <1>6. SavesOnlyNews
    <2> SUFFICES ASSUME NEW u \in Thread, Fetching(u), pc[u] = "write", pc'[u] = "saved"
                 PROVE  Rescheduling(store, store') \subseteq moved[u]
      BY DEF SavesOnlyNews
    <2>1. u = t BY DEF Writes, Others
    <2>2. Rescheduling(cfg[t], store) \subseteq moved[t] BY <2>1 DEF CopiesInv, Sound
    <2>3. Rescheduling(store, cfg[t]) \subseteq moved[t] BY <2>2, Differences
    <2>4. Rescheduling(store, store) = {} BY Differences
    <2> QED BY <2>1, <2>3, <2>4 DEF Writes
  <1> QED BY <1>2, <1>3, <1>4, <1>5, <1>6 DEF CopiesInv

\* Three ways to read: the step keeps all copies, saves one, or writes the status.
LEMMA GoesReads ==
  ASSUME Plain, CopiesInv, NEW t \in Thread, NEW l \in PC, Goto(t, l), ~ Fetching(t),
         l \notin {"search", "archive", "copy", "save", "write", "show", "showing"},
         \A u \in Thread \ {t} : name'[u] = name[u],
         UNCHANGED <<file, store, results, cfg, resume, listed, moved>>, pc[t] # "write"
  PROVE  Reads(t)
  <1>1. /\ pc'[t] = l /\ \A u \in Thread \ {t} : pc'[u] = pc[u]
    BY DEF Goto, Plain
  <1>2. Begun' = Begun BY DEF Begun
  <1>3. Good(listed', Begun') /\ Good(cfg'[t], Begun') /\ moved'[t] = {}
    BY <1>2 DEF CopiesInv, Sound
  <1>4. ~ Fetching(t)' BY <1>1 DEF Fetching
  <1>5. Sound(t)' BY <1>1, <1>3, <1>4 DEF Sound
  <1> QED BY <1>1, <1>2, <1>3, <1>5 DEF Reads, Others

LEMMA SavingReads ==
  ASSUME Plain, CopiesInv, NEW t \in Thread, NEW c, Good(c, Begun), NEW then \in Resume,
         then \notin {"saved", "search"}, Saving(t, c, then), ~ Fetching(t), pc[t] # "write",
         \A u \in Thread \ {t} : name'[u] = name[u],
         UNCHANGED <<file, store, results, listed, moved>>
  PROVE  Reads(t)
  <1>1. /\ pc'[t] = "save" /\ cfg'[t] = c /\ resume'[t] = then
        /\ \A u \in Thread \ {t} : pc'[u] = pc[u] /\ cfg'[u] = cfg[u] /\ resume'[u] = resume[u]
    BY DEF Saving, Goto, Plain
  <1>2. Begun' = Begun BY DEF Begun
  <1>3. Good(listed', Begun') /\ Good(cfg'[t], Begun') /\ moved'[t] = {}
    BY <1>1, <1>2 DEF CopiesInv, Sound
  <1>4. ~ Fetching(t)' BY <1>1 DEF Fetching
  <1>5. Sound(t)' BY <1>1, <1>3, <1>4 DEF Sound
  <1> QED BY <1>1, <1>2, <1>3, <1>5 DEF Reads, Others

LEMMA ShowingReads ==
  ASSUME Plain, CopiesInv, NEW t \in Thread, NEW s, NEW then \in Resume, then # "search",
         Showing(t, s, then), pc[t] # "write", moved'[t] = {}, Good(cfg'[t], Begun'),
         \A u \in Thread \ {t} : cfg'[u] = cfg[u] /\ moved'[u] = moved[u],
         Begun \subseteq Begun', UNCHANGED <<file, store, name, listed>>
  PROVE  Reads(t)
  <1>1. /\ pc'[t] = "show" /\ resume'[t] = then
        /\ \A u \in Thread \ {t} : pc'[u] = pc[u] /\ resume'[u] = resume[u]
    BY DEF Showing, Goto, Plain
  <1>2. Good(listed', Begun') BY GoodStays DEF CopiesInv
  <1>3. ~ Fetching(t)' BY <1>1 DEF Fetching
  <1>4. Sound(t)' BY <1>1, <1>3 DEF Sound
  <1> QED BY <1>1, <1>2, <1>4 DEF Reads, Others

\* A step between two stages of one thing: of a save, or of writing the status.
LEMMA StageReads ==
  ASSUME Plain, CopiesInv, NEW t \in Thread, NEW l \in PC, Goto(t, l),
         l \notin {"archive", "copy"}, pc[t] # "write", file' = "absent" => file = "absent",
         l \in {"save", "write"} => pc[t] \in {"save", "write"},
         Fetching(t)' <=> Fetching(t),
         UNCHANGED <<store, results, cfg, name, resume, listed, moved>>
  PROVE  Reads(t)
  <1>1. pc'[t] = l /\ \A u \in Thread \ {t} : pc'[u] = pc[u] BY DEF Goto, Plain
  <1>2. Begun' = Begun BY DEF Begun
  <1>3. Good(listed', Begun') BY <1>2 DEF CopiesInv
  <1>4. Sound(t)' BY <1>1, <1>2 DEF CopiesInv, Sound
  <1> QED BY <1>1, <1>2, <1>3, <1>4 DEF Reads, Others

-----------------------------------------------------------------------------
(***************************************************************************)
(* The steps of users.                                                     *)
(***************************************************************************)
LEMMA EditStep ==
  ASSUME Plain, CopiesInv, NEW w \in Web, NEW c, Good(c, Begun), Edit(w, c)
  PROVE  Plain' /\ Reads(w)
  <1>0. w \in Thread BY Threads
  <1>1. requests' \in 0 .. MaxRequests
    BY RequestsAssumption DEF Edit, Request, Plain
  <1>2. /\ Saving(w, c, "idle") /\ pc[w] = "idle"
        /\ UNCHANGED <<file, store, status, results, mu, name, listed, todo, say, moved>>
    BY DEF Edit
  <1>3. Plain' BY <1>0, <1>1, <1>2 DEF Saving, Goto, Plain, PC, Resume
  <1>4. ~ Fetching(w) BY <1>2 DEF Fetching
  <1>5. Reads(w)
    <2>1. "idle" \in Resume /\ "idle" \notin {"saved", "search"} BY DEF Resume
    <2> QED BY <1>0, <1>2, <1>4, <2>1, SavingReads
  <1> QED BY <1>3, <1>5

LEMMA UserSteps ==
  ASSUME Plain, CopiesInv, NEW w \in Web, UserStep(w)
  PROVE  Plain' /\ Reads(w)
  <1>0. w \in Thread BY Threads
  <1>1. ASSUME NEW c, Good(c, Begun), Edit(w, c) PROVE Plain' /\ Reads(w)
    BY <1>1, EditStep
  <1>2. ASSUME NEW c \in Config PROVE /\ Good(c, Begun)
                                      /\ c.active \in Profile
                                      /\ DOMAIN c.profiles \subseteq Profile
    BY ConfigGood, StoreParts DEF Good
  <1>3. CASE SaveSettings(w)
    <2>1. PICK c \in Config, s \in Setting :
             Edit(w, Put(c, c.active, [EntryOf(c, c.active) EXCEPT !.settings = s]))
      BY <1>3 DEF SaveSettings
    <2>2. Good(Put(c, c.active, [EntryOf(c, c.active) EXCEPT !.settings = s]), Begun)
      <3> DEFINE e == [EntryOf(c, c.active) EXCEPT !.settings = s]
      <3>1. e \in Entry /\ Honest(e, c.active, Begun)
        <4>1. /\ EntryOf(c, c.active) \in Entry
              /\ Honest(EntryOf(c, c.active), c.active, Begun)
          BY <1>2, EntryGood
        <4>2. e \in Entry /\ e.fetched = EntryOf(c, c.active).fetched BY <4>1, EntryChanged
        <4> QED BY <4>1, <4>2 DEF Honest
      <3> QED BY <1>2, <3>1, PutGood
    <2> QED BY <1>1, <2>1, <2>2
  <1>4. CASE UpdateActiveSchedule(w)
    <2>1. PICK c \in Config, on \in BOOLEAN :
             Edit(w, Put(c, c.active, [EntryOf(c, c.active) EXCEPT
                                          !.auto = IF on THEN "on" ELSE "off",
                                          !.next = IF on THEN "later" ELSE "due"]))
      BY <1>4 DEF UpdateActiveSchedule
    <2> DEFINE e == [EntryOf(c, c.active) EXCEPT !.auto = IF on THEN "on" ELSE "off",
                                                 !.next = IF on THEN "later" ELSE "due"]
    <2>2. e \in Entry /\ Honest(e, c.active, Begun)
      <3>1. /\ EntryOf(c, c.active) \in Entry
            /\ Honest(EntryOf(c, c.active), c.active, Begun)
        BY <1>2, EntryGood
      <3>2. /\ (IF on THEN "on" ELSE "off") \in {"off", "on"}
            /\ (IF on THEN "later" ELSE "due") \in {"later", "due"}
        OBVIOUS
      <3>3. e \in Entry /\ e.fetched = EntryOf(c, c.active).fetched
        BY <3>1, <3>2, EntryChanged
      <3> QED BY <3>1, <3>3 DEF Honest
    <2>3. Good(Put(c, c.active, e), Begun) BY <1>2, <2>2, PutGood
    <2> QED BY <1>1, <2>1, <2>3
  <1>5. CASE SwitchProfile(w)
    <2>1. PICK c \in Config : \E p \in DOMAIN c.profiles : Edit(w, [c EXCEPT !.active = p])
      BY <1>5 DEF SwitchProfile
    <2>2. PICK p \in DOMAIN c.profiles : Edit(w, [c EXCEPT !.active = p]) BY <2>1
    <2> QED BY <1>1, <1>2, <2>2, SwitchGood
  <1>6. CASE NewProfile(w)
    <2>1. PICK c \in Config :
             \E p \in Profile \ DOMAIN c.profiles : Edit(w, [Put(c, p, Fresh) EXCEPT !.active = p])
      BY <1>6 DEF NewProfile
    <2>2. PICK p \in Profile : Edit(w, [Put(c, p, Fresh) EXCEPT !.active = p]) BY <2>1
    <2>3. Good(Put(c, p, Fresh), Begun) /\ p \in DOMAIN Put(c, p, Fresh).profiles
      <3>1. Fresh \in Entry /\ Honest(Fresh, p, Begun) BY FreshGood DEF Honest
      <3> QED BY <1>2, <3>1, PutGood
    <2> QED BY <1>1, <2>2, <2>3, SwitchGood
  <1>7. CASE DeleteActive(w)
    <2>1. PICK c \in Config :
             \E p \in NextActive(c) :
                Edit(w, [active |-> p,
                         profiles |-> [q \in DOMAIN c.profiles \ {c.active} |-> c.profiles[q]]])
      BY <1>7 DEF DeleteActive
    <2> QED BY <1>1, <1>2, <2>1, DeleteGood
  <1>8. CASE StartFetch(w)
    <2>1. PICK c \in Config : name' = [name EXCEPT ![w] = c.active]
      BY <1>8 DEF StartFetch
    <2>2. Plain'
      BY <1>0, <1>2, <1>8, <2>1, RequestsAssumption DEF StartFetch, Request, Goto, Plain, PC
    <2>3. /\ Goto(w, "lock") /\ "lock" \in PC /\ ~ Fetching(w) /\ pc[w] = "idle"
          /\ \A u \in Thread \ {w} : name'[u] = name[u]
          /\ UNCHANGED <<file, store, results, cfg, resume, listed, moved>>
      BY <1>8, <2>1 DEF StartFetch, Plain, PC, Fetching
    <2> QED BY <1>0, <2>2, <2>3, GoesReads
  <1>9. CASE FirstLook(w)
    <2>1. /\ pc[w] = "idle" /\ Showing(w, "idle", "idle")
          /\ UNCHANGED <<file, store, status, results, mu, cfg, name, listed, todo, moved>>
      BY <1>9 DEF FirstLook
    <2>2. Plain'
      BY <1>0, <1>9, <2>1, RequestsAssumption
      DEF FirstLook, Request, Showing, Goto, Plain, PC, Resume, State
    <2>3. ~ Fetching(w) BY <2>1 DEF Fetching
    <2>4. Begun' = Begun BY <2>1 DEF Begun
    <2>5. moved'[w] = {} /\ Good(cfg'[w], Begun')
      BY <1>0, <2>1, <2>3, <2>4 DEF CopiesInv, Sound
    <2>6. "idle" \in Resume BY DEF Resume
    <2>7. Reads(w) BY <1>0, <2>1, <2>4, <2>5, <2>6, ShowingReads
    <2> QED BY <2>2, <2>7
  <1> QED BY <1>3, <1>4, <1>5, <1>6, <1>7, <1>8, <1>9 DEF UserStep

-----------------------------------------------------------------------------
(***************************************************************************)
(* Writing files.                                                          *)
(***************************************************************************)
LEMMA SaveSteps ==
  ASSUME Plain, CopiesInv, NEW t \in Thread, SaveStep(t)
  PROVE  Plain' /\ (Reads(t) \/ Writes(t))
  <1>0. /\ resume[t] \in Resume /\ resume[t] \in PC
        /\ resume[t] \notin {"archive", "copy", "save", "write", "show", "showing"}
    BY DEF Plain, PC, Resume
  <1>1. CASE Truncate(t)
    <2>1. /\ pc[t] = "save" /\ Goto(t, "write") /\ file' = "empty" /\ resume' = resume
          /\ UNCHANGED <<store, results, cfg, name, resume, listed, moved>>
      BY <1>1 DEF Truncate
    <2>2. Plain' BY <1>1 DEF Truncate, Goto, Plain, PC
    <2>3. Fetching(t)' <=> Fetching(t) BY <2>1 DEF Fetching, Goto, Plain
    <2>4. "write" \in PC BY DEF PC
    <2> QED BY <2>1, <2>2, <2>3, <2>4, StageReads
  <1>2. CASE ShowTruncates(t)
    <2>1. /\ pc[t] = "show" /\ Goto(t, "showing")
          /\ UNCHANGED <<file, store, results, cfg, name, resume, listed, moved>>
      BY <1>2 DEF ShowTruncates
    <2>2. Plain' BY <1>2 DEF ShowTruncates, Goto, Plain, PC
    <2>3. Fetching(t)' <=> Fetching(t) BY <2>1 DEF Fetching, Goto, Plain
    <2>4. "showing" \in PC BY DEF PC
    <2> QED BY <2>1, <2>2, <2>3, <2>4, StageReads
  <1>3. ASSUME NEW l \in {resume[t], "leave"}, resume[t] = "check" \/ l = resume[t],
               pc[t] \in {"show", "showing"}, Goto(t, l),
               status' \in State \cup {"absent", "empty", "mixed"},
               say' = [say EXCEPT ![t] = "idle"],
               UNCHANGED <<file, store, results, mu, cfg, name, resume, listed, todo, moved,
                           requests>>
        PROVE  Plain' /\ Reads(t)
    <2>1. l \in PC /\ l \notin {"archive", "copy", "save", "write", "show", "showing"}
      BY <1>0 DEF PC
    <2>2. pc'[t] = l BY <1>3 DEF Goto, Plain
    <2>3. Fetching(t)' <=> Fetching(t) BY <1>3, <2>1, <2>2 DEF Fetching
    <2>4. Plain' BY <1>3, <2>1 DEF Goto, Plain, State
    <2> QED BY <1>3, <2>1, <2>3, <2>4, StageReads
  <1>4. CASE Show(t)
    <2>1. status' \in State \cup {"absent", "empty", "mixed"}
      BY <1>4 DEF Show, Plain
    <2> QED BY <1>3, <1>4, <2>1 DEF Show
  <1>5. CASE ShowFails(t)
    <2>1. status' \in State \cup {"absent", "empty", "mixed"}
      BY <1>5 DEF ShowFails, Plain
    <2>2. PICK l \in {resume[t], "leave"} :
             Goto(t, l) /\ (resume[t] = "check" \/ l = resume[t])
      BY <1>5 DEF ShowFails
    <2> QED BY <1>3, <1>5, <2>1, <2>2 DEF ShowFails
  <1>6. ASSUME pc[t] = "write", Goto(t, resume[t]), Forget(t), store' \in {store, cfg[t]},
               file' \in {"absent", "empty", "mixed", "whole"},
               file' = "absent" => file = "absent" /\ store' = store,
               moved' \in [Thread -> SUBSET Profile], moved'[t] = {},
               \A u \in Thread \ {t} :
                  \/ store' = store /\ moved'[u] = moved[u]
                  \/ moved'[u] = IF Fetching(u) THEN moved[u] \cup Rescheduling(store, store')
                                                ELSE {},
               UNCHANGED <<status, results, mu, name, resume, listed, todo, say, requests>>
        PROVE  Plain' /\ Writes(t)
    <2>1. pc' = [pc EXCEPT ![t] = resume[t]] /\ cfg' = [cfg EXCEPT ![t] = NewStore]
      BY <1>6 DEF Goto, Forget
    <2>2. Plain' BY <1>0, <1>6, <2>1 DEF Plain
    <2>3. /\ pc'[t] = resume[t] /\ cfg'[t] = NewStore
          /\ \A u \in Thread \ {t} : pc'[u] = pc[u] /\ cfg'[u] = cfg[u]
      BY <2>1 DEF Plain
    <2>4. resume[t] # "search" BY <1>6 DEF CopiesInv, Sound
    <2>5. ~ Fetching(t)' BY <1>0, <2>3, <2>4 DEF Fetching
    <2>6. Others(t) BY <1>6, <2>3 DEF Others
    <2> QED BY <1>0, <1>6, <2>2, <2>3, <2>5, <2>6 DEF Writes
  <1>7. CASE Write(t)
    <2>1. \A c, d : Rescheduling(c, d) \in SUBSET Profile BY DEF Rescheduling
    <2>2. moved' \in [Thread -> SUBSET Profile] BY <1>7, <2>1 DEF Write, Plain
    <2> QED BY <1>6, <1>7, <2>2 DEF Write
  <1>8. CASE WriteFails(t)
    <2>1. moved' \in [Thread -> SUBSET Profile] /\ moved'[t] = {}
      BY <1>8 DEF WriteFails, Plain
    <2>2. \A u \in Thread \ {t} : moved'[u] = moved[u] BY <1>8 DEF WriteFails, Plain
    <2>3. file' \in {"absent", "empty", "mixed", "whole"} BY <1>8 DEF WriteFails, Plain
    <2> QED BY <1>6, <1>8, <2>1, <2>2, <2>3 DEF WriteFails
  <1> QED BY <1>1, <1>2, <1>4, <1>5, <1>7, <1>8 DEF SaveStep


-----------------------------------------------------------------------------
(***************************************************************************)
(* FetchProfile.                                                           *)
(***************************************************************************)
LEMMA FetchSteps ==
  ASSUME Plain, CopiesInv, NEW t \in Thread, FetchStep(t)
  PROVE  Plain' /\ Reads(t)
  <1>0. AfterFetch(t) \in {"record", "idle"} BY DEF AfterFetch
  <1>1. CASE TryLock(t)
    <2>1. PICK l \in {"check", "refused"} : Goto(t, l) /\ mu' \in {t, mu}
      BY <1>1 DEF TryLock
    <2>2. Plain' BY <1>1, <2>1 DEF TryLock, Goto, Plain, PC
    <2>3. ~ Fetching(t) /\ l \in PC BY <1>1 DEF TryLock, Fetching, PC
    <2>4. \A u \in Thread \ {t} : name'[u] = name[u] BY <1>1 DEF TryLock
    <2> QED BY <1>1, <2>1, <2>2, <2>3, <2>4, GoesReads DEF TryLock
  <1>2. CASE Leave(t)
    <2>1. Goto(t, AfterFetch(t)) /\ AfterFetch(t) \in PC BY <1>0, <1>2 DEF Leave, PC
    <2>2. Plain' BY <1>2, <2>1 DEF Leave, Unlocked, Goto, Plain
    <2>3. ~ Fetching(t) BY <1>2 DEF Leave, Fetching
    <2>4. \A u \in Thread \ {t} : name'[u] = name[u] BY <1>2 DEF Leave
    <2> QED BY <1>0, <1>2, <2>1, <2>2, <2>3, <2>4, GoesReads DEF Leave
  <1>3. CASE NoProfile(t)
    <2>1. Goto(t, "leave") /\ "leave" \in PC BY <1>3 DEF NoProfile, PC
    <2>2. Plain' BY <1>3, <2>1 DEF NoProfile, Goto, Plain
    <2>3. ~ Fetching(t) BY <1>3 DEF NoProfile, Fetching
    <2>4. \A u \in Thread \ {t} : name'[u] = name[u] BY <1>3 DEF NoProfile
    <2> QED BY <1>3, <2>1, <2>2, <2>3, <2>4, GoesReads DEF NoProfile
  \* The steps that tell how the fetch is doing, when nothing is being fetched.
  <1>4. ASSUME NEW s \in State, NEW then \in Resume, then # "search",
               Showing(t, s, then), ~ Fetching(t), pc[t] # "write",
               UNCHANGED <<file, store, status, results, mu, cfg, name, listed, todo, moved,
                           requests>>
        PROVE  Plain' /\ Reads(t)
    <2>1. Plain' BY <1>4 DEF Showing, Goto, Plain, PC
    <2>2. Begun' = Begun BY <1>4 DEF Begun
    <2>3. moved'[t] = {} /\ Good(cfg'[t], Begun') BY <1>4, <2>2 DEF CopiesInv, Sound
    <2> QED BY <1>4, <2>1, <2>2, <2>3, ShowingReads
  <1>5. CASE Refused(t)
    <2>1. AfterFetch(t) \in Resume /\ AfterFetch(t) # "search" BY <1>0 DEF Resume
    <2>2. RefusedStatus \in State BY DEF RefusedStatus, State
    <2> QED BY <1>4, <1>5, <2>1, <2>2 DEF Refused, Fetching
  <1>6. CASE Ensure(t)
    <2>1. "idle" \in State /\ "check" \in Resume BY DEF State, Resume
    <2> QED BY <1>4, <1>6, <2>1 DEF Ensure, Fetching
  <1>7. CASE NoQuery(t)
    <2>1. "error" \in State /\ "leave" \in Resume BY DEF State, Resume
    <2> QED BY <1>4, <1>7, <2>1 DEF NoQuery, Fetching
  <1>8. CASE FetchEnds(t)
    <2>1. "idle" \in State /\ "leave" \in Resume BY DEF State, Resume
    <2> QED BY <1>4, <1>8, <2>1 DEF FetchEnds, Fetching
  <1>9. CASE Search(t)
    <2>1. PICK c \in Config : /\ name[t] \in DOMAIN c.profiles
                              /\ cfg' = [cfg EXCEPT ![t] = c]
      BY <1>9 DEF Search, StartsSearch
    <2>2. /\ pc[t] = "check" /\ Showing(t, "running", "search")
          /\ UNCHANGED <<file, store, status, results, mu, name, listed, todo, moved, requests>>
      BY <1>9 DEF Search
    <2>3. Plain' BY <2>1, <2>2 DEF Showing, Goto, Plain, PC, Resume, State
    <2>4. /\ pc'[t] = "show" /\ resume'[t] = "search" /\ cfg'[t] = c
          /\ \A u \in Thread \ {t} : /\ pc'[u] = pc[u] /\ cfg'[u] = cfg[u]
                                     /\ resume'[u] = resume[u]
      BY <2>1, <2>2 DEF Showing, Goto, Plain
    <2>5. Begun' = Begun BY <2>2 DEF Begun
    <2>6. Good(c, Begun) /\ Rescheduling(c, store) = {} BY ConfigGood, ConfigSchedules
    <2>7. Good(cfg'[t], Begun') /\ Good(listed', Begun')
      BY <2>2, <2>4, <2>5, <2>6 DEF CopiesInv
    <2>8. Rescheduling(cfg'[t], store') = {} BY <2>2, <2>4, <2>6
    <2>9. Sound(t)' BY <2>1, <2>2, <2>4, <2>7, <2>8 DEF Sound, Fetching
    <2>10. Reads(t) BY <2>2, <2>4, <2>5, <2>7, <2>9 DEF Reads, Others
    <2> QED BY <2>3, <2>10
  \* The fetch gives up.
  <1>10. ASSUME NEW r \in [ResultFile -> FileState], Begun \subseteq Begun',
                results' = r, pc[t] \in {"search", "archive"}, Showing(t, "error", "leave"),
                Forget(t), moved' = [moved EXCEPT ![t] = {}],
                UNCHANGED <<file, store, status, mu, name, listed, todo, requests>>
         PROVE  Plain' /\ Reads(t)
    <2>1. Plain' BY <1>10 DEF Showing, Forget, Goto, Plain, PC, Resume, State
    <2>2. /\ moved'[t] = {} /\ cfg'[t] = NewStore
          /\ \A u \in Thread \ {t} : cfg'[u] = cfg[u] /\ moved'[u] = moved[u]
      BY <1>10 DEF Forget, Plain
    <2>3. Good(cfg'[t], Begun') BY <2>2, FreshGood
    <2>4. "leave" \in Resume BY DEF Resume
    <2> QED BY <1>10, <2>1, <2>2, <2>3, <2>4, ShowingReads
  <1>11. CASE SearchFails(t)
    <2>1. results \in [ResultFile -> FileState] BY DEF Plain
    <2>2. Begun \subseteq Begun' BY <1>11 DEF SearchFails, Begun
    <2> QED BY <1>10, <1>11, <2>1, <2>2 DEF SearchFails
  <1>12. CASE ArchiveFails(t)
    <2>1. results' = [results EXCEPT ![Query(t)] = "failed"]
      BY <1>12 DEF ArchiveFails, Keeps
    <2>2. [results EXCEPT ![Query(t)] = "failed"] \in [ResultFile -> FileState]
      BY DEF Plain, FileState
    <2>3. Begun \subseteq Begun' BY <2>1 DEF Begun, Plain
    <2> QED BY <1>10, <1>12, <2>1, <2>2, <2>3 DEF ArchiveFails
  \* Between the answer and the save.
  <1>13. ASSUME pc[t] \in {"search", "archive", "copy"}
         PROVE  /\ Good(cfg[t], Begun) /\ name[t] \in DOMAIN cfg[t].profiles
                /\ name[t] \in Profile /\ cfg[t].profiles[name[t]] \in Entry
                /\ Query(t) \in Setting
                /\ Query(t) \in ResultFile /\ Copy(t) \in ResultFile
    <2>1. Good(cfg[t], Begun) /\ name[t] \in DOMAIN cfg[t].profiles
      BY <1>13 DEF CopiesInv, Sound, Fetching
    <2>2. cfg[t].profiles \in [DOMAIN cfg[t].profiles -> Entry]
      BY <2>1, StoreParts DEF Good
    <2>3. cfg[t].profiles[name[t]] \in Entry BY <2>1, <2>2
    <2>4. Query(t) \in Setting BY <2>3 DEF Query, Entry
    <2> QED BY <2>1, <2>3, <2>4 DEF Plain, ResultFile, Copy
  <1>14. CASE SearchSucceeds(t)
    <2>1. /\ pc[t] = "search" /\ Goto(t, "archive")
          /\ results' = [results EXCEPT ![Query(t)] = "open"]
          /\ UNCHANGED <<file, store, status, mu, cfg, name, resume, listed, todo, say, moved,
                         requests>>
      BY <1>14 DEF SearchSucceeds, Keeps
    <2>2. Plain' BY <2>1 DEF Goto, Plain, PC, FileState
    <2>3. pc'[t] = "archive" /\ \A u \in Thread \ {t} : pc'[u] = pc[u]
      BY <2>1 DEF Goto, Plain
    <2>4. Begun \subseteq Begun' /\ Query(t) \in Begun'
      BY <1>13, <2>1 DEF Begun, Plain
    <2>5. Good(cfg[t], Begun') /\ Good(listed', Begun')
      BY <2>1, <2>4, <1>13, GoodStays DEF CopiesInv
    <2>6. Query(t)' = Query(t) BY <2>1 DEF Query
    <2>7. Sound(t) /\ Fetching(t) /\ Fetching(t)' BY <2>1, <2>3 DEF CopiesInv, Fetching
    <2>8. Sound(t)' BY <2>1, <2>3, <2>4, <2>5, <2>6, <2>7 DEF Sound
    <2>9. Reads(t) BY <2>1, <2>3, <2>4, <2>5, <2>8 DEF Reads, Others
    <2> QED BY <2>2, <2>9
  <1>15. CASE Archived(t)
    <2>1. /\ pc[t] = "archive" /\ Goto(t, "copy")
          /\ results' = [results EXCEPT ![Query(t)] = "whole", ![Copy(t)] = "open"]
          /\ UNCHANGED <<file, store, status, mu, cfg, name, resume, listed, todo, say, moved,
                         requests>>
      BY <1>15 DEF Archived
    <2>2. Plain' BY <2>1 DEF Goto, Plain, PC, FileState
    <2>3. pc'[t] = "copy" /\ \A u \in Thread \ {t} : pc'[u] = pc[u]
      BY <2>1 DEF Goto, Plain
    <2>4. Begun \subseteq Begun' /\ Query(t) \in Begun' /\ Copy(t) \in Begun'
      BY <1>13, <2>1 DEF Begun, Plain
    <2>5. Good(cfg[t], Begun') /\ Good(listed', Begun')
      BY <2>1, <2>4, <1>13, GoodStays DEF CopiesInv
    <2>6. Query(t)' = Query(t) /\ Copy(t)' = Copy(t) BY <2>1 DEF Query, Copy
    <2>7. Sound(t) /\ Fetching(t) /\ Fetching(t)' BY <2>1, <2>3 DEF CopiesInv, Fetching
    <2>8. Sound(t)' BY <2>1, <2>3, <2>4, <2>5, <2>6, <2>7 DEF Sound
    <2>9. Reads(t) BY <2>1, <2>3, <2>4, <2>5, <2>8 DEF Reads, Others
    <2> QED BY <2>2, <2>9
  <1>16. CASE Copied(t)
    <2> DEFINE e == cfg[t].profiles[name[t]]
               d == [e EXCEPT !.fetched = e.settings]
               c == Put(cfg[t], name[t], d)
    <2>1. PICK s \in {"whole", "failed"} : results' = [results EXCEPT ![Copy(t)] = s]
      BY <1>16 DEF Copied, Keeps
    <2>2. /\ pc[t] = "copy" /\ Saving(t, c, "saved")
          /\ UNCHANGED <<file, store, status, mu, name, listed, todo, say, moved, requests>>
      BY <1>16 DEF Copied
    <2>3. Begun \subseteq Begun' BY <2>1 DEF Begun, Plain
    <2>4. Query(t) \in Begun /\ Copy(t) \in Begun BY <2>2 DEF CopiesInv, Sound
    <2>5. e.settings = Query(t) /\ e \in Entry BY <1>13, <2>2 DEF Query
    <2>6. d \in Entry /\ d.fetched = e.settings
      <3>1. e \in Entry /\ e.settings \in Setting BY <1>13, <2>2, <2>5
      <3> HIDE DEF e
      <3> QED BY <3>1, EntryChanged
    <2>7. Honest(d, name[t], Begun) BY <2>4, <2>5, <2>6 DEF Honest, Copy
    <2>8. Good(c, Begun) /\ name[t] \in DOMAIN c.profiles
      BY <1>13, <2>2, <2>6, <2>7, PutGood
    <2>9. Rescheduling(c, store) = Rescheduling(cfg[t], store)
      <3>1. cfg[t] \in StoreConfig /\ name[t] \in DOMAIN cfg[t].profiles
        BY <1>13, <2>2 DEF Good
      <3> QED BY <3>1, FetchedSchedules
    <2> HIDE DEF c
    <2>10. Plain' BY <2>1, <2>2 DEF Saving, Goto, Plain, PC, Resume, FileState
    <2>11. /\ pc'[t] = "save" /\ resume'[t] = "saved" /\ cfg'[t] = c
           /\ \A u \in Thread \ {t} : /\ pc'[u] = pc[u] /\ cfg'[u] = cfg[u]
                                      /\ resume'[u] = resume[u]
      BY <2>2 DEF Saving, Goto, Plain
    <2>12. Good(cfg'[t], Begun') /\ Good(listed', Begun')
      BY <2>2, <2>3, <2>8, <2>11, GoodStays DEF CopiesInv
    <2>13. Rescheduling(cfg[t], store) \subseteq moved[t]
      BY <2>2 DEF CopiesInv, Sound, Fetching
    <2>14. Rescheduling(cfg'[t], store') \subseteq moved'[t] BY <2>2, <2>9, <2>11, <2>13
    <2>15. name'[t] \in DOMAIN cfg'[t].profiles BY <2>2, <2>8, <2>11
    <2>16. Sound(t)' BY <2>11, <2>12, <2>14, <2>15 DEF Sound, Fetching
    <2>17. Reads(t) BY <2>2, <2>3, <2>11, <2>12, <2>16 DEF Reads, Others
    <2> QED BY <2>10, <2>17
  <1> QED BY <1>1, <1>2, <1>3, <1>5, <1>6, <1>7, <1>8, <1>9, <1>11, <1>12, <1>14, <1>15, <1>16
          DEF FetchStep

-----------------------------------------------------------------------------
(***************************************************************************)
(* The loop, the clock and the process.                                    *)
(***************************************************************************)
LEMMA RescheduledGood ==
  ASSUME CopiesInv, NEW c \in Config, NEW p \in Profile PROVE Good(Rescheduled(c, p), Begun)
  <1>1. Good(c, Begun) BY ConfigGood
  <1>2. EntryOf(c, p) \in Entry /\ Honest(EntryOf(c, p), p, Begun) BY <1>1, EntryGood
  <1>3. /\ [EntryOf(c, p) EXCEPT !.next = "later"] \in Entry
        /\ [EntryOf(c, p) EXCEPT !.next = "later"].fetched = EntryOf(c, p).fetched
    BY <1>2, EntryChanged
  <1>4. Honest([EntryOf(c, p) EXCEPT !.next = "later"], p, Begun) BY <1>2, <1>3 DEF Honest
  <1> QED BY <1>1, <1>3, <1>4, PutGood DEF Rescheduled

LEMMA LoopSteps ==
  ASSUME Plain, CopiesInv, AutoStep PROVE Plain' /\ Reads(Loop)
  <1>0. Loop \in Thread BY Threads
  \* The loop goes on without a save, perhaps with another snapshot.
  <1>1. ASSUME NEW l \in {"idle", "next", "lock"}, Goto(Loop, l), ~ Fetching(Loop),
               pc[Loop] # "write", Good(listed', Begun), todo' \subseteq Profile,
               name' \in [Thread -> Profile],
               \A u \in Thread \ {Loop} : name'[u] = name[u],
               UNCHANGED <<file, store, status, results, mu, cfg, resume, say, moved, requests>>
        PROVE  Plain' /\ Reads(Loop)
    <2>1. Plain' BY <1>0, <1>1 DEF Goto, Plain, PC
    <2>2. pc'[Loop] = l /\ \A u \in Thread \ {Loop} : pc'[u] = pc[u]
      BY <1>0, <1>1 DEF Goto, Plain
    <2>3. Begun' = Begun BY <1>1 DEF Begun
    <2>4. Good(cfg'[Loop], Begun') /\ moved'[Loop] = {}
      BY <1>0, <1>1, <2>3 DEF CopiesInv, Sound
    <2>5. ~ Fetching(Loop)' BY <2>2 DEF Fetching
    <2>6. Sound(Loop)' BY <2>2, <2>4, <2>5 DEF Sound
    <2> QED BY <1>1, <2>1, <2>2, <2>3, <2>6 DEF Reads, Others
  \* It saves.
  <1>2. ASSUME NEW c, Good(c, Begun), NEW then \in {"next", "lock"}, Saving(Loop, c, then),
               pc[Loop] \in {"next", "record"}, todo' \subseteq Profile,
               name' \in [Thread -> Profile],
               \A u \in Thread \ {Loop} : name'[u] = name[u],
               UNCHANGED <<file, store, status, results, mu, listed, say, moved, requests>>
        PROVE  Plain' /\ Reads(Loop)
    <2>1. then \in Resume /\ then \notin {"saved", "search"} BY DEF Resume
    <2>2. Plain' BY <1>0, <1>2, <2>1 DEF Saving, Goto, Plain, PC
    <2>3. ~ Fetching(Loop) BY <1>2 DEF Fetching
    <2> QED BY <1>0, <1>2, <2>1, <2>2, <2>3, SavingReads
  <1>3. CASE Tick
    <2>1. PICK c \in Config :
             /\ listed' = c
             /\ todo' = {p \in DOMAIN c.profiles :
                           c.profiles[p].auto = "broken" \/ Due(c.profiles[p])}
      BY <1>3 DEF Tick
    <2>2. Good(c, Begun) /\ DOMAIN c.profiles \subseteq Profile
      BY ConfigGood, StoreParts DEF Good
    <2>3. Good(listed', Begun) /\ todo' \subseteq Profile BY <2>1, <2>2
    <2>4. ~ Fetching(Loop) /\ pc[Loop] # "write" BY <1>3 DEF Tick, Fetching
    <2> QED BY <1>1, <1>3, <2>3, <2>4 DEF Tick, Plain
  <1>4. CASE TickEnds
    <2>1. Good(listed', Begun) BY <1>4, FreshGood DEF TickEnds
    <2>2. ~ Fetching(Loop) /\ pc[Loop] # "write" BY <1>4 DEF TickEnds, Fetching
    <2> QED BY <1>1, <1>4, <2>1, <2>2 DEF TickEnds, Plain
  <1>5. CASE RecordAutoFetch
    <2>1. CASE \E c \in Config : Saving(Loop, Rescheduled(c, name[Loop]), "next")
      <3>1. PICK c \in Config : Saving(Loop, Rescheduled(c, name[Loop]), "next") BY <2>1
      <3>2. Good(Rescheduled(c, name[Loop]), Begun) BY <1>0, RescheduledGood DEF Plain
      <3> QED BY <1>2, <1>5, <3>1, <3>2 DEF RecordAutoFetch, Plain
    <2>2. CASE Config = {} /\ Goto(Loop, "next") /\ UNCHANGED <<cfg, resume>>
      <3>1. ~ Fetching(Loop) /\ pc[Loop] # "write" BY <1>5 DEF RecordAutoFetch, Fetching
      <3> QED BY <1>1, <1>5, <2>2, <3>1 DEF RecordAutoFetch, Plain, CopiesInv
    <2> QED BY <1>5, <2>1, <2>2 DEF RecordAutoFetch
  <1>6. ASSUME NEW p \in Profile, Complain(p) PROVE Plain' /\ Reads(Loop)
    <2>1. Good(listed, Begun) /\ todo' \subseteq Profile
      BY <1>6 DEF Complain, Looked, Plain, CopiesInv
    <2> QED BY <1>2, <1>6, <2>1 DEF Complain, Looked, Plain
  <1>7. ASSUME NEW p \in Profile, MarkDue(p) PROVE Plain' /\ Reads(Loop)
    <2>1. /\ todo' \subseteq Profile /\ name' \in [Thread -> Profile]
          /\ \A u \in Thread \ {Loop} : name'[u] = name[u]
      BY <1>0, <1>7 DEF MarkDue, Looked, Plain
    <2>2. CASE \E c \in Config : Saving(Loop, Rescheduled(c, p), "lock")
      <3>1. PICK c \in Config : Saving(Loop, Rescheduled(c, p), "lock") BY <2>2
      <3>2. Good(Rescheduled(c, p), Begun) BY RescheduledGood
      <3> QED BY <1>2, <1>7, <2>1, <3>1, <3>2 DEF MarkDue, Looked
    <2>3. CASE Config = {} /\ Goto(Loop, "lock") /\ UNCHANGED <<cfg, resume>>
      <3>1. ~ Fetching(Loop) /\ pc[Loop] # "write" BY <1>7 DEF MarkDue, Looked, Fetching
      <3> QED BY <1>1, <1>7, <2>1, <2>3, <3>1 DEF MarkDue, CopiesInv
    <2> QED BY <1>7, <2>2, <2>3 DEF MarkDue
  <1> QED BY <1>3, <1>4, <1>5, <1>6, <1>7 DEF AutoStep

LEMMA ClockStep ==
  ASSUME Plain, CopiesInv, NEW p \in Profile, TimePasses(p)
  PROVE  Plain' /\ CopiesInv' /\ SavesOnlyNews
  <1>1. /\ store' = Aged(store, p) /\ listed' = Aged(listed, p)
        /\ cfg' = [t \in Thread |-> Aged(cfg[t], p)]
        /\ UNCHANGED <<file, status, results, mu, pc, name, resume, todo, say, moved, requests>>
    BY DEF TimePasses
  <1>2. Plain' BY <1>1 DEF Plain
  <1>3. Begun' = Begun BY <1>1 DEF Begun
  <1>4. Good(store', Begun') /\ Good(listed', Begun')
    BY <1>1, <1>3, AgedGood DEF CopiesInv
  <1>5. \A q : Schedule(store', q) = Schedule(store, q)
    BY <1>1, AgedSchedules DEF CopiesInv, Good
  <1>6. \A c : Rescheduling(c, store') = Rescheduling(c, store) BY <1>5 DEF Rescheduling
  <1>7. ASSUME NEW t \in Thread PROVE Sound(t)'
    <2>1. cfg'[t] = Aged(cfg[t], p) /\ Good(cfg[t], Begun) BY <1>1 DEF CopiesInv, Sound
    <2>2. /\ Good(cfg'[t], Begun')
          /\ DOMAIN cfg'[t].profiles = DOMAIN cfg[t].profiles
      BY <1>3, <2>1, AgedGood
    <2>3. \A q : Schedule(cfg'[t], q) = Schedule(cfg[t], q)
      BY <2>1, AgedSchedules DEF Good
    <2>4. Rescheduling(cfg'[t], store') = Rescheduling(cfg[t], store)
      BY <1>6, <2>3 DEF Rescheduling
    <2>5. /\ pc'[t] = pc[t] /\ name'[t] = name[t] /\ resume'[t] = resume[t]
          /\ moved'[t] = moved[t] /\ (Fetching(t)' <=> Fetching(t)) /\ Copy(t)' = Copy(t)
      BY <1>1 DEF Fetching, Copy
    <2>6. pc[t] \in {"archive", "copy"} => Query(t)' = Query(t)
      <3> SUFFICES ASSUME pc[t] \in {"archive", "copy"} PROVE Query(t)' = Query(t) OBVIOUS
      <3>1. name[t] \in DOMAIN cfg[t].profiles BY DEF CopiesInv, Sound, Fetching
      <3>2. Aged(cfg[t], p).profiles[name[t]].settings = cfg[t].profiles[name[t]].settings
        <4>1. CASE ~ Waits(cfg[t], p) BY <4>1 DEF Aged
        <4>2. CASE Waits(cfg[t], p)
          <5> DEFINE c == cfg[t]
                     e == [c.profiles[p] EXCEPT !.next = "due"]
                     f == [c.profiles EXCEPT ![p] = e]
          <5>1. /\ c.profiles \in [DOMAIN c.profiles -> Entry]
                /\ c = [active |-> c.active, profiles |-> c.profiles]
            BY <2>1, StoreParts DEF Good
          <5>2. p \in DOMAIN c.profiles BY <4>2 DEF Waits
          <5>3. c.profiles[p] \in Entry BY <5>1, <5>2
          <5>4. e.settings = c.profiles[p].settings BY <5>3 DEF Entry
          <5>5. \A q \in DOMAIN c.profiles : f[q].settings = c.profiles[q].settings BY <5>4
          <5>6. Aged(c, p).profiles = f BY <4>2, <5>1 DEF Aged
          <5> QED BY <3>1, <5>5, <5>6
        <4> QED BY <4>1, <4>2
      <3> QED BY <2>1, <2>5, <3>2 DEF Query
    <2> QED BY <1>3, <2>2, <2>4, <2>5, <2>6 DEF Sound, CopiesInv
  <1>8. file' = "absent" => Rescheduling(NewStore, store') = {}
    BY <1>1, <1>6 DEF CopiesInv
  <1>9. SavesOnlyNews BY <1>1 DEF SavesOnlyNews
  <1> QED BY <1>2, <1>4, <1>7, <1>8, <1>9 DEF CopiesInv

LEMMA RestartStep ==
  ASSUME Plain, CopiesInv, Restart PROVE Plain' /\ CopiesInv' /\ SavesOnlyNews
  <1>1. Plain'
    BY RequestsAssumption DEF Restart, Request, Plain, PC, FileState, State
  <1>2. Begun' = Begun BY DEF Restart, Begun, Plain
  <1>3. store' = store /\ file' = file /\ listed' = NewStore BY DEF Restart
  <1>4. ASSUME NEW t \in Thread PROVE Sound(t)'
    <2>1. pc'[t] = "idle" /\ cfg'[t] = NewStore /\ moved'[t] = {} BY DEF Restart
    <2> QED BY <2>1, FreshGood DEF Sound, Fetching
  <1>5. SavesOnlyNews BY DEF Restart, SavesOnlyNews
  <1> QED BY <1>1, <1>2, <1>3, <1>4, <1>5, FreshGood DEF CopiesInv

-----------------------------------------------------------------------------
(***************************************************************************)
(* The invariant, and what follows.                                        *)
(***************************************************************************)
LEMMA InitialCopies == Init => Plain /\ CopiesInv
  <1> SUFFICES ASSUME Init PROVE Plain /\ CopiesInv OBVIOUS
  <1>1. Plain
    BY Threads, ProfileAssumption, RequestsAssumption
    DEF Init, Plain, PC, Resume, FileState, State
  <1>2. Good(store, Begun)
    <2>1. CASE store = NewStore BY <2>1, FreshGood
    <2>2. CASE store = [NewStore EXCEPT !.profiles[Default].auto = "broken"]
      <3> DEFINE f == [p \in {Default} |-> [Fresh EXCEPT !.auto = "broken"]]
      <3>1. store = [active |-> Default, profiles |-> f]
        BY <2>2 DEF NewStore
      <3>2. /\ [Fresh EXCEPT !.auto = "broken"] \in Entry
            /\ [Fresh EXCEPT !.auto = "broken"].fetched = None
        BY SettingAssumption DEF Fresh, Entry
      <3>3. f \in [{Default} -> Entry] /\ \A p \in {Default} : Honest(f[p], p, Begun)
        BY <3>2 DEF Honest
      <3> HIDE DEF f
      <3> QED BY <3>1, <3>3, GoodOf, ProfileAssumption
    <2> QED BY <2>1, <2>2 DEF Init
  <1>3. Good(listed, Begun) BY FreshGood DEF Init
  <1>4. file = "absent" => Rescheduling(NewStore, store) = {} BY Differences DEF Init
  <1>5. ASSUME NEW t \in Thread PROVE Sound(t)
    BY FreshGood DEF Init, Sound, Fetching
  <1> QED BY <1>1, <1>2, <1>3, <1>4, <1>5 DEF CopiesInv

LEMMA CopiesStep ==
  Plain /\ CopiesInv /\ [Next]_vars => Plain' /\ CopiesInv' /\ (SavesOnlyNews \/ UNCHANGED vars)
  <1> SUFFICES ASSUME Plain, CopiesInv, [Next]_vars
               PROVE  Plain' /\ CopiesInv' /\ (SavesOnlyNews \/ UNCHANGED vars)
    OBVIOUS
  <1>1. ASSUME NEW w \in Web, UserStep(w) PROVE Plain' /\ CopiesInv' /\ SavesOnlyNews
    BY <1>1, Threads, UserSteps, ReadsStep
  <1>2. ASSUME NEW t \in Thread, SaveStep(t) PROVE Plain' /\ CopiesInv' /\ SavesOnlyNews
    BY <1>2, SaveSteps, ReadsStep, WritesStep
  <1>3. ASSUME NEW t \in Thread, FetchStep(t) PROVE Plain' /\ CopiesInv' /\ SavesOnlyNews
    BY <1>3, FetchSteps, ReadsStep
  <1>4. CASE AutoStep BY <1>4, Threads, LoopSteps, ReadsStep
  <1>5. ASSUME NEW p \in Profile, TimePasses(p) PROVE Plain' /\ CopiesInv' /\ SavesOnlyNews
    BY <1>5, ClockStep
  <1>6. CASE Restart BY <1>6, RestartStep
  <1>7. CASE UNCHANGED vars
    <2>1. Plain' BY <1>7 DEF vars, Plain
    <2>2. Begun' = Begun BY <1>7 DEF vars, Begun
    <2>3. ASSUME NEW t \in Thread PROVE Sound(t)'
      <3>1. Sound(t) BY DEF CopiesInv
      <3>2. (Fetching(t)' <=> Fetching(t)) /\ Query(t)' = Query(t) /\ Copy(t)' = Copy(t)
        BY <1>7 DEF vars, Fetching, Query, Copy
      <3> QED BY <1>7, <2>2, <3>1, <3>2 DEF vars, Sound
    <2>4. CopiesInv' BY <1>7, <2>2, <2>3 DEF vars, CopiesInv
    <2> QED BY <1>7, <2>1, <2>4
  <1> QED BY <1>1, <1>2, <1>3, <1>4, <1>5, <1>6, <1>7 DEF Next

\* Every copy of the configuration is good, the one on disk, the ones in flight and
\* the one the loop iterates over; and a fetch knows all schedules but those that
\* were changed since it read them.
THEOREM CopiesInvariant == Spec => [](Plain /\ CopiesInv)
  <1>1. Plain /\ CopiesInv /\ [Next]_vars => (Plain /\ CopiesInv)' BY CopiesStep
  <1> QED BY <1>1, InitialCopies, PTL DEF Spec

\* The variables have their types.
THEOREM TypeCorrect == Spec => []TypeOK
  BY TypeFromParts, CopiesInvariant, PTL

\* config.json always has an active profile (shodan.go:110-147, 395-426).
THEOREM ActiveAlwaysExists == Spec => []ActiveExists
  <1>1. CopiesInv => ActiveExists BY DEF CopiesInv, Good, ActiveExists
  <1> QED BY <1>1, CopiesInvariant, PTL

\* Whatever is saved over what, and whenever the process stops: a profile that says it
\* was fetched has the archive of its query and its own copy, or writing that very file
\* failed or was cut short the last time (shodan.go:292-308).
THEOREM ResultsComeFirst == Spec => []FetchedHasResults
  <1>1. CopiesInv => FetchedHasResults
    BY DEF CopiesInv, Good, Honest, Begun, FetchedHasResults
  <1> QED BY <1>1, CopiesInvariant, PTL

\* A fetch undoes only what was saved while it ran (shodan.go:265, 308).
THEOREM FetchesUndoOnlyNews == Spec => FetchUndoesOnlyNews
  <1>1. Plain /\ CopiesInv /\ [Next]_vars => [SavesOnlyNews]_vars BY CopiesStep
  <1>2. SavesOnlyNews => \A t \in Thread : Fetching(t) /\ pc[t] = "write" /\ pc'[t] = "saved" =>
                            Rescheduling(store, store') \subseteq moved[t]
    BY DEF SavesOnlyNews
  <1> QED BY <1>1, <1>2, CopiesInvariant, PTL DEF Spec, FetchUndoesOnlyNews, SavesOnlyNews

=============================================================================
