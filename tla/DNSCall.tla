------------------------------ MODULE DNSCall ------------------------------
(***************************************************************************)
(* What a call that publishes addresses promises to those who make it, when *)
(* several are made at once, and what ForwardPool takes it for.  It refuses *)
(* to publish nothing.  It looks at the name once; from then on it adds     *)
(* wanted addresses, and takes unwanted ones away only when all wanted ones *)
(* are there or were taken away by others; it may fail at any moment with   *)
(* what it has done so far; and when it answers "ok" the name has the       *)
(* wanted addresses and, of those that the program manages, no other, but   *)
(* for what others took away or brought since it looked.  Records, their    *)
(* identifiers and what somebody knew of them are no part of it.            *)
(***************************************************************************)
CONSTANTS Caller, Content

VARIABLES
    managed,   \* addresses the name has through the program
    owned,     \* addresses it has through the owner of the zone
    wanted,    \* what each caller asked for last
    answer,    \* and what came of it
    gone,      \* what others took away since its call looked
    come       \* what others brought since then

vars == <<managed, owned, wanted, answer, gone, come>>

Init ==
    /\ managed \in SUBSET Content /\ owned \in SUBSET Content
    /\ wanted = [s \in Caller |-> {}]
    /\ answer = [s \in Caller |-> "none"]
    /\ gone = [s \in Caller |-> {}] /\ come = [s \in Caller |-> {}]

Answers(s, a) == answer' = [answer EXCEPT ![s] = a]

\* A step of s, as the other calls see it.
Meanwhile(s, took, brought) ==
    /\ gone' = [t \in Caller |-> IF answer'[t] # "pending" THEN {}
                                ELSE IF t = s THEN gone[t] ELSE gone[t] \cup took]
    /\ come' = [t \in Caller |-> IF answer'[t] # "pending" THEN {}
                                ELSE IF t = s THEN come[t] ELSE come[t] \cup brought]

Begins(s) == \E D \in SUBSET Content :
    /\ answer[s] # "pending"
    /\ wanted' = [wanted EXCEPT ![s] = D]
    /\ Answers(s, IF D = {} THEN "failed" ELSE "pending")
    /\ Meanwhile(s, {}, {})
    /\ UNCHANGED <<managed, owned>>

Looks(s) ==
    /\ answer[s] = "pending"
    /\ gone' = [gone EXCEPT ![s] = {}] /\ come' = [come EXCEPT ![s] = {}]
    /\ UNCHANGED <<managed, owned, wanted, answer>>

\* The answer to a change may be lost.
Changes(s) == answer[s] = "pending" /\ (UNCHANGED answer \/ Answers(s, "failed"))

Adds(s) ==
    /\ Changes(s)
    /\ \E c \in wanted[s] \ (managed \cup owned) :
          managed' = managed \cup {c} /\ Meanwhile(s, {}, {c})
    /\ UNCHANGED <<owned, wanted>>

Removes(s) ==
    /\ Changes(s)
    /\ wanted[s] \subseteq managed \cup owned \cup gone[s]
    /\ \E c \in managed \ wanted[s] :
          managed' = managed \ {c} /\ Meanwhile(s, {c}, {})
    /\ UNCHANGED <<owned, wanted>>

Fails(s) ==
    /\ answer[s] = "pending" /\ Answers(s, "failed")
    /\ Meanwhile(s, {}, {})
    /\ UNCHANGED <<managed, owned, wanted>>

Succeeds(s) ==
    /\ answer[s] = "pending" /\ Answers(s, "ok")
    /\ wanted[s] \subseteq managed \cup owned \cup gone[s]
    /\ managed \subseteq wanted[s] \cup come[s]
    /\ Meanwhile(s, {}, {})
    /\ UNCHANGED <<managed, owned, wanted>>

OwnerAdds ==
    /\ \E c \in Content \ (managed \cup owned) : owned' = owned \cup {c}
    /\ UNCHANGED <<managed, wanted, answer, gone, come>>

Next ==
    \/ \E s \in Caller : \/ Begins(s) \/ Looks(s) \/ Adds(s) \/ Removes(s)
                         \/ Fails(s) \/ Succeeds(s)
    \/ OwnerAdds

Spec == Init /\ [][Next]_vars
=============================================================================
