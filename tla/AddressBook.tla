---------------------------- MODULE AddressBook ----------------------------
(***************************************************************************)
(* What the address lists of cfnat promise, however they are stored: an    *)
(* address has one place in the lists in use and one place in the lists on *)
(* disk.  The tests of the program move an address only along the edges    *)
(* the documentation gives (slow: to the blacklist; fast again: from there *)
(* to the force-test list; passed: to the exempt list; cooling for too     *)
(* long: off it).  Only the user moves it anywhere else.                   *)
(***************************************************************************)
CONSTANT IP

Places == {"none", "black", "force", "exempt"}

VARIABLES
    place,   \* where each address is in the lists the program uses
    saved,   \* where it is in the lists on disk
    user     \* whether the user is changing the lists

vars == <<place, saved, user>>

\* What a test may decide of an address.  It is slow on the exempt list when
\* its eviction could not be written and came back while it was tested.
Verdict == {<<"none", "black">>, <<"force", "black">>, <<"exempt", "black">>,
            <<"black", "force">>, <<"none", "exempt">>, <<"exempt", "none">>}

\* A verdict takes several writes and each can fail: on disk the address may
\* be in no list in between, or for good.
Written == Verdict \cup {<<"black", "none">>, <<"force", "none">>, <<"none", "force">>}

Moves(before, after, edges) ==
    \A i \in IP : before[i] = after[i] \/ <<before[i], after[i]>> \in edges

Init == place \in [IP -> Places] /\ saved = place /\ user = FALSE

Decide == ~user /\ Moves(place, place', Verdict) /\ UNCHANGED <<saved, user>>
Write == ~user /\ Moves(saved, saved', Written) /\ UNCHANGED <<place, user>>
Reload == place' = saved /\ UNCHANGED <<saved, user>>

UserBegins == ~user /\ user' = TRUE /\ UNCHANGED <<place, saved>>
UserWrites == user /\ saved' \in [IP -> Places] /\ UNCHANGED <<place, user>>
UserEnds == user /\ user' = FALSE /\ place' \in {place, saved} /\ UNCHANGED saved

Next == Decide \/ Write \/ Reload \/ UserBegins \/ UserWrites \/ UserEnds

Spec == Init /\ [][Next]_vars
=============================================================================
