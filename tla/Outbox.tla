-------------------------------- MODULE Outbox --------------------------------
(* What a phone promises of the items put on it, without entries, versions,   *)
(* calls or kills: an item waits until it is sent, what is sent stays sent,   *)
(* and only a clear takes one that waits.                                     *)
EXTENDS Naturals

CONSTANT Items

VARIABLES
    place,     \* where each item is
    told,      \* the items the person has been told of
    wiped      \* those taken by a clear and not put again

vars == <<place, told, wiped>>

Init ==
    /\ place = [i \in Items |-> "nowhere"]
    /\ told = {}
    /\ wiped = {}

\* An item that was sent may wait once more: the server has it all the same.
Hold(i) ==
    /\ place[i] # "waiting"
    /\ place' = [place EXCEPT ![i] = IF @ = "sent" THEN "sent" ELSE "waiting"]
    /\ wiped' = wiped \ {i}
    /\ UNCHANGED told

\* The person may be told in the same moment, that it waits, if the answer is lost.
Send(i) ==
    /\ place[i] = "waiting"
    /\ place' = [place EXCEPT ![i] = "sent"]
    /\ told' \in {told, told \cup {i}}
    /\ UNCHANGED wiped

Tell(i) ==
    /\ place[i] # "nowhere" \/ i \in wiped
    /\ told' = told \cup {i}
    /\ UNCHANGED <<place, wiped>>

\* A clear takes one item after the other, and may be stopped among them.
Wipe(i) ==
    /\ place[i] # "nowhere"
    /\ place' = [place EXCEPT ![i] = IF @ = "waiting" THEN "nowhere" ELSE @]
    /\ wiped' = wiped \cup {i}
    /\ UNCHANGED told

Next == \E i \in Items : Hold(i) \/ Send(i) \/ Tell(i) \/ Wipe(i)

Spec == Init /\ [][Next]_vars
=============================================================================
