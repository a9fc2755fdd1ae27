------------------------------ MODULE MCCarShm ------------------------------
(* The instances of CarShm that TLC checks. *)
EXTENDS CarShm

MCMatchCases == {FALSE, TRUE}
MCAsCompiled == {FALSE}

MCFirstFloor == {[B |-> 0, level |-> 1]}

\* Behind the string tests: both sides of the ground, the lowest floor, and where
\* a uint8_t ends.
MCFloors == [m \in MCMatchCases |->
    IF m THEN MCFirstFloor \cup {[B |-> 1, level |-> 1], [B |-> 1, level |-> 99],
                                [B |-> 0, level |-> 255]}
         ELSE MCFirstFloor]
MCFloorsAsCompiled == [m \in MCAsCompiled |-> MCFirstFloor]

MCTestStatuses == {Nonsense}

\* The flag that is compared with 1 by safety.
MCTestExcesses == {"safety_system"}
=============================================================================
