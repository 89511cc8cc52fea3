--------------------------- MODULE VersionedStore ---------------------------
(* What a store of artifact versions promises, whatever keeps them: versions *)
(* are added one by one, none ever changes, and the latest one, which        *)
(* readers get, never goes back.                                             *)
EXTENDS Sequences, Naturals

CONSTANTS
    Artifacts,      \* names of artifacts
    Contents        \* what a version may hold

VARIABLES
    log,            \* the versions of each artifact
    latest          \* the number of the one that readers get, 0 for none

vars == <<log, latest>>

Init ==
    /\ log = [k \in Artifacts |-> <<>>]
    /\ latest = [k \in Artifacts |-> 0]

(* A version is added, for readers to see or not yet. *)
AddVersion(k, c) ==
    /\ log' = [log EXCEPT ![k] = Append(@, c)]
    /\ latest' \in {latest, [latest EXCEPT ![k] = Len(log[k]) + 1]}

(* Readers are given a newer version. *)
Publish(k) ==
    /\ \E n \in latest[k]..Len(log[k]) : latest' = [latest EXCEPT ![k] = n]
    /\ UNCHANGED log

Next == \E k \in Artifacts : Publish(k) \/ \E c \in Contents : AddVersion(k, c)

Spec == Init /\ [][Next]_vars
=============================================================================
