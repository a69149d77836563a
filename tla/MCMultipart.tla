---------------------------- MODULE MCMultipart ----------------------------
(* Multipart for TLC: requests are interchangeable model values. *)
EXTENDS Multipart, TLC

CONSTANTS r1, r2, r3, r4

RequestSymmetry == Permutations(Requests)

\* Two copies, a Complete, and a Complete or an Abort, which arrive in any
\* order: since requests are interchangeable it does not matter which request
\* is which, and unlike symmetry this is sound for liveness.  A fault or a
\* change by another writer, not both in one behaviour.
Roles == r1 :> {"copy"} @@ r2 :> {"copy"} @@ r3 :> {"complete"} @@ r4 :> {"complete", "abort"}
InRoles ==
    /\ \A r \in Requests : call[r].op \in Roles[r] \cup {"none"}
    /\ call[r2].op # "none" => call[r1].op # "none"
    /\ faults + foreign <= 1

\* Three uploads, two of them at a time, and a Complete.
TwoAtATime ==
    /\ Cardinality({r \in Requests : call[r].op = "complete"}) <= 1
    /\ Cardinality({r \in Requests : call[r].op \in Uploads /\ pc[r] # "done"}) <= 2
=============================================================================
