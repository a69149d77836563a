----------------------------- MODULE Admission -----------------------------
(***************************************************************************)
(* What the connection limiter of s32p-proxy promises: at most PerIp       *)
(* requests of a source address are inside the proxy at a time, and each   *)
(* of them leaves once.  PerIp = 0 switches the limiter off.               *)
(***************************************************************************)
EXTENDS Naturals, FiniteSets

CONSTANTS Requests, Ips, PerIp

VARIABLE admitted    \* address -> the requests that count against its cap

AdmissionInit == admitted = [ip \in Ips |-> {}]

Admit(r, ip) ==
    /\ \A i \in Ips : r \notin admitted[i]
    /\ Cardinality(admitted[ip]) < PerIp
    /\ admitted' = [admitted EXCEPT ![ip] = @ \cup {r}]

Leave(r, ip) ==
    /\ r \in admitted[ip]
    /\ admitted' = [admitted EXCEPT ![ip] = @ \ {r}]

AdmissionNext == \E r \in Requests, ip \in Ips : Admit(r, ip) \/ Leave(r, ip)

AdmissionSpec == AdmissionInit /\ [][AdmissionNext]_admitted

=============================================================================
