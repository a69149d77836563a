-------------------------- MODULE MCRequestFilter --------------------------
(* Model of RequestFilter for TLC. *)
EXTENDS RequestFilter, TLC

CONSTANTS u1, u2, s1, b1, b2, ip1

RequestSymmetry == Permutations(Requests)

Ask(ip, key, bucket, op, writes) ==
    [ip |-> ip, key |-> key, bucket |-> bucket, src |-> NoBucket, op |-> op,
     writes |-> writes, sse |-> FALSE, mode |-> "ReadWrite", token |-> key \in Sids]

Copy(ip, key, bucket, src) ==
    [Ask(ip, key, bucket, "proxy", TRUE) EXCEPT !.src = src]

Granted == [u \in Users |-> [b \in Buckets |-> "rw"]]

\* Every kind of request: sessions of u1, their use in and out of scope, also
\* as a copy from another bucket, the owner's own requests, a second user, and
\* requests that are refused.
AllCalls ==
    {[Ask(Loopback, u1, b1, "session", FALSE) EXCEPT !.mode = "ReadOnly"],
     Ask(Loopback, u1, b1, "session", FALSE),
     Ask(ip1, s1, b1, "session", FALSE), Ask(ip1, s1, b1, "proxy", FALSE),
     Ask(ip1, s1, b1, "proxy", TRUE),
     Ask(ip1, s1, NoBucket, "proxy", FALSE), Ask(ip1, s1, b2, "proxy", FALSE),
     Copy(ip1, u1, b1, b2), Copy(ip1, s1, b1, b2),
     [Ask(ip1, s1, b1, "proxy", FALSE) EXCEPT !.token = FALSE],
     Ask(ip1, u1, b1, "proxy", FALSE), Ask(Loopback, u2, b1, "proxy", TRUE),
     [Ask(ip1, u2, b1, "local", TRUE) EXCEPT !.sse = TRUE],
     Ask(ip1, u2, NoBucket, "session", FALSE), Ask(ip1, u2, b1, "local", TRUE),
     Ask(ip1, NoKey, b1, "unrouted", TRUE), Ask(ip1, NoKey, b1, "proxy", FALSE)}
=============================================================================
