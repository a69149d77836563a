--------------------------- MODULE MCObjectStore ---------------------------
(***************************************************************************)
(* ObjectStore for TLC: an object of two chunks in a directory, a second   *)
(* key at the root, and one request of every kind and of every outcome.    *)
(***************************************************************************)
EXTENDS ObjectStore, TLC

CONSTANTS k1, k2, d1, r1, r2

InOrder == r1 :> 1 @@ r2 :> 2
Tree == k1 :> d1 @@ k2 :> Root @@ d1 :> Root
Lengths == k1 :> 2 @@ k2 :> 0

Unconditional == [match |-> NoCondition, noneMatch |-> NoCondition,
                  modSince |-> Absent, unmodSince |-> Absent, size |-> Absent, lastMod |-> Absent]
OldTag == [given |-> TRUE, any |-> FALSE, tags |-> {<<1, 0, 2>>}]

Ask(op, k) ==
    [op |-> op, key |-> k, from |-> k, len |-> 0, offset |-> 0, cond |-> Unconditional,
     srcCond |-> Unconditional, specs |-> << >>, tags |-> NoTag, meta |-> NoTag,
     replace |-> FALSE, keys |-> <<k>>, refuse |-> "none"]
If(c, field, x) == [c EXCEPT !.cond = [@ EXCEPT ![field] = x]]
Span(a, b) == [first |-> a, last |-> b]

Reads ==
    << Ask("get", k1), [Ask("get", k1) EXCEPT !.specs = <<Span(Absent, 1), Span(0, 5)>>],
       [Ask("get", k1) EXCEPT !.specs = <<Span(1, Absent)>>],
       [Ask("get", k1) EXCEPT !.specs = <<Span(2, 3)>>],
       If(Ask("get", k1), "noneMatch", OldTag), If(Ask("head", k1), "modSince", 0),
       Ask("gettags", k1), Ask("getdir", d1) >>
Put(k, n) == [Ask("put", k) EXCEPT !.len = n, !.tags = "new"]
Writes ==
    << [Put(k1, 2) EXCEPT !.meta = "new"], If(Put(k1, 1), "match", OldTag),
       If(Put(k2, 1), "noneMatch", AnyTag), [Put(k1, 1) EXCEPT !.refuse = "403"],
       [Ask("puttags", k1) EXCEPT !.tags = "new"], Ask("mkdir", d1) >>
Appending(off, n) == [Ask("append", k1) EXCEPT !.offset = off, !.len = n]
Appends == << Appending(2, 2), Appending(2, 0), Appending(3, 1) >>
Copy(a, b) == [Ask("copy", b) EXCEPT !.from = a]
Copies ==
    << Copy(k1, k2), [Copy(k1, k2) EXCEPT !.replace = TRUE, !.meta = "new"], Copy(k2, k1),
       [Copy(k1, k1) EXCEPT !.replace = TRUE, !.meta = "new"] >>
Deletes ==
    << If(Ask("delete", k1), "size", 2), If(Ask("delete", k1), "lastMod", 0),
       If(Ask("delete", k2), "match", AnyTag),
       [Ask("deletes", k1) EXCEPT !.keys = <<k1, d1, k2>>], Ask("rmdir", d1) >>
AllCalls == Reads \o Writes \o Appends \o Copies \o Deletes
=============================================================================
