---------------------------- MODULE MCMetaService -----------------------------
\* Small instances of MetaService: the file "a", its first version "a.1" and a
\* second file "b"; each instance has the requests its question needs.
EXTENDS MetaService

CONSTANTS a, a1, b

MCOldKey == [kn \in {<<a, 1>>} |-> a1]

Long == <<"x", "y">>

Meta(u, p, c, o) == [url |-> u, pwd |-> p, crypt |-> c, opened |-> o]
Req(op, path, m, set, ver) ==
    [op |-> op, path |-> path, meta |-> m, set |-> set, ver |-> ver]

Plain == Meta("u1", <<>>, "", 1)
Secret == Meta("u1", Long, "key", 1)
Closed == Meta("u2", <<"x">>, "key", 0)
Renamed == Meta("u2", <<>>, "", 1)

GetOf(k) == Req("get", k, Plain, {}, 0)
AddOf(k, m) == Req("add", k, m, {}, 0)
UpdateOf(k, m, set) == Req("update", k, m, set, 0)
ReplaceOf(k, ver) == Req("replace", k, Renamed, {}, ver)
DeleteOf(k) == Req("delete", k, Plain, {}, 0)
CleanOf(k) == Req("clean", k, Plain, {}, 0)

\* every kind of request, also for the old version of "a"
OrderlyRequests ==
    {GetOf(a), GetOf(a1), AddOf(a, Secret), ReplaceOf(a, 1), DeleteOf(a),
     CleanOf(a), UpdateOf(a, Closed, {"opened"}), AddOf(b, Plain)}

\* the file "a" is changed in every way, "b" is only added and taken from the cache
EveryRequest == {AddOf(b, Plain), AddOf(b, Secret), GetOf(b), CleanOf(b),
                 GetOf(a), ReplaceOf(a, 1), DeleteOf(a),
                 UpdateOf(a, Plain, {"pwd", "crypt", "opened"})}

UnsetRequests == {AddOf(a, Secret), UpdateOf(a, Closed, {"opened"})}

VersionRequests == {AddOf(a, Plain), ReplaceOf(a, 1), GetOf(a1)}

DeleteRequests == {AddOf(a, Plain), GetOf(a), DeleteOf(a)}

OpenedRequests == {AddOf(a, Secret), UpdateOf(a, Closed, {"pwd", "crypt"}),
                   UpdateOf(a, Closed, {"pwd", "crypt", "opened"})}
===============================================================================
