------------------------------ MODULE MCRpcClient -----------------------------
\* Small instances of RpcClient: addresses and ports, interchangeable threads and
\* descriptors.
EXTENDS RpcClient, TLC

CONSTANTS ip1, ip2

OneServer == {[ip |-> ip1, port |-> 1]}
TwoHosts == OneServer \cup {[ip |-> ip2, port |-> 1]}
TwoPorts == OneServer \cup {[ip |-> ip1, port |-> 2]}

Symmetry == Permutations(Thread) \cup Permutations(Fd)
===============================================================================
