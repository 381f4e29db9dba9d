---------------------------- MODULE MCSyncClient -----------------------------
EXTENDS SyncClient

\* "a1" with port 80 and "a" with port 180 have one hash; "no" has no address.
MCIps == {"9", "1", "2"}
MCDns == [a |-> <<"1", "2">>, a1 |-> <<"2">>, no |-> <<>>]
MCTexts == {
    [schema |-> "http", host |-> "a1"],
    [host |-> "a", port |-> 180, number |-> "180", path |-> "/p"],
    [host |-> "9", port |-> 0, number |-> "0"],
    [path |-> "/p"]}
MCHosts == {[name |-> "9", port |-> 80], [name |-> "a", port |-> 180], [name |-> "no", port |-> 80]}
MCPaths == {"/q"}
MCProxies == {EmptyDomain, DomainSet(EmptyDomain, "2", 3128, NoText)}
=============================================================================
