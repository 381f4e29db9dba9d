--------------------------------- MODULE Url ---------------------------------
(***************************************************************************)
(* net::Domain and net::Url as records.  A field of an URL is a view of    *)
(* the parsed text, of a string of its own or of a constant.               *)
(***************************************************************************)
EXTENDS Naturals, Sequences, TLC

CONSTANT Ips        \* host names that are IP addresses

NoText == ""        \* the empty string

ASSUME IpsAreNames == NoText \notin Ips

-----------------------------------------------------------------------------
(* Domain                                                                  *)

EmptyDomain == [name |-> NoText, port |-> 80, text |-> NoText, hash |-> "n/a", nodes |-> <<>>]

\* Domain::operator bool
IsDomain(d) == d.name # NoText /\ d.text # NoText

NodesOf(name, port) == IF name \in Ips THEN <<[ip |-> name, port |-> port]>> ELSE <<>>

\* Domain::set: an address is appended to the nodes that are there.  The
\* hash is taken of the name and of the text of the port, one after the other.
DomainSet(d, name, port, text) ==
    LET number == IF text = NoText THEN ToString(port) ELSE text IN
    IF name = NoText \/ port = 0 THEN d
    ELSE [name |-> name, port |-> port, text |-> number, hash |-> name \o number,
          nodes |-> d.nodes \o NodesOf(name, port)]

\* Faulty variant: domains with one hash are one domain.
SameDomain_Hash(d, e) == d.hash = e.hash

\* operator==, the equality of the keys of Client::_pools.
SameDomain(d, e) == d.hash = e.hash /\ d.name = e.name /\ d.port = e.port

-----------------------------------------------------------------------------
(* Url                                                                     *)

Fields == {"schema", "path", "query"}

Default == [schema |-> "http", path |-> "/", query |-> NoText]

NewUrl == [parts  |-> <<>>,                             \* _url, as its parts
           view   |-> [f \in Fields |-> "default"],     \* what each view shows
           own    |-> [f \in Fields |-> NoText],            \* the strings of their own
           domain |-> EmptyDomain]

\* Url::clear, when parse begins and when a Request returns to its cache.
ClearUrl(u) == NewUrl

Shown(u, f) ==
    CASE u.view[f] = "default" -> Default[f]
      [] u.view[f] = "parts" -> u.parts[f]
      [] OTHER -> u.own[f]

\* The host and port of a text; without a port, or with port 0, 80 or none.
HostOf(d, text) ==
    IF "port" \in DOMAIN text THEN DomainSet(d, text.host, text.port, text.number)
    ELSE DomainSet(d, text.host, 80, "80")

\* Url::parse.  A text is the record of the parts http_parser finds in it;
\* it answers false when the domain of the result is none.
ParseUrl(u, text) ==
    LET c == [ClearUrl(u) EXCEPT !.parts = text]
        found(fields) == [f \in Fields |-> IF f \in fields \cap DOMAIN text THEN "parts" ELSE "default"]
    IN  CASE text = <<>> -> c
          [] text # <<>> /\ "host" \notin DOMAIN text -> [c EXCEPT !.view = found({"schema"})]
          [] OTHER -> [c EXCEPT !.view = found(Fields), !.domain = HostOf(@, text)]

\* set_schema, set_path, set_query
SetField(u, f, value) == [u EXCEPT !.own[f] = value, !.view[f] = "own"]

SetHost(u, name, port) == [u EXCEPT !.domain = DomainSet(@, name, port, NoText)]

SetDomain(u, d) == [u EXCEPT !.domain = d]

=============================================================================
