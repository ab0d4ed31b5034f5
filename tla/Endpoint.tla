------------------------------ MODULE Endpoint ------------------------------
(* grpclient/endpoint/endpoint.go: what gRPC dials for the name of an        *)
(* endpoint. A name is its scheme, what separates that from the rest ("" for *)
(* a plain host:port, ":" and ":///" only after unix or unixs) and the rest, *)
(* a host and a port, or the last segment of a path cut in the same way.     *)
EXTENDS Naturals

EndpointName(scheme, sep, host, port) ==
    [scheme |-> scheme, sep |-> sep, host |-> host, port |-> port]

Plain(host, port) == EndpointName("", "", host, port)

\* unixs becomes unix, and unix://local a path of the current directory; http
\* and https are dropped; any other name is dialled as it is.
Dialled(ep) ==
    CASE ep.scheme \in {"unix", "unixs"} ->
            EndpointName("unix", IF ep.sep = "://" THEN ":" ELSE ep.sep, ep.host, ep.port)
      [] ep.scheme \in {"http", "https"} -> Plain(ep.host, ep.port)
      [] OTHER -> ep

Interpret(ep) == [addr |-> Dialled(ep), serverName |-> ep.host]
=============================================================================
