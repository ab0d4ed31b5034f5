------------------------------ MODULE MCClient ------------------------------
EXTENDS Client, TLC, Endpoint

CONSTANTS h1, h2, m1, m2

Entry(addr, weight, meta) == [addr |-> addr, weight |-> weight, meta |-> meta]
Secure == EndpointName("http", "://", h1, "port")
Other == Plain(h2, "port")

\* An entry without a weight and one with, the latter with other metadata, none.
MCContent == {
    <<Entry(Other, 0, m1), Entry(Secure, 1, m1)>>,
    <<Entry(Secure, 1, m2)>>,
    <<>>}

\* A registry holds two endpoints at the start, or none yet.
MCFirst == {<<Entry(Other, 0, m1), Entry(Secure, 1, m1)>>, <<>>}

MCUserList == {<<Other>>}
=============================================================================
