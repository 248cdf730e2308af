--------------------------- MODULE MCEgressBreaker ---------------------------
(* Small instances of EgressBreaker for TLC. *)
EXTENDS EgressBreaker, TLC

CONSTANTS s1, s2, yahoo, brave, google, mojeek, vpn, tor, direct

\* The order is yahoo, brave; a request asks for google, or for mojeek, which
\* the library does not have.
MCOrders == {<<google, yahoo, brave>>, <<mojeek, yahoo, brave>>}

\* BACKEND_PROXIES: yahoo=vpn, brave=vpn|tor.
MCRoutesOf == (yahoo :> <<vpn>>) @@ (brave :> <<vpn, tor>>)
              @@ (google :> <<direct>>) @@ (mojeek :> <<direct>>)
=============================================================================
