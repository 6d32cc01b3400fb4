--------------------------- MODULE MCUpdateRequest ---------------------------
(* Instance of UpdateRequest for TLC: names with each kind of character,   *)
(* and one with a wide character and a malformed escape.                   *)
EXTENDS UpdateRequest

MCNames == {<<>>, <<"a">>} \cup {<<"a", c>> : c \in Chars} \cup {<<"wide", "%">>}
MCBrokerPaths == {<<"/">>, <<"/", "/">>, <<"/", "NGSI10">>, <<"/", "V1", "/">>, <<"/", "v2">>, <<"/", "V2", "/">>,
                  <<"/", "v2", "/", "/">>}
=============================================================================
