--------------------------- MODULE MCServerStart ---------------------------
(***************************************************************************)
(* Two servers and the four migrations of the repository.                  *)
(***************************************************************************)
EXTENDS ServerStart

CONSTANTS s1, s2

TwoServers == {s1, s2}

Situation(versions, rows, file, users, who, complete) ==
    [schema |-> versions, recorded |-> rows, secret |-> file, accounts |-> users,
     servers |-> who, credentials |-> complete]

\* One server on an empty database, with and without complete credentials, and two;
\* one or two servers that take over a database made by deploy/initdb, or by that of
\* an older release; an update from the first or the second version, with the secret
\* of the last server; and two servers whose volume with the secret was lost.
Situations ==
    {Situation({}, {}, 0, 0, {s1}, c) : c \in BOOLEAN}
    \cup {Situation({}, {}, 0, 0, TwoServers, TRUE)}
    \cup {Situation(Versions, {}, 0, 0, {s1}, TRUE)}
    \cup {Situation(Versions, {}, 1, u, TwoServers, TRUE) : u \in {0, 1}}
    \cup {Situation(1 .. k, {}, 1, u, who, TRUE) :
             k \in {1, 3}, u \in {0, 1}, who \in {{s1}, TwoServers}}
    \cup {Situation(1 .. k, 1 .. k, 1, u, TwoServers, TRUE) : k \in {1, 2}, u \in {0, 1}}
    \cup {Situation(Versions, Versions, 0, 1, TwoServers, TRUE)}
=============================================================================
