----------------------------- MODULE MCPgStore -----------------------------
(* PgStore on small instances. *)
EXTENDS PgStore

CONSTANTS sync, async

MCClients == {sync, async}
MCDriver  == [c \in MCClients |-> IF c = async THEN "asyncpg" ELSE "psycopg"]
MCModel   == [c \in MCClients |-> IF c = async THEN "m2" ELSE "m1"]
MCUses    == [c \in MCClients |-> IF c = async THEN Verbs \ {"add"}
                                  ELSE {"add", "update", "delete"}]
MCUpdates == [c \in MCClients |-> IF c = async THEN {{}, {"supersedes"}}
                                  ELSE {{"supersedes"}, {"content"}}]

=============================================================================
