------------------------- MODULE MCPostgresStorage -------------------------
(* PostgresStorage on the small instances of the MCPostgresStorage*.cfg files. *)
EXTENDS PostgresStorage
=============================================================================
