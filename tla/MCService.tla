------------------------------ MODULE MCService ------------------------------
(* A small instance of Service for TLC.                                     *)
EXTENDS Service, TLC

\* Two of the three checks share a name.
MCName == "db" :> "db" @@ "replica" :> "db" @@ "nats" :> "nats"
=============================================================================
