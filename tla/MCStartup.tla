----------------------------- MODULE MCStartup -----------------------------
(***************************************************************************)
(* Two instances and the databases they may find, for TLC.                 *)
(***************************************************************************)
EXTENDS Startup

CONSTANTS i1, i2

\* A fresh database, one from before the campaigns, and two that earlier
\* versions of the program left.
MCDatabases ==
    {[tables |-> {}, missing |-> {}],
     [tables |-> {"users", "transactions", "data_plans"},
      missing |-> {"upgrade_seen", "developer"}],
     [tables |-> Tables, missing |-> {"activated_at", "text_lengths"}],
     [tables |-> Tables, missing |-> {"push_token", "image"}]}
=============================================================================
