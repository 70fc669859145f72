------------------------------ MODULE MCAgent ------------------------------
(***************************************************************************)
(* Agent with two services and five configurations, for TLC.             *)
(***************************************************************************)
EXTENDS Agent

None ==
    [env |-> Empty, dotenv |-> Empty, yaml |-> Empty, bare |-> Empty, keyring |-> ""]

\* config.yaml with a name put in, and the host of another machine.
File ==
    [tally |-> [host |-> "localhost", company_name |-> "first"],
     database |-> [pool_size |-> 1, max_overflow |-> 1],
     sync |-> [full_sync_on_startup |-> TRUE,
               entity_order |-> <<"company", "purchase_order">>]]

Complete ==
    [None EXCEPT !.yaml = File, !.env = [tally |-> [host |-> "tally"]], !.keyring = "stored"]

\* The service does not find its file.
NoFile == [None EXCEPT !.dotenv = [tally |-> [company_name |-> "first"]]]

\* config.yaml as it is.
Unnamed ==
    [None EXCEPT !.yaml = [File EXCEPT !.tally.company_name = ""],
                 !.env = [api |-> [enabled |-> FALSE]]]

ShortCron == [Complete EXCEPT !.env = [sync |-> [full_sync_cron |-> <<"0", "2", "*", "*">>]]]

Rejected == [None EXCEPT !.bare = [batch_size |-> 0]]

Configurations == {Complete, NoFile, Unnamed, ShortCron, Rejected}
=============================================================================
