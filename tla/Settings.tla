------------------------------ MODULE Settings ------------------------------
(***************************************************************************)
(* Settings.from_yaml (app/config/settings.py): what the agent runs with,  *)
(* given the TALLYSYNC_ variables of the environment and of the file .env, *)
(* config.yaml and the keyring, reduced to the settings that the agent     *)
(* looks at or that can keep it from starting.  A source is a function     *)
(* from sections to functions from keys to values; a file that is missing  *)
(* is an empty one.                                                        *)
(*                                                                         *)
(* pydantic-settings is external: it merges the sources key by key, and    *)
(* as each section is a BaseSettings of its own, a variable of the         *)
(* environment with the bare name of a key comes before the default.       *)
(***************************************************************************)
EXTENDS Naturals, SequencesExt, Dicts

TallySettings == [host |-> "localhost", company_name |-> ""]

DatabaseSettings == [url |-> "local", pool_size |-> 5, max_overflow |-> 10]

\* A cron expression is the sequence of its fields.
SyncSettings ==
    [batch_size |-> 500, bulk_insert_size |-> 1000, full_sync_on_startup |-> FALSE,
     full_sync_cron |-> <<"0", "2", "*", "*", "*">>,
     entity_order |-> <<"company", "ledger_group", "unit", "stock_group", "godown",
                        "voucher_type", "stock_item", "ledger", "voucher">>]

ApiSettings == [enabled |-> TRUE]
LoggingSettings == [level |-> "INFO"]
SecuritySettings == [use_keyring |-> TRUE]

Defaults ==
    [tally |-> TallySettings, database |-> DatabaseSettings, sync |-> SyncSettings,
     api |-> ApiSettings, logging |-> LoggingSettings, security |-> SecuritySettings]

SectionOf(source, section) == IF section \in DOMAIN source THEN source[section] ELSE Empty

\* Defective variant: a section of the higher source hides all of the lower.
Merged_Shallow(section, given) ==
    (given.env @@ given.dotenv @@ given.yaml @@ [s \in {section} |-> Empty])[section]

\* settings_customise_sources: from the highest to the lowest.
Merged(section, given) ==
    SectionOf(given.env, section) @@ SectionOf(given.dotenv, section)
    @@ SectionOf(given.yaml, section)

\* Other keys are ignored.
Section(section, given) ==
    LET values == Merged(section, given) @@ given.bare
    IN  Restrict(values, DOMAIN values \cap DOMAIN Defaults[section]) @@ Defaults[section]

\* The field validators; levels are compared in upper case.
Valid(settings) ==
    /\ settings.sync.batch_size > 0 /\ settings.sync.bulk_insert_size > 0
    /\ settings.logging.level \in {"DEBUG", "INFO", "WARNING", "ERROR", "CRITICAL"}

\* The keyring's credential, "" for none, replaces the URL.
FromKeyring(settings, stored) ==
    IF settings.security.use_keyring /\ stored # "" THEN [settings EXCEPT !.database.url = stored]
    ELSE settings

Loaded(given) ==
    FromKeyring([section \in DOMAIN Defaults |-> Section(section, given)], given.keyring)
=============================================================================
