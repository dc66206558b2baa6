----------------------------- MODULE DatabaseSetup -----------------------------
(***************************************************************************)
(* Getting to a database: which accounts the settings stand for (resolve-      *)
(* MariaDbCredentials in src/pipeline.js), preflightDatabase in src/eval/        *)
(* setup.js, which starts the docker-compose database of the repository if         *)
(* nothing answers, while people start, stop and remove it too; and the review     *)
(* of the query user's grants (analyzeQueryUserGrants in src/pipeline.js).         *)
(*                                                                         *)
(* External are Docker with docker-compose.yml and docker/mariadb/initdb, and     *)
(* the server's logins and LIKE patterns.  A setting that is not set is "", one     *)
(* of white space " ".  Sockets and host names are "local" or not.               *)
(***************************************************************************)
EXTENDS Naturals, Sequences, SequencesExt, FiniteSets, TLC

CONSTANTS
    Environments,  \* the settings a run may have
    Machines,      \* Machines[settings]: what may be there at its start
    MaxMeddling,   \* things other people do to it meanwhile
    MaxPolls,      \* probes until the wait is over
    Reviews,       \* pairs of a list of grants and the DB_NAME they are reviewed for, or <<>>
    DatabaseNames  \* of every database there may be

VARIABLES
    settings,
    machine,    \* [container, port, volume, other]: the compose service and a server of somebody else
    stage,      \* where the preflight is
    polls,
    meddling,
    review,     \* what is reviewed
    warned      \* the reviewed grants that a warning names, by number

databaseVars == <<settings, machine, stage, polls, meddling, review, warned>>

-----------------------------------------------------------------------------
(* Settings and accounts.                                                   *)

NonBlank(value) == value \notin {"", " "}
FirstNonBlank(values) == LET set == SelectSeq(values, NonBlank) IN IF set = <<>> THEN "" ELSE Head(set)

ResolveQueryDbUser(e) == IF NonBlank(e.DB_USER) THEN e.DB_USER ELSE "demo_readonly"
QueryCredentials(e) == [user |-> ResolveQueryDbUser(e), password |-> e.DB_PASSWORD]

IsFallback(e) == ~(NonBlank(e.DB_ADMIN_USER) \/ NonBlank(e.DB_ADMIN_PASSWORD) \/ NonBlank(e.MARIADB_ROOT_PASSWORD))
AdminCredentials(e) ==
    IF IsFallback(e) THEN [user |-> FirstNonBlank(<<e.DB_USER>>), password |-> e.DB_PASSWORD]
    ELSE [user |-> FirstNonBlank(<<e.DB_ADMIN_USER, "root">>),
          password |-> FirstNonBlank(<<e.DB_ADMIN_PASSWORD, e.MARIADB_ROOT_PASSWORD, e.DB_PASSWORD>>)]

\* adminCredentialsHint and the refusal of ensureFixtures.
LacksAdmin(e) == IsFallback(e) \/ ~NonBlank(AdminCredentials(e).password)

ComposeEnvProblems(e) ==
    \/ ~NonBlank(e.DB_PASSWORD)
    \/ NonBlank(e.DB_READONLY_PASSWORD) /\ e.DB_READONLY_PASSWORD # e.DB_PASSWORD
    \/ NonBlank(e.DB_USER) /\ e.DB_USER # (IF e.DB_READONLY_USER # "" THEN e.DB_READONLY_USER ELSE "demo_readonly")

-----------------------------------------------------------------------------
(* The machine.  A volume has the accounts of the first start.                 *)

NoVolume == [root |-> "", user |-> "", password |-> ""]
FirstSet(values) == LET set == SelectSeq(values, LAMBDA v : v # "") IN IF set = <<>> THEN "" ELSE Head(set)
FreshVolume(e) ==
    [root |-> FirstSet(<<e.DB_ADMIN_PASSWORD, e.MARIADB_ROOT_PASSWORD, e.DB_PASSWORD, "secret">>),
     user |-> FirstSet(<<e.DB_READONLY_USER, "demo_readonly">>),
     password |-> FirstSet(<<e.DB_READONLY_PASSWORD, e.DB_PASSWORD>>)]

LogsIn(volume, account) ==
    \/ account = [user |-> "root", password |-> volume.root]
    \/ account = [user |-> volume.user, password |-> volume.password]

\* The server at the address of the settings.
Answering ==
    IF machine.container = "running" /\ machine.port = "same" THEN machine.volume ELSE machine.other

ProbeDatabase(e) ==
    IF Answering = NoVolume THEN "unreachable"
    ELSE IF LogsIn(Answering, QueryCredentials(e)) THEN "ok" ELSE "refused"

UpFails(e) == FreshVolume(e).password = ""
ComposeUpRecreating(e) ==   \* Faulty: without --no-recreate.
    IF UpFails(e) THEN machine
    ELSE [machine EXCEPT !.container = "running", !.volume = IF @ = NoVolume THEN FreshVolume(e) ELSE @, !.port = "same"]

\* docker compose up by someone with settings e; it needs a password for the query user of a new volume.
ComposeUp(e) ==
    IF machine.container = "running" \/ UpFails(e) THEN machine
    ELSE [machine EXCEPT !.container = "running",
                         !.volume = IF @ = NoVolume THEN FreshVolume(e) ELSE @,
                         !.port = IF machine.container = "none" THEN "same" ELSE @]

-----------------------------------------------------------------------------
DatabaseInit ==
    /\ polls = 0 /\ meddling = 0 /\ warned = {}
    /\ \/ /\ stage = "probe" /\ review = <<<<>>, <<>>>>
          /\ \E e \in Environments : settings = e /\ machine \in Machines[e]
       \/ /\ stage = "review" /\ review \in Reviews
          /\ settings = CHOOSE e \in Environments : TRUE
          /\ machine = [container |-> "none", port |-> "same", volume |-> NoVolume, other |-> NoVolume]

Moved(from, to) == stage = from /\ stage' = to /\ UNCHANGED <<settings, meddling, review, warned>>

FirstProbe ==
    /\ Moved("probe", CASE ProbeDatabase(settings) = "ok" -> "reachable"
                        [] ProbeDatabase(settings) = "refused" -> "unusable"
                        [] OTHER -> IF settings.host # "local" \/ ~settings.docker THEN "unreachable"
                                    ELSE IF ComposeEnvProblems(settings) THEN "misconfigured" ELSE "ps")
    /\ UNCHANGED <<machine, polls>>

\* A service that is seen to run is not touched, whatever keeps it from answering.  The look itself
\* may fail, and says nothing then.
LookForService ==
    /\ \/ Moved("ps", IF machine.container = "running" THEN "unreachable" ELSE "up")
       \/ Moved("ps", "up")
    /\ UNCHANGED <<machine, polls>>

\* It may also fail: no daemon, the port in use, another checkout's container of the name.
StartService ==
    /\ \/ ~UpFails(settings) /\ Moved("up", "wait") /\ machine' = ComposeUp(settings)
       \/ Moved("up", "not started") /\ UNCHANGED machine
    /\ UNCHANGED polls

Poll ==
    /\ Moved("wait", CASE ProbeDatabase(settings) = "ok" -> "started"
                       [] ProbeDatabase(settings) = "refused" -> "unusable"
                       [] OTHER -> IF polls + 1 = MaxPolls THEN "unreachable" ELSE "wait")
    /\ polls' = polls + 1
    /\ UNCHANGED machine

Meddle ==
    /\ stage \in {"ps", "up", "wait"} /\ meddling < MaxMeddling /\ meddling' = meddling + 1
    /\ \/ machine' = [machine EXCEPT !.container = IF @ = "running" THEN "stopped" ELSE @]
       \/ machine' = [machine EXCEPT !.container = "none", !.volume = NoVolume]
       \/ \E e \in Environments : e # settings /\ e.host = "elsewhere" /\ machine' = [ComposeUp(e) EXCEPT !.port = "other"]
    /\ machine' # machine
    /\ UNCHANGED <<settings, stage, polls, review, warned>>

-----------------------------------------------------------------------------
(* Grants.  A grant is [privileges, on, name, option]: on a "role", on "all"     *)
(* databases, on the "database"s that a LIKE pattern names, or on a "table" of a     *)
(* database with that name.  A name is a sequence of characters; the provisioned     *)
(* family of databases starts with Family.                                     *)

Family == <<"d", "_">>
SystemSchemas == {<<"m">>}

Verbatim(c) == [char |-> c, wild |-> FALSE]
Wildcard(c) == [char |-> c, wild |-> TRUE]

GrantNameTokens(grant) ==
    LET step(s, c) ==
            IF s.escaped THEN [escaped |-> FALSE, tokens |-> Append(s.tokens, Verbatim(c))]
            ELSE IF c = "\\" THEN [s EXCEPT !.escaped = TRUE]
            ELSE IF grant.on = "database" /\ c \in {"%", "_"} THEN [s EXCEPT !.tokens = Append(@, Wildcard(c))]
            ELSE [s EXCEPT !.tokens = Append(@, Verbatim(c))]
        all == FoldLeft(step, [escaped |-> FALSE, tokens |-> <<>>], grant.name)
    IN  IF all.escaped THEN Append(all.tokens, Verbatim("\\")) ELSE all.tokens

RECURSIVE GrantNameMatches(_, _)
GrantNameMatches(tokens, name) ==
    IF tokens = <<>> THEN name = <<>>
    ELSE IF Head(tokens) = Wildcard("%")
    THEN \E n \in 0 .. Len(name) : GrantNameMatches(Tail(tokens), SubSeq(name, n + 1, Len(name)))
    ELSE /\ name # <<>> /\ (Head(tokens) = Wildcard("_") \/ Head(tokens).char = Head(name))
         /\ GrantNameMatches(Tail(tokens), Tail(name))

HasPercent(tokens) == Wildcard("%") \in ToSet(tokens)
GrantNamePrefix(tokens) ==
    LET percents == {i \in DOMAIN tokens : tokens[i] = Wildcard("%")}
        end == IF percents = {} THEN Len(tokens) ELSE (CHOOSE i \in percents : \A j \in percents : i <= j) - 1
    IN  [i \in 1 .. end |-> tokens[i].char]

NamesDatabaseAmongOthers(tokens, database) == GrantNameMatches(tokens, database)   \* Faulty: x% reaches more.

NamesDatabase(tokens, database) == ~HasPercent(tokens) /\ GrantNameMatches(tokens, database)

SelectScopeWarning(grant, database) ==
    LET tokens == GrantNameTokens(grant) IN
    \/ \E s \in SystemSchemas : GrantNameMatches(tokens, s)
    \/ /\ database # <<>>
       /\ ~NamesDatabase(tokens, database) /\ ~IsPrefix(Family, GrantNamePrefix(tokens))

AnalyzeQueryUserGrants ==
    /\ stage = "review" /\ stage' = "reviewed"
    /\ warned' = {i \in DOMAIN review[1] :
                    LET grant == review[1][i] IN
                    \/ grant.on = "role" \/ grant.option
                    \/ grant.privileges \ {"SELECT", "USAGE"} # {}
                    \/ "SELECT" \in grant.privileges /\ (grant.on = "all" \/ SelectScopeWarning(grant, review[2]))}
    /\ UNCHANGED <<settings, machine, polls, meddling, review>>

DatabaseNext == FirstProbe \/ LookForService \/ StartService \/ Poll \/ Meddle \/ AnalyzeQueryUserGrants
DatabaseSpec == DatabaseInit /\ [][DatabaseNext]_databaseVars

-----------------------------------------------------------------------------
(* The preflight says of the settings what the database that it would start      *)
(* makes of them: with settings it passes, a database that was first started by it   *)
(* lets the query user in, and the admin user, unless the run has said that it        *)
(* lacks one; it refuses settings only if that database would turn the query user      *)
(* away.  Not if DB_READONLY_USER is set and DB_USER is not: the user that compose      *)
(* creates and the one that asks differ then, and composeEnvProblems says nothing.      *)
SettingsAreJudged ==
    LET fresh == FreshVolume(settings)
        queryOk == fresh.password # "" /\ LogsIn(fresh, QueryCredentials(settings))
    IN  /\ stage = "misconfigured" => ~queryOk
        /\ (stage \in {"wait", "unusable", "started"} /\ ~ComposeEnvProblems(settings)
            /\ (~NonBlank(settings.DB_USER) => settings.DB_READONLY_USER \in {"", "demo_readonly"}))
              => /\ stage = "unusable" => Answering # fresh
                 /\ stage = "started" /\ Answering = fresh => LacksAdmin(settings) \/ AdminCredentials(settings).user # "root"
                                                           \/ LogsIn(fresh, AdminCredentials(settings))

(* And a compose service that runs is never started again, moved to another port or   *)
(* recreated by a run, even if somebody starts it when the run has already looked.      *)
PreflightIsSafe ==
    /\ []SettingsAreJudged
    /\ [][machine.container = "running" /\ meddling' = meddling => machine' = machine]_databaseVars

(* A grant is warned about if and only if the query user can do with it what it       *)
(* should not: anything but reading, or reading beyond DB_NAME and the provisioned        *)
(* databases, with a _ that was not escaped read as itself, or as what DB_NAME has there.   *)
GrantsAreJudged ==
    LET database == review[2]
        asWritten(tokens) == [i \in DOMAIN tokens |-> IF tokens[i] = Wildcard("_") THEN Verbatim("_") ELSE tokens[i]]
        meant(tokens) == IF ~HasPercent(tokens) /\ GrantNameMatches(tokens, database) THEN {database}
                         ELSE {n \in DatabaseNames : GrantNameMatches(asWritten(tokens), n)}
        beyond(grant) ==
            \/ grant.on \in {"role", "all"} \/ grant.option
            \/ LET tokens == GrantNameTokens(grant) IN
               \/ \E s \in SystemSchemas : GrantNameMatches(tokens, s)
               \/ database # <<>> /\ \E n \in meant(tokens) : n # database /\ ~IsPrefix(Family, n)
    IN  stage = "reviewed" => \A i \in DOMAIN review[1] :
            (i \in warned) <=> \/ review[1][i].privileges \ {"SELECT", "USAGE"} # {} \/ review[1][i].option \/ review[1][i].on = "role"
                               \/ "SELECT" \in review[1][i].privileges /\ beyond(review[1][i])
==============================================================================
