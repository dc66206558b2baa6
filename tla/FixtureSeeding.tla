---------------------------- MODULE FixtureSeeding ----------------------------
(***************************************************************************)
(* Making the fixture databases hold the generated content before an         *)
(* evaluation: the check, seeding and second check of ensureFixtures         *)
(* (src/eval/setup.js) over the statements of src/eval/fixture-seeder.js.     *)
(*                                                                         *)
(* Runs of several checkouts share one server: the generator of a run's       *)
(* checkout has a version.  A table is absent, or holds the rows some version *)
(* generates for it, or others (none among them).  Master tables are the same *)
(* in every version.  A database that is absent has no table.                *)
(***************************************************************************)
EXTENDS Naturals, Sequences, FiniteSets

CONSTANTS
    SetupRuns,    \* runs of ensureFixtures
    Fixtures,     \* fixture databases, numbered from 1 in the order they are listed
    Versions,     \* versions of the generator
    Setups,       \* what the runs may be: their generator, mode and fixtures (--fixtures)
    MaxTroubles   \* bound on edits by others, lost connections, deadlocks and kills

\* Seeding, --no-seed, and the benchmark profile, which only warns of other facts.
Modes == {"seed", "strict", "lenient"}

ASSUME SeedingAssumption ==
    /\ IsFiniteSet(Fixtures) /\ Fixtures \subseteq Nat \ {0}
    /\ Versions \cap {"absent", "other", "shared", "none"} = {}
    /\ Setups \subseteq [SetupRuns -> [version : Versions, mode : Modes, wanted : SUBSET Fixtures]]
    /\ MaxTroubles \in Nat

VARIABLES
    setup,     \* the generator version, mode and fixtures of each run
    rows,      \* rows[f][t]: what the table holds
    meta,      \* the version the meta row of a database records, or "none"
    at,        \* where a run is
    queue,     \* fixtures the run has still to go through in this stage
    seen,      \* the tables read so far of the fixture at the head of the queue
    lacking,   \* fixtures found that will not do
    troubles,
    exact      \* history: per run, the fixtures that were exact at some time since it began

seedingVars == <<setup, rows, meta, at, queue, seen, lacking, troubles, exact>>

\* SEEDED_TABLES, in order: master tables, then the facts (two stand for all).
SeededTables == <<"master", "documents", "lines">>
Tables == {"master", "documents", "lines"}
Absent == "absent"
Other == "other"
SharedRows == "shared"
NoMeta == "none"

\* buildFixtureRows.
Generated(v) == [t \in Tables |-> IF t = "master" THEN SharedRows ELSE v]

Exact(r, f) == rows[f] = Generated(setup[r].version)
Ordered(fs) == [n \in 1 .. Cardinality(fs) |-> CHOOSE f \in fs : Cardinality({g \in fs : g < f}) = n - 1]

SeedingInit ==
    /\ setup \in Setups
    /\ rows = [f \in Fixtures |-> [t \in Tables |-> Absent]]
    /\ meta = [f \in Fixtures |-> NoMeta]
    /\ at = [r \in SetupRuns |-> "off"]
    /\ queue = [r \in SetupRuns |-> <<>>]
    /\ seen = [r \in SetupRuns |-> <<>>]
    /\ lacking = [r \in SetupRuns |-> {}]
    /\ troubles = 0
    /\ exact = [r \in SetupRuns |-> {}]

Subject(r) == Head(queue[r])
Go(r, stage) == at' = [at EXCEPT ![r] = stage]
Through(r, fs) == queue' = [queue EXCEPT ![r] = Ordered(fs)]
NextFixture(r) == queue' = [queue EXCEPT ![r] = Tail(@)]
Forget(r) == seen' = [seen EXCEPT ![r] = <<>>]

\* Rows changed: which runs have now had an exact fixture.
Witness(newRows) ==
    exact' = [r \in SetupRuns |->
                exact[r] \cup {f \in Fixtures : at[r] # "off" /\ newRows[f] = Generated(setup[r].version)}]

Database == <<rows, meta, exact>>

-----------------------------------------------------------------------------
(* Reading: checkFixtureContent and hashFixtureDatabase read one table after *)
(* the other, each in a statement of its own.                                *)

Reading(r) == at[r] \in {"check", "compare", "recheck"} /\ queue[r] # <<>>

ReadMeta(r) ==
    /\ Reading(r) /\ seen[r] = <<>>
    /\ seen' = [seen EXCEPT ![r] = <<meta[Subject(r)]>>]
    /\ UNCHANGED <<Database, setup, at, queue, lacking, troubles>>

MetaIsOwn(r) == seen[r][1] = setup[r].version

TablesRead(r) == Tail(seen[r])
MeetsAbsent(r) == \E n \in DOMAIN TablesRead(r) : TablesRead(r)[n] = Absent

ReadTable(r) ==
    /\ Reading(r) /\ Len(seen[r]) \in 1 .. Len(SeededTables)
    /\ ~MeetsAbsent(r)
    /\ at[r] = "compare" => MetaIsOwn(r)
    /\ seen' = [seen EXCEPT ![r] = Append(@, rows[Subject(r)][SeededTables[Len(@)]])]
    /\ UNCHANGED <<Database, setup, at, queue, lacking, troubles>>

ReadAll(r) == Reading(r) /\ seen[r] # <<>> /\ (Len(TablesRead(r)) = Len(SeededTables) \/ MeetsAbsent(r))

\* The rows read are those the run's generator makes.
HashMatches(r) ==
    TablesRead(r) = [n \in DOMAIN SeededTables |-> Generated(setup[r].version)[SeededTables[n]]]
MasterMatches(r) == ~MeetsAbsent(r) /\ TablesRead(r)[1] = SharedRows

\* checkFixtureContent: the rows decide, the meta row only names what is wrong with them.
Status(r) ==
    CASE HashMatches(r) -> "current"
      [] ~HashMatches(r) /\ seen[r][1] = NoMeta -> "missing"
      [] ~HashMatches(r) /\ MetaIsOwn(r) -> "drifted"
      [] OTHER -> "stale"

NeedsSeeding(r) == Status(r) # "current" \/ ~MasterMatches(r)

\* The benchmark profile puts up with other facts, not with other master data.
WillNotDo(r) ==
    IF setup[r].mode = "lenient" THEN Status(r) = "missing" \/ ~MasterMatches(r) ELSE NeedsSeeding(r)

Start(r) ==
    /\ at[r] \in {"off", "failed"} /\ setup[r].wanted # {}
    /\ Go(r, "check")
    /\ Through(r, setup[r].wanted) /\ Forget(r)
    /\ lacking' = [lacking EXCEPT ![r] = {}]
    /\ exact' = [exact EXCEPT ![r] = {f \in Fixtures : Exact(r, f)}]
    /\ UNCHANGED <<rows, meta, setup, troubles>>

\* describeFixture of the first check.
Describe(r) ==
    /\ at[r] = "check" /\ ReadAll(r)
    /\ lacking' = [lacking EXCEPT ![r] = IF WillNotDo(r) THEN @ \cup {Subject(r)} ELSE @]
    /\ NextFixture(r) /\ Forget(r)
    /\ UNCHANGED <<Database, setup, at, troubles>>

\* With nothing lacking the run goes on; otherwise it seeds if it may.
Checked(r) ==
    /\ at[r] = "check" /\ queue[r] = <<>>
    /\ Go(r, IF lacking[r] = {} THEN "usable" ELSE IF setup[r].mode = "seed" THEN "create" ELSE "failed")
    /\ Through(r, lacking[r])
    /\ UNCHANGED <<Database, setup, seen, lacking, troubles>>

-----------------------------------------------------------------------------
(* seedFixture, for each lacking fixture.                                    *)

\* The bootstrap statements: IF NOT EXISTS, each committed on its own.
Create(r) ==
    /\ at[r] = "create" /\ queue[r] # <<>>
    /\ rows' = [rows EXCEPT ![Subject(r)] = [t \in Tables |-> IF @[t] = Absent THEN Other ELSE @[t]]]
    /\ Go(r, "compare")
    /\ UNCHANGED <<meta, exact, setup, queue, seen, lacking, troubles>>

NextSeed(r) == Go(r, "create") /\ NextFixture(r)
ToWrite(r) == Go(r, "write") /\ UNCHANGED queue
SeedFails(r) == Go(r, "failed") /\ UNCHANGED queue

\* Faulty: takes the meta row's word for the rows.
KeepByMeta(r) ==
    /\ at[r] = "compare" /\ seen[r] # <<>>
    /\ IF MetaIsOwn(r) THEN NextSeed(r) ELSE ToWrite(r)
    /\ Forget(r)
    /\ UNCHANGED <<Database, setup, lacking, troubles>>

\* Unchanged if the meta row and the rows are the generated ones by now.
KeepOrWrite(r) ==
    /\ at[r] = "compare" /\ seen[r] # <<>>
    /\ MetaIsOwn(r) => ReadAll(r)
    /\ IF ~MetaIsOwn(r) THEN ToWrite(r)
       ELSE IF MeetsAbsent(r) THEN SeedFails(r)
       ELSE IF HashMatches(r) THEN NextSeed(r)
       ELSE ToWrite(r)
    /\ Forget(r)
    /\ UNCHANGED <<Database, setup, lacking, troubles>>

\* writeFixtureRows: one transaction over all tables.
WriteRows(r) ==
    /\ at[r] = "write"
    /\ \A t \in Tables : rows[Subject(r)][t] # Absent
    /\ rows' = [rows EXCEPT ![Subject(r)] = Generated(setup[r].version)]
    /\ Witness(rows')
    /\ Go(r, "forgetMeta")
    /\ UNCHANGED <<meta, setup, queue, seen, lacking, troubles>>

\* A table dropped meanwhile: the transaction is rolled back.
WriteFails(r) ==
    /\ at[r] = "write"
    /\ \E t \in Tables : rows[Subject(r)][t] = Absent
    /\ SeedFails(r)
    /\ UNCHANGED <<Database, setup, seen, lacking, troubles>>

\* writeFixtureMeta: DELETE and INSERT, each committed on its own.
DeleteMeta(r) ==
    /\ at[r] = "forgetMeta"
    /\ meta' = [meta EXCEPT ![Subject(r)] = NoMeta]
    /\ Go(r, "recordMeta")
    /\ UNCHANGED <<rows, exact, setup, queue, seen, lacking, troubles>>

\* The name is the key of the meta table: a row another run put there makes the INSERT fail.
InsertMeta(r) ==
    /\ at[r] = "recordMeta"
    /\ IF meta[Subject(r)] = NoMeta
       THEN meta' = [meta EXCEPT ![Subject(r)] = setup[r].version] /\ NextSeed(r)
       ELSE SeedFails(r) /\ UNCHANGED meta
    /\ UNCHANGED <<rows, exact, setup, seen, lacking, troubles>>

Seeded(r) ==
    /\ at[r] = "create" /\ queue[r] = <<>>
    /\ Go(r, "recheck")
    /\ Through(r, lacking[r])
    /\ UNCHANGED <<Database, setup, seen, lacking, troubles>>

\* The fixtures that were seeded are described again; the others keep their first status.
Recheck(r) ==
    /\ at[r] = "recheck" /\ ReadAll(r)
    /\ IF NeedsSeeding(r) THEN Go(r, "failed") ELSE UNCHANGED at
    /\ NextFixture(r) /\ Forget(r)
    /\ UNCHANGED <<Database, setup, lacking, troubles>>

Done(r) ==
    /\ at[r] = "recheck" /\ queue[r] = <<>>
    /\ Go(r, "usable")
    /\ UNCHANGED <<Database, setup, queue, seen, lacking, troubles>>

-----------------------------------------------------------------------------
\* A statement fails or the process dies; MariaDB rolls an open transaction back.
Fault(r) ==
    /\ troubles < MaxTroubles
    /\ at[r] \notin {"off", "usable", "failed"}
    /\ Go(r, "failed")
    /\ troubles' = troubles + 1
    /\ UNCHANGED <<Database, setup, queue, seen, lacking>>

\* Someone edits, empties or drops a table.
Edit(f, t) ==
    /\ troubles < MaxTroubles /\ rows[f][t] # Absent
    /\ \E left \in {Other, Absent} \ {rows[f][t]} : rows' = [rows EXCEPT ![f][t] = left]
    /\ troubles' = troubles + 1
    /\ UNCHANGED <<meta, exact, setup, at, queue, seen, lacking>>

SeedingStep(r) ==
    \/ Start(r) \/ ReadMeta(r) \/ ReadTable(r) \/ Describe(r) \/ Checked(r)
    \/ Create(r) \/ KeepOrWrite(r) \/ WriteRows(r) \/ WriteFails(r) \/ DeleteMeta(r) \/ InsertMeta(r) \/ Seeded(r)
    \/ Recheck(r) \/ Done(r)

SeedingNext ==
    \/ \E r \in SetupRuns : SeedingStep(r) \/ Fault(r)
    \/ \E f \in Fixtures, t \in Tables : Edit(f, t)

SeedingSpec == SeedingInit /\ [][SeedingNext]_seedingVars

\* A run that failed is run again, and its statements are answered.
SeedingFairness == \A r \in SetupRuns : WF_seedingVars(SeedingStep(r))

-----------------------------------------------------------------------------
(* Correctness.                                                             *)

SeedingTypeOK ==
    /\ setup \in Setups
    /\ rows \in [Fixtures -> [Tables -> Versions \cup {Absent, Other, SharedRows}]]
    /\ meta \in [Fixtures -> Versions \cup {NoMeta}]
    /\ at \in [SetupRuns -> {"off", "check", "create", "compare", "write", "forgetMeta", "recordMeta",
                             "recheck", "usable", "failed"}]
    /\ queue \in [SetupRuns -> Seq(Fixtures)]
    /\ lacking \in [SetupRuns -> SUBSET Fixtures]
    /\ troubles \in 0 .. MaxTroubles
    /\ exact \in [SetupRuns -> SUBSET Fixtures]

\* "make every fixture database hold exactly the generated content" (setup.js): a run that goes
\* on found every fixture exact at some moment since it began, although it reads the tables one
\* by one while other runs and other checkouts reseed them and rows are edited.
UsableIsExact ==
    \A r \in SetupRuns : at[r] = "usable" /\ setup[r].mode # "lenient" => setup[r].wanted \subseteq exact[r]

\* Runs of one checkout get their fixtures, whatever a crash or another run left behind: rows
\* without their meta row, the meta row of other rows, or a half-done seeding of several; and what
\* they get, like any other run, is exact.
SeedingRepairs ==
    /\ []UsableIsExact
    /\ \A r \in SetupRuns :
          setup[r].mode = "seed" /\ setup[r].wanted # {} /\ (\A q \in SetupRuns : setup[q].version = setup[r].version)
              ~> at[r] = "usable"
==============================================================================
