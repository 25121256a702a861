---------------------------- MODULE SchemaRelease ----------------------------
(***************************************************************************)
(* The commands that make a database fit for this release, prepare-schema  *)
(* and upgrade-schema, and the preflight of serve.  Every command may be   *)
(* started more than once and may end at any statement; what a transaction *)
(* has made is kept in its runner until it commits.                        *)
(*                                                                         *)
(* A part is what one script of the schema adds.  Some scripts also fill a *)
(* projection from rows that are already there, in keyset batches; Rows    *)
(* are those rows, in key order, and a row may be malformed.               *)
(***************************************************************************)
EXTENDS Integers, Sequences, FiniteSets

CONSTANTS
    Runners,   \* commands that run at the same time
    MaxRows,   \* rows to be converted, 1 .. MaxRows
    Batch,     \* ingest.batch_items
    MaxRuns    \* commands started in all

VARIABLES
    db,        \* the committed database
    malformed, \* rows no projection accepts
    runner,    \* what each command is doing
    locked,    \* runners that hold the lock of schema changes
    runs,      \* commands started
    upgraded   \* ghost: upgrade commands that have reported success

zvars == <<db, malformed, runner, locked, runs, upgraded>>

VERSION == 20

Rows == 1 .. MaxRows

\* Parts that are filled from existing rows.
Projections == {"bytes", "views", "search", "bootstrap"}

\* What the release before the journal did not have, and release 5 has.
Journalled == {"bytes", "views", "provenance", "attention", "wiki", "zhihu"}

\* The release that brought each later part.
Since ==
    [search |-> 6, reading |-> 7, budget |-> 8, models |-> 9, organization |-> 10,
     reviews |-> 11, ratings |-> 12, reason |-> 13, interests |-> 14, preferences |-> 15,
     bootstrap |-> 16, methods |-> 17, schedule |-> 18, terms_once |-> 19,
     automatic_read |-> 20, later |-> 21]

\* The parts of release v.
Release(v) == {"base"} \cup Journalled \cup {p \in DOMAIN Since : Since[p] <= v}

Idle == [stage |-> "idle", serves |-> FALSE, seen |-> 0, todo |-> << >>, made |-> {},
         part |-> "none", filled |-> {}, at |-> 0]

Occupied == db.parts # {}

\* The newest release of the journal, 0 without a journal.
Newest == IF db.releases = {} THEN 0 ELSE CHOOSE v \in db.releases : \A w \in db.releases : w <= v

\* An empty database, one from before the journal, or one of any release, the
\* next one included: an old image may be started on a newer database.
Init ==
    /\ db \in {[releases |-> {}, parts |-> {}, filled |-> {}],
               [releases |-> {}, parts |-> {"base"}, filled |-> {}]}
              \cup {[releases |-> {v}, parts |-> Release(v),
                     filled |-> (Projections \cap Release(v)) \X Rows] : v \in 5 .. 21}
    /\ malformed \in {{}, {MaxRows}}
    /\ runner = [r \in Runners |-> Idle]
    /\ locked = {} /\ runs = 0 /\ upgraded = 0

begin(r, stage, serves) ==
    /\ runner[r].stage = "idle"
    /\ runs < MaxRuns
    /\ runs' = runs + 1
    /\ runner' = [runner EXCEPT ![r] =
                   [Idle EXCEPT !.stage = stage, !.seen = Newest, !.serves = serves]]

\* The scripts execute_schema runs on an empty database.
execute_schema ==
    << {"base", "provenance", "attention", "bytes", "views"}, {"zhihu"}, {"wiki"},
       {"organization"}, {"search"}, {"reading"}, {"budget"}, {"models"}, {"reviews"},
       {"ratings", "reason"}, {"interests"}, {"preferences"}, {"bootstrap"}, {"methods"},
       {"schedule"}, {"terms_once"}, {"automatic_read"} >>

\* Each later script with the releases it is run for.
chain ==
    << <<{"search"}, 5 .. 5>>, <<{"reading"}, 5 .. 6>>, <<{"budget"}, 5 .. 7>>,
       <<{"models"}, 5 .. 8>>, <<{"organization"}, 5 .. 9>>, <<{"reviews"}, 5 .. 10>>,
       <<{"ratings", "reason"}, 5 .. 11>>, <<{"reason"}, 12 .. 12>>, <<{"interests"}, 5 .. 13>>,
       <<{"preferences"}, 5 .. 14>>, <<{"bootstrap"}, 5 .. 15>>, <<{"methods"}, 5 .. 16>>,
       <<{"schedule"}, 5 .. 17>>, <<{"terms_once"}, 5 .. 18>>,
       <<{"automatic_read"}, 5 .. 19>> >>

\* The scripts of an upgrade, the reason column forgotten for ratings without it.
upgrade_steps_unreasoned(previous) ==
    LET due(c) == previous \in c[2] /\ c[1] # {"reason"}
        scripts == SelectSeq(chain, due)
    IN  [i \in DOMAIN scripts |-> scripts[i][1]]

\* The scripts upgrade_schema runs from a release of the journal.
upgrade_steps(previous) ==
    LET due(c) == previous \in c[2]
        scripts == SelectSeq(chain, due)
    IN  [i \in DOMAIN scripts |-> scripts[i][1]]

\* The scripts upgrade_schema runs from the release before the journal.
unversioned_steps ==
    << {"bytes"}, {"views"}, {"provenance"}, {"attention"}, {"wiki"}, {"organization"},
       {"zhihu"}, {"search"}, {"reading"}, {"budget"}, {"models"}, {"reviews"},
       {"ratings", "reason"}, {"interests"}, {"preferences"}, {"bootstrap"}, {"methods"},
       {"schedule"}, {"terms_once"}, {"automatic_read"} >>

\* A command ends, by an error or by a crash: its transaction is rolled back.
ends(r) ==
    /\ runner' = [runner EXCEPT ![r] = Idle]
    /\ locked' = locked \ {r}
    /\ UNCHANGED <<db, malformed, runs, upgraded>>

crash(r) == runner[r].stage \notin {"idle"} /\ ends(r)

\* prepare_schema: a database with a journal is only verified.
prepare_schema(r) ==
    /\ begin(r, IF db.releases = {} THEN "prepare" ELSE "version", FALSE)
    /\ UNCHANGED <<db, malformed, locked, upgraded>>

\* Under the advisory lock an occupied database is refused.
prepare_locked(r) ==
    /\ runner[r].stage = "prepare"
    /\ locked = {}
    /\ IF Occupied
       THEN ends(r)
       ELSE /\ locked' = {r}
            /\ runner' = [runner EXCEPT ![r].stage = "script", ![r].todo = execute_schema]
            /\ UNCHANGED <<db, malformed, runs, upgraded>>

\* upgrade_schema, up to its wait for a lock.  The row of the newest release is
\* chosen before the wait, and is not read again after it.
upgrade_schema(r) ==
    /\ begin(r, "upgrade", FALSE)
    /\ UNCHANGED <<db, malformed, locked, upgraded>>

upgrade_locked(r) ==
    /\ runner[r].stage = "upgrade"
    /\ locked = {}
    /\ LET previous == runner[r].seen
       IN  IF \/ previous # 0 /\ previous \notin 5 .. 19
              \/ previous = 0 /\ (db.releases # {} \/ ~ Occupied)
           THEN ends(r)
           ELSE /\ locked' = {r}
                /\ runner' = [runner EXCEPT
                       ![r].stage = "script",
                       ![r].todo = IF previous = 0 THEN unversioned_steps
                                                   ELSE upgrade_steps(previous)]
                /\ UNCHANGED <<db, malformed, runs, upgraded>>

\* Scripts that may be run on a database that has them.
Repeatable == {"automatic_read"}

\* The next script; a table that is there already fails it.
script(r) ==
    /\ runner[r].stage = "script"
    /\ runner[r].todo # << >>
    /\ LET parts == Head(runner[r].todo)
           filling == Occupied /\ parts \cap Projections # {}
       IN  IF parts \cap db.parts # {} /\ ~ (parts \subseteq Repeatable)
           THEN ends(r)
           ELSE /\ runner' = [runner EXCEPT
                       ![r].todo = Tail(@), ![r].made = @ \cup parts, ![r].at = 0,
                       ![r].stage = IF filling THEN "fill" ELSE "script",
                       ![r].part = IF filling THEN CHOOSE p \in parts : TRUE ELSE "none"]
                /\ UNCHANGED <<db, malformed, locked, runs, upgraded>>

\* Up to Batch rows after the last one.
batch_after(at) == {i \in Rows : at < i /\ i <= at + Batch}

\* The key of the last row read.
next_cursor(rows) == CHOOSE i \in rows : \A j \in rows : j <= i

\* One keyset batch of a projection.  A malformed row fails the command.
fill(r) ==
    /\ runner[r].stage = "fill"
    /\ LET rows == batch_after(runner[r].at)
       IN  IF rows \cap malformed # {} THEN ends(r)
           ELSE /\ runner' = IF rows = {}
                             THEN [runner EXCEPT ![r].stage = "script"]
                             ELSE [runner EXCEPT ![r].at = next_cursor(rows),
                                                 ![r].filled = @ \cup ({runner[r].part} \X rows)]
                /\ UNCHANGED <<db, malformed, locked, runs, upgraded>>

\* INSERT INTO schema_releases: the version is the primary key.
journal(v) == v \notin db.releases

\* The release is entered and the transaction commits; upgrade-schema verifies.
commit(r) ==
    /\ runner[r].stage = "script"
    /\ runner[r].todo = << >>
    /\ IF ~ journal(VERSION) THEN ends(r)
       ELSE /\ db' = [releases |-> db.releases \cup {VERSION},
                      parts |-> db.parts \cup runner[r].made,
                      filled |-> db.filled \cup IF Occupied THEN runner[r].filled
                                                ELSE Projections \X Rows]
            /\ upgraded' = IF Occupied THEN upgraded + 1 ELSE upgraded
            /\ runner' = [runner EXCEPT ![r] = IF Occupied THEN [Idle EXCEPT !.stage = "version"]
                                                           ELSE Idle]
            /\ locked' = {}
            /\ UNCHANGED <<malformed, runs>>

\* main: serve verifies the schema before it builds anything.
serve(r) ==
    /\ begin(r, "version", TRUE)
    /\ UNCHANGED <<db, malformed, locked, upgraded>>

\* The newest release of the journal is the one of this application.
matches == Newest = VERSION

\* verify_schema, the journal
verify_version(r) ==
    /\ runner[r].stage = "version"
    /\ IF matches
       THEN /\ runner' = [runner EXCEPT ![r].stage = "physical"]
            /\ UNCHANGED <<db, malformed, locked, runs, upgraded>>
       ELSE ends(r)

\* verify_schema, the tables and columns every part must have left
verify_physical(r) ==
    /\ runner[r].stage = "physical"
    /\ IF Release(VERSION) \subseteq db.parts /\ runner[r].serves
       THEN /\ runner' = [runner EXCEPT ![r].stage = "serving"]
            /\ UNCHANGED <<db, malformed, locked, runs, upgraded>>
       ELSE ends(r)

Next ==
    \E r \in Runners :
        \/ prepare_schema(r) \/ prepare_locked(r)
        \/ upgrade_schema(r) \/ upgrade_locked(r)
        \/ script(r) \/ fill(r) \/ commit(r)
        \/ serve(r) \/ verify_version(r) \/ verify_physical(r)
        \/ crash(r)

Spec == Init /\ [][Next]_zvars

\* The database is always one release, whole: whatever release it comes from and
\* wherever a command fails, dies or meets another one, the parts are those of the
\* newest release of the journal and every projection covers every row.
WholeRelease ==
    /\ Newest # 0 => /\ db.parts = Release(Newest)
                     /\ db.filled = (Projections \cap db.parts) \X Rows
    /\ Newest = 0 => db.parts \in {{}, {"base"}} /\ db.filled = {}

\* A database is upgraded once: of several upgrade commands, started together or
\* one after the other, only one reports success.
UpgradedOnce == upgraded <= 1

\* Listeners and workers run only on the schema of this release.
ServesRelease ==
    (\E r \in Runners : runner[r].stage = "serving") =>
        Newest = VERSION /\ db.parts = Release(VERSION)

=============================================================================
