------------------------------- MODULE Rescore -------------------------------
(***************************************************************************)
(* Judging a recorded report again without the model: rescoreRepetition and   *)
(* rescoreReportCases of src/eval/rescore.js.  A report may be the output of   *)
(* an earlier rescore, made on a day with another validator, another gold or   *)
(* a database that was down.  Cases that expect no answer are returned as they  *)
(* are, and left out.                                                         *)
(*                                                                         *)
(* A day says what becomes of each SQL: judge[q] is "rejected", "scope" (a     *)
(* TABLE_SCOPE rejection that widening lifts), "match", "mismatch",            *)
(* "execution_error", "infra" (the primary fixture), "infra_elsewhere" or      *)
(* "gold" (a gold query failing during the score).                            *)
(***************************************************************************)
EXTENDS Naturals, Sequences, SequencesExt, FiniteSetsExt, Functions

CONSTANTS
    Recordings,     \* reports of live runs: [status, attempts], an attempt being [sql, mark]
    Days,           \* [gold, prompt, widens, judge]
    NoSql,          \* an attempt whose completion failed
    Clarify,        \* an attempt that ended in a clarify or abstain decision
    MaxAttempts,    \* maxRetries + 1
    MaxRescores     \* bound: rescores in a row

Executed == {"pass", "result_mismatch", "retrieval_miss"}
Kept == {"skipped_budget", "cancelled", "evaluation_error"}
CutShort == {"aborted", "infra_error"}
Verdicts == {"rejected", "scope", "match", "mismatch", "execution_error", "infra", "infra_elsewhere", "gold"}

HasSql(attempt) == attempt.sql \notin {NoSql, Clarify}

\* A clarify or abstain decision is the outcome of its repetition.
ASSUME RescoreAssumption ==
    /\ NoSql # Clarify /\ MaxRescores \in Nat
    /\ \A r \in Recordings :
          /\ r.attempts \in Seq(Range(r.attempts))
          /\ \A i \in DOMAIN r.attempts :
                /\ r.attempts[i] = [sql |-> r.attempts[i].sql, mark |-> "none"]
                /\ r.attempts[i].sql = Clarify => r.status \in {"clarify"} \cup Kept \cup CutShort
                /\ HasSql(r.attempts[i]) =>
                       \A day \in Days :
                          r.attempts[i].sql \in DOMAIN day.judge /\ day.judge[r.attempts[i].sql] \in Verdicts

VARIABLES recording, report, days

rescoreVars == <<recording, report, days>>

RescoreInit ==
    /\ recording \in Recordings
    /\ report = [status |-> recording.status, attempts |-> recording.attempts, replayTruncated |-> FALSE, inherited |-> FALSE]
    /\ days = <<>>

\* asRecordedAttempt: a previous replay's mark is dropped.
AsRecorded(attempts) == [i \in DOMAIN attempts |-> [attempts[i] EXCEPT !.mark = "none"]]

-----------------------------------------------------------------------------
\* Attempt i meets a prompt that an earlier rejection widened.
Widened(day, attempts, i) ==
    day.widens /\ \E j \in 1 .. i - 1 : HasSql(attempts[j]) /\ day.judge[attempts[j].sql] = "scope"

\* What attempt i comes to.
Judged(day, attempts, i) ==
    LET q == attempts[i].sql IN
    IF ~HasSql(attempts[i]) THEN IF q = Clarify THEN "clarify" ELSE "llm"
    ELSE IF day.judge[q] = "scope" THEN IF Widened(day, attempts, i) THEN "match" ELSE "scope"
    ELSE day.judge[q]

Ends == {"clarify", "match", "mismatch", "infra", "infra_elsewhere", "gold"}

\* How many of the recorded attempts the loop reaches.
ReachedCount(day, attempts) ==
    LET ends == {i \in DOMAIN attempts : Judged(day, attempts, i) \in Ends} IN
    IF ends = {} THEN Len(attempts) ELSE Min(ends)

\* The loop over the recorded attempts: the verdicts of those it reached.
Replay(day, attempts) == [i \in 1 .. ReachedCount(day, attempts) |-> Judged(day, attempts, i)]

\* Faulty: the report keeps only what was replayed.
MarkedReached(attempts, verdicts) == [i \in DOMAIN verdicts |-> [attempts[i] EXCEPT !.mark = "reached"]]

\* base.attempts: every recorded attempt stays, marked by whether the replay reached it.
Marked(attempts, verdicts) ==
    [i \in DOMAIN attempts |-> [attempts[i] EXCEPT !.mark = IF i \in DOMAIN verdicts THEN "reached" ELSE "not_reached"]]

FinalStatus(v) ==
    CASE v = "match" -> "pass"
      [] v = "mismatch" -> "result_mismatch"
      [] v \in {"infra", "infra_elsewhere"} -> "infra_error"
      [] v = "clarify" -> "clarify"
      [] v = "llm" -> "llm_error"
      [] v \in {"rejected", "scope"} -> "validation_error"
      [] v = "execution_error" -> "execution_error"

Ending(r, status, inherited) == [r EXCEPT !.status = status, !.inherited = inherited, !.replayTruncated = FALSE]

\* goldErrorRepetition
GoldError(r) == Ending(r, "expected_sql_error", FALSE)

\* The repetition after its replay.  A replay that an outage of the primary fixture stopped has no
\* score: like one that ran out of attempts, it may have ended before today's loop would have.
Replayed(r, attempts, verdicts) ==
    LET last == Last(verdicts)
        base == [r EXCEPT !.attempts = Marked(attempts, verdicts)]
    IN  CASE last = "gold" -> GoldError(r)
          [] last \in {"match", "mismatch", "infra_elsewhere"} -> Ending(base, FinalStatus(last), FALSE)
          [] last = "clarify" -> Ending(base, "clarify", TRUE)
          [] last \notin Ends /\ r.status \in CutShort -> Ending(base, r.status, TRUE)
          [] OTHER -> [Ending(base, FinalStatus(last), last = "llm" /\ r.status = "llm_error")
                          EXCEPT !.replayTruncated = r.status \in Executed /\ Len(verdicts) < MaxAttempts]

NothingToReplay(r) ==
    \/ r.status \in Kept \/ r.attempts = <<>>
    \/ r.status = "clarify" /\ \A i \in DOMAIN r.attempts : ~HasSql(r.attempts[i])
IsReplayed(day, r) == day.gold /\ day.prompt /\ ~NothingToReplay(r)

\* rescoreReportCases (the gold first) and rescoreRepetition.
Rescored(day, r) ==
    LET attempts == AsRecorded(r.attempts) IN
    IF IsReplayed(day, r) THEN Replayed(r, attempts, Replay(day, attempts))
    ELSE IF ~day.gold THEN GoldError(r)
    ELSE IF NothingToReplay(r) THEN Ending(r, r.status, TRUE)
    ELSE Ending(r, "infra_error", FALSE)

RescoreReport(day) ==
    /\ Len(days) < MaxRescores
    /\ report' = Rescored(day, report)
    /\ days' = Append(days, day)
    /\ UNCHANGED recording

RescoreNext == \E day \in Days : RescoreReport(day)

RescoreSpec == RescoreInit /\ [][RescoreNext]_rescoreVars

-----------------------------------------------------------------------------
\* A day that hides what it should have judged: its gold or its database failed.
Outage(day) == ~day.gold \/ ~day.prompt \/ \E q \in DOMAIN day.judge : day.judge[q] \in {"infra", "infra_elsewhere", "gold"}

\* Rescoring a rescore is rescoring the recording: whatever validators judged it in between, the
\* retries that they did not reach are still there, and today's verdict and replay are those that a
\* direct rescore gives.  (An outage in between, and a recording that was cut short, leave a trace.)
RescoreStable ==
    days # <<>> /\ recording.status \notin CutShort /\ (\A i \in 1 .. Len(days) - 1 : ~Outage(days[i])) =>
        LET direct == Rescored(Last(days), [report EXCEPT !.status = recording.status, !.attempts = recording.attempts]) IN
        /\ report.status = direct.status
        /\ AsRecorded(report.attempts) = recording.attempts
        /\ Outage(Last(days)) \/ report.attempts = direct.attempts
=============================================================================
