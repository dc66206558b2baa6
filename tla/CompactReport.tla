----------------------------- MODULE CompactReport -----------------------------
(***************************************************************************)
(* The compact form of a recorded repetition (compact-report.js), which is     *)
(* what a committed baseline holds, and what its readers put back              *)
(* (finalAttemptSql, restoreSharedCallUsage and stripAttribution of            *)
(* rescore.js, summarizeRunUsage of stats.js).  The same repetition is kept     *)
(* twice: whole, and as the baseline holds it; both are rescored on the same     *)
(* days, and the second is compacted again at any time.                        *)
(*                                                                         *)
(* A repetition has the fields of Rescore and its final SQL, usage and cost, an  *)
(* attempt those of its completion too.  A usage stands for its token counts    *)
(* and what no reader sums; a cost for its total and its parts.                *)
(***************************************************************************)
EXTENDS Rescore

CONSTANTS
    Repetitions,    \* repetitions as a live run records them
    Dates,          \* the days on which they are rescored
    Safe            \* Safe[q]: the SQL that is run for q

VARIABLES
    full,           \* the repetition of report.json
    baseline        \* the same repetition as the baseline holds it

compactVars == <<full, baseline>>

-----------------------------------------------------------------------------
\* A value of a report: absent, null, or with a part that is read and one that is not.
Unset == [is |-> "absent", read |-> 0, other |-> 0]
NullValue == [Unset EXCEPT !.is = "null"]
Value(read, other) == [is |-> "some", read |-> read, other |-> other]

IsValue(value) == value \in {Unset, NullValue} \/ value = Value(value.read, value.other)
IsAttempt(attempt) ==
    /\ attempt = [sql |-> attempt.sql, mark |-> attempt.mark, usage |-> attempt.usage, cost |-> attempt.cost]
    /\ IsValue(attempt.usage) /\ IsValue(attempt.cost)
IsRepetition(r) ==
    /\ r = [status |-> r.status, replayTruncated |-> r.replayTruncated, inherited |-> r.inherited, attempts |-> r.attempts,
             final |-> r.final, shared |-> r.shared, usage |-> r.usage, cost |-> r.cost]
    /\ r.attempts \in Seq(Range(r.attempts)) /\ \A i \in DOMAIN r.attempts : IsAttempt(r.attempts[i])
    /\ r.shared \in {0} \cup DOMAIN r.attempts
    /\ IsValue(r.usage) /\ IsValue(r.cost)

ASSUME CompactAssumption == \A r \in Repetitions : IsRepetition(r) /\ r.shared = 0

\* compactUsage and compactCost
ReadPart(value) == [value EXCEPT !.other = 0]

OrNull(value) == IF value = Unset THEN NullValue ELSE value

\* The last SQL of the first n attempts, or what stands for none.
LastSql(attempts, n, none) ==
    LET with == {i \in DOMAIN attempts : i <= n /\ HasSql(attempts[i])}
    IN  IF with = {} THEN none ELSE attempts[Max(with)].sql

FinalAttemptSql(attempts) == LastSql(attempts, Len(attempts), NoSql)

IsCalled(attempt) == attempt.usage # Unset \/ attempt.cost # Unset

\* Faulty: the only call with a usage is taken for the only call.
SharedWithAnyCall(r, attempt) == TRUE

\* The call's figures are those of the repetition.
IsShared(r, attempt) ==
    /\ OrNull(attempt.usage) = OrNull(r.usage)
    /\ OrNull(attempt.cost).is = "null" => OrNull(r.cost).is = "null"
    /\ OrNull(attempt.cost).is # "null" => r.cost.is = "some" /\ attempt.cost.read = r.cost.read

\* shareSingleCallUsage: shared is the attempt whose figures are at the repetition only, 0 for none.
ShareSingleCallUsage(r) ==
    LET called == {i \in DOMAIN r.attempts : IsCalled(r.attempts[i])}
        one == CHOOSE i \in called : TRUE
    IN  IF r.shared # 0 \/ Cardinality(called) # 1 \/ ~IsShared(r, r.attempts[one]) THEN r
        ELSE [r EXCEPT !.shared = one, !.attempts[one].usage = Unset, !.attempts[one].cost = Unset]

\* compactRepetition
Compacted(r) ==
    LET attempts == [i \in DOMAIN r.attempts |->
            [r.attempts[i] EXCEPT !.usage = ReadPart(@), !.cost = ReadPart(@)]]
        short == [r EXCEPT !.attempts = attempts, !.usage = ReadPart(@), !.cost = ReadPart(@),
                           !.final = IF @ = FinalAttemptSql(attempts) THEN "absent" ELSE @]
    IN  ShareSingleCallUsage(short)

\* restoreSharedCallUsage and stripAttribution
Restored(r) ==
    LET back == IF r.shared = 0 THEN r
                ELSE [r EXCEPT !.attempts[r.shared].usage = OrNull(r.usage),
                               !.attempts[r.shared].cost = IF r.cost.is = "some" THEN ReadPart(r.cost) ELSE NullValue]
    IN  [back EXCEPT !.shared = 0, !.final = IF @ = "absent" THEN FinalAttemptSql(r.attempts) ELSE @]

-----------------------------------------------------------------------------
\* What a rescore says the repetition's SQL is.
FinalSql(day, r) ==
    LET verdicts == Replay(day, AsRecorded(r.attempts))
        last == Last(verdicts)
    IN  IF ~IsReplayed(day, r) \/ last = "gold" THEN r.final
        ELSE CASE last \in {"match", "mismatch", "infra_elsewhere"} -> Safe[r.attempts[Len(verdicts)].sql]
               [] last = "clarify" -> NoSql
               [] OTHER -> LastSql(r.attempts, Len(verdicts), r.final)

RescoredInFull(day, r) ==
    LET whole == Restored(r) IN [Rescored(day, whole) EXCEPT !.final = FinalSql(day, whole)]

CompactInit == full \in Repetitions /\ baseline = full

\* compactReport takes any report; --write-baseline gives it a live one.
WriteBaseline == baseline' = Compacted(baseline) /\ UNCHANGED full

RescoreBoth ==
    \E day \in Dates : full' = RescoredInFull(day, full) /\ baseline' = RescoredInFull(day, baseline)

CompactNext == WriteBaseline \/ RescoreBoth
CompactSpec == CompactInit /\ [][CompactNext]_compactVars

-----------------------------------------------------------------------------
\* What the statistics, the comparison and the attribution read of a repetition, as it is.
Read(r) ==
    [status |-> r.status, inherited |-> r.inherited, truncated |-> r.replayTruncated,
     tokens |-> OrNull(r.usage).read, asked |-> OrNull(r.usage).is, total |-> OrNull(r.cost).read, priced |-> OrNull(r.cost).is,
     attempts |-> [i \in DOMAIN r.attempts |-> <<r.attempts[i].sql, r.attempts[i].mark>>],
     sql |-> r.final \notin {"absent", NoSql} \/ \E i \in DOMAIN r.attempts : HasSql(r.attempts[i])]

\* What a rescore puts back into it.
Figures(r) ==
    LET whole == Restored(r) IN
    <<whole.final, [i \in DOMAIN r.attempts |->
        <<ReadPart(OrNull(whole.attempts[i].usage)), ReadPart(OrNull(whole.attempts[i].cost))>>]>>

\* A baseline serves its readers as the whole report would: however often it was compacted and
\* rescored in between, it has the same status, totals and attempts, a rescore finds the same final
\* SQL and the same figures of every call in it ("a rescore of a compact report gives the same
\* outcomes and statistics as a rescore of the full one"), and compacting it again changes nothing.
BaselineReadsAsReport ==
    /\ Read(baseline) = Read(full)
    /\ Figures(baseline) = Figures(full)
    /\ Compacted(Compacted(baseline)) = Compacted(baseline)
=============================================================================
