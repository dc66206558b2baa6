----------------------------- MODULE QueryStream -----------------------------
(***************************************************************************)
(* The question stream of the web client (createQueryStream in               *)
(* client/lib/query-stream.ts, streamReducer in lib/stream-protocol.ts, the  *)
(* page in App.tsx) with the frames the server sends (streamResultFrames and *)
(* the streaming route in server/index.js).                                  *)
(*                                                                         *)
(* A run is named by its request id.  The network may deliver the frames of  *)
(* a run in any pieces, lose the connection, or answer a request whose abort *)
(* it ignored.  React is external: dispatched actions queue up; urgent ones  *)
(* may be rendered before transitions (rows, viz), which are rendered in     *)
(* their place later.  Stage, layout, residency, insight and debug frames    *)
(* only fill fields of their own and are left out.                           *)
(***************************************************************************)
EXTENDS Naturals, Sequences, FiniteSetsExt

CONSTANT MaxId    \* bound on requestId: the number of questions and clears

ASSUME StreamAssumption == MaxId \in Nat

VARIABLES
    active,    \* the run whose controller is active, or 0
    aborted,   \* runs whose controller was aborted
    lastId,    \* requestId
    pc,        \* a run: "none", "fetching", "errorBody", "reading", "over"
    kind,      \* how the server answers it
    wire,      \* its frames that have not been read
    terminal,  \* runs that have seen a terminal frame (sawTerminal)
    dispatched, \* actions that React has not applied
    baseState,      \* the reducer's state before them
    shown,     \* the state that is rendered
    recent,    \* recentQueries, as the runs that asked them
    mounted,   \* the page is there
    cleared    \* history: the request id of the last clear

streamVars == <<active, aborted, lastId, pc, kind, wire, terminal, dispatched, baseState, shown, recent,
                mounted, cleared>>

Runs == 1 .. MaxId
Parts == {"sql", "decision", "columns", "rows", "viz"}

\* initialStreamState; "parts" are the sections that have been filled, and by which run.
Idle0 == [id |-> 0, status |-> "idle", success |-> FALSE, parts |-> {}]

-----------------------------------------------------------------------------
(* The server's frames of an answer, and of a failed one.                   *)

Kinds == {"result", "decision", "failure", "setupFailure", "notOk"}
Frames ==
    [k \in Kinds |->
        CASE k = "result"        -> <<"sql", "columns", "rows", "viz", "metrics", "done">>
          [] k = "decision"      -> <<"decision", "metrics", "done">>
          [] k = "failure"       -> <<"sql", "columns", "rows", "viz", "metrics", "error", "done">>
          [] k = "setupFailure"  -> <<"error", "done">>
          [] k = "notOk"         -> <<>>]

\* The sql frame of an attempt, before the answer.
EarlyFrames == {<<>>, <<"sql">>}

-----------------------------------------------------------------------------
(* The reducer.                                                             *)

\* A frame, or the Stop button, for the run that is shown.
Filled(s, a) ==
    CASE a.event \in Parts -> [s EXCEPT !.parts = @ \cup {<<a.event, a.id>>}]
      [] a.event = "metrics" -> [s EXCEPT !.success = TRUE]
      [] a.event \in {"error", "transportError"} ->
            [s EXCEPT !.status = "error", !.success = FALSE]
      [] a.event = "done" ->
            [s EXCEPT !.status = IF @ = "error" THEN @ ELSE "done", !.success = s.status # "error"]
      [] a.event = "cancelled" ->
            [s EXCEPT !.status = IF \E p \in s.parts : p[1] = "columns" THEN "done" ELSE "idle"]

\* What is for another run than the one shown is ignored, unless it changes that.
Reduce(s, a) ==
    CASE a.event = "reset" -> [Idle0 EXCEPT !.id = a.id]
      [] a.event = "start" -> [Idle0 EXCEPT !.id = a.id, !.status = "streaming"]
      [] a.event \notin {"reset", "start"} -> IF a.id = s.id THEN Filled(s, a) ELSE s

Transitions == {"rows", "viz"}

\* The actions one after the other, those of deferred events left out.
Applied(s, actions, deferred) ==
    LET after[i \in 0 .. Len(actions)] ==
            IF i = 0 THEN s
            ELSE IF actions[i].event \in deferred THEN after[i - 1] ELSE Reduce(after[i - 1], actions[i])
    IN  after[Len(actions)]

StreamInit ==
    /\ active = 0 /\ aborted = {} /\ lastId = 0
    /\ pc = [r \in Runs |-> "none"]
    /\ kind \in [Runs -> Kinds]
    /\ wire = [r \in Runs |-> <<>>]
    /\ terminal = {}
    /\ dispatched = <<>> /\ baseState = Idle0 /\ shown = Idle0
    /\ recent = {} /\ mounted = TRUE /\ cleared = 0

Abort(r) == aborted' = aborted \cup ({r} \ {0})

\* current(): false as soon as the run is replaced, cancelled, cleared or disposed of.
Current(r) == active = r /\ r \notin aborted

\* emit(): only a current run dispatches, under its own id.
Emit(r, events) ==
    dispatched' = IF Current(r) THEN dispatched \o [i \in 1 .. Len(events) |-> [event |-> events[i], id |-> r]]
                           ELSE dispatched

\* run() returns, and executeQuery adds the question to the recent ones if it completed.
Return(r, completed) ==
    /\ pc' = [pc EXCEPT ![r] = "over"]
    /\ recent' = IF completed THEN recent \cup {r} ELSE recent

-----------------------------------------------------------------------------
(* The page's buttons.                                                      *)

\* executeQuery and run() up to its first await.  What blocks a second question is the
\* rendered status, so two may be started before React renders.
Ask ==
    /\ mounted /\ lastId < MaxId /\ shown.status # "streaming"
    /\ lastId' = lastId + 1
    /\ active' = lastId + 1
    /\ Abort(active)
    /\ pc' = [pc EXCEPT ![lastId + 1] = "fetching"]
    /\ dispatched' = Append(dispatched, [event |-> "start", id |-> lastId + 1])
    /\ UNCHANGED <<kind, wire, terminal, baseState, shown, recent, mounted, cleared>>

\* The Stop button, which is there while the rendered status is streaming.
Cancel ==
    /\ mounted /\ shown.status = "streaming" /\ active # 0
    /\ active' = 0
    /\ Abort(active)
    /\ dispatched' = Append(dispatched, [event |-> "cancelled", id |-> lastId])
    /\ UNCHANGED <<lastId, pc, kind, wire, terminal, baseState, shown, recent, mounted, cleared>>

\* clearSession: state and history are emptied, and the run in hand is stale from here on.
Clear ==
    /\ mounted /\ lastId < MaxId
    /\ lastId' = lastId + 1
    /\ active' = 0
    /\ Abort(active)
    /\ dispatched' = Append(dispatched, [event |-> "reset", id |-> lastId + 1])
    /\ recent' = {}
    /\ cleared' = lastId + 1
    /\ UNCHANGED <<pc, kind, wire, terminal, baseState, shown, mounted>>

\* The page goes: dispose().
Dispose ==
    /\ mounted
    /\ mounted' = FALSE
    /\ active' = 0
    /\ Abort(active)
    /\ UNCHANGED <<lastId, pc, kind, wire, terminal, dispatched, baseState, shown, recent, cleared>>

-----------------------------------------------------------------------------
(* The run in hand, await by await.                                         *)

\* fetch() resolves with a response.
Respond(r) ==
    /\ pc[r] = "fetching"
    /\ IF ~Current(r)
       THEN Return(r, FALSE) /\ UNCHANGED wire
       ELSE /\ pc' = [pc EXCEPT ![r] = IF kind[r] = "notOk" THEN "errorBody" ELSE "reading"]
            /\ \E early \in EarlyFrames :
                  wire' = [wire EXCEPT ![r] =
                              IF kind[r] \in {"result", "failure"} THEN early \o Frames[kind[r]]
                                                                 ELSE Frames[kind[r]]]
            /\ UNCHANGED recent
    /\ UNCHANGED <<active, aborted, lastId, kind, terminal, dispatched, baseState, shown, mounted, cleared>>

\* The body of an HTTP error has been read, or was not JSON.
ErrorBody(r) ==
    /\ pc[r] = "errorBody"
    /\ Emit(r, <<"error", "done">>)
    /\ Return(r, Current(r))
    /\ UNCHANGED <<active, aborted, lastId, kind, wire, terminal, baseState, shown, mounted, cleared>>

\* One read(): the next n frames, dispatched in one go.
Read(r) ==
    /\ pc[r] = "reading"
    /\ IF ~Current(r)
       THEN Return(r, FALSE) /\ UNCHANGED <<wire, terminal, dispatched>>
       ELSE \E n \in 1 .. Len(wire[r]) :
              LET events == SubSeq(wire[r], 1, n) IN
              /\ wire' = [wire EXCEPT ![r] = SubSeq(@, n + 1, Len(@))]
              /\ terminal' = IF \E i \in 1 .. n : events[i] \in {"done", "error"}
                             THEN terminal \cup {r} ELSE terminal
              /\ Emit(r, events)
              /\ UNCHANGED <<pc, recent>>
    /\ UNCHANGED <<active, aborted, lastId, kind, baseState, shown, mounted, cleared>>

\* Faulty: takes the end of the stream for the end of the answer.
EndOfStreamIsEnough(r) ==
    /\ pc[r] = "reading"
    /\ UNCHANGED dispatched
    /\ Return(r, Current(r))
    /\ UNCHANGED <<active, aborted, lastId, kind, wire, terminal, baseState, shown, mounted, cleared>>

\* The stream ends, after the last frame or before it.
EndOfStream(r) ==
    /\ pc[r] = "reading"
    /\ Emit(r, IF r \in terminal THEN <<>> ELSE <<"transportError">>)
    /\ Return(r, Current(r) /\ r \in terminal)
    /\ UNCHANGED <<active, aborted, lastId, kind, wire, terminal, baseState, shown, mounted, cleared>>

\* fetch() or read() rejects: a network failure at any point, or the abort.
Fail(r) ==
    /\ pc[r] \in {"fetching", "reading"}
    /\ Emit(r, <<"transportError">>)
    /\ Return(r, FALSE)
    /\ UNCHANGED <<active, aborted, lastId, kind, wire, terminal, baseState, shown, mounted, cleared>>

-----------------------------------------------------------------------------
(* React.                                                                   *)

\* Urgent updates only: transitions are left out for now, and rendered in their place later.
RenderUrgent ==
    /\ mounted
    /\ shown' = Applied(baseState, dispatched, Transitions)
    /\ LET later == {i \in 1 .. Len(dispatched) : dispatched[i].event \in Transitions}
           n == IF later = {} THEN Len(dispatched) ELSE Min(later) - 1
       IN  /\ baseState' = Applied(baseState, SubSeq(dispatched, 1, n), {})
           /\ dispatched' = SubSeq(dispatched, n + 1, Len(dispatched))
    /\ UNCHANGED <<active, aborted, lastId, pc, kind, wire, terminal, recent, mounted, cleared>>

RenderAll ==
    /\ mounted /\ dispatched # <<>>
    /\ baseState' = Applied(baseState, dispatched, {})
    /\ shown' = baseState'
    /\ dispatched' = <<>>
    /\ UNCHANGED <<active, aborted, lastId, pc, kind, wire, terminal, recent, mounted, cleared>>

StreamNext ==
    \/ Ask \/ Cancel \/ Clear \/ Dispose
    \/ \E r \in Runs : Respond(r) \/ ErrorBody(r) \/ Read(r) \/ EndOfStream(r) \/ Fail(r)
    \/ RenderUrgent \/ RenderAll

StreamSpec == StreamInit /\ [][StreamNext]_streamVars

-----------------------------------------------------------------------------
(* Correctness.                                                             *)

\* What will be shown once all renders are done.
Due == Applied(baseState, dispatched, {})

StreamTypeOK ==
    /\ active \in 0 .. MaxId /\ aborted \subseteq Runs /\ lastId \in 0 .. MaxId
    /\ pc \in [Runs -> {"none", "fetching", "errorBody", "reading", "over"}]
    /\ terminal \subseteq Runs /\ recent \subseteq Runs
    /\ \A s \in {baseState, shown} : s.status \in {"idle", "streaming", "done", "error"}

\* "Clearing a session cannot be undone by a late response or a lower-priority render"
\* (query-stream.ts): what is shown, now or after the renders that are due, was sent for the
\* question that is shown, and neither it nor a recent question is older than the last clear.
ClearSticks ==
    /\ \A s \in {shown, Due} : \A p \in s.parts : p[2] = s.id
    /\ \A p \in Due.parts : p[2] > cleared
    /\ \A r \in recent : r > cleared /\ pc[r] = "over"

\* The page never waits for an answer that nobody is reading: once all renders are done, the
\* status is "streaming" only while the run of that question is under way.
NoStuckStream ==
    mounted /\ dispatched = <<>> /\ baseState.status = "streaming" =>
        /\ active = baseState.id
        /\ pc[active] # "over"

\* When a run that is still current has ended and all is rendered, the page shows success only
\* for an answer that arrived in full, and every full answer as one unless the connection broke.
EndIsShown ==
    mounted /\ dispatched = <<>> /\ active # 0 /\ pc[active] = "over" /\ baseState.id = active =>
        LET complete == kind[active] \in {"result", "decision"} /\ wire[active] = <<>> IN
        /\ baseState.status \in {"done", "error"}
        /\ baseState.success <=> baseState.status = "done"
        /\ baseState.success => complete /\ active \in terminal
        /\ active \in recent => (baseState.success <=> complete)

\* Every question ends on the page the way it ended on the wire, and none stays open.
OutcomeShown == NoStuckStream /\ EndIsShown

\* What the page shows belongs to the question it shows, and says how that question ended.
PageIsRight == ClearSticks /\ OutcomeShown
=============================================================================
