------------------------------ MODULE EventStream ------------------------------
(***************************************************************************)
(* Following a job's events: the handle's log with its lock, the SSE       *)
(* endpoint that replays and follows it, and the browser's EventSource,    *)
(* which reconnects with the Last-Event-ID it has received.  A connection  *)
(* can be lost at any time with the events still under way; several        *)
(* watchers may follow the same job.                                       *)
(***************************************************************************)
EXTENDS Naturals, Sequences, SequencesExt

CONSTANTS
    Watchers,
    MaxEvents,  \* bound: events a handle gets
    MaxDrops,   \* bound: connections lost
    NoVerdict   \* for EventLog: no terminal event yet

ASSUME BoundsAssumption ==
    /\ MaxEvents \in Nat
    /\ MaxDrops \in Nat
    /\ NoVerdict \notin Nat

VARIABLES
    events,        \* log[i]: event i - 1 has a terminal status
    terminal,   \* the handle's _terminal flag
    phase,      \* phase[w]: where w's connection and its generator are
    cursor,     \* cursor[w]: the generator's next sequence number
    batch,      \* batch[w]: events of the last snapshot not yielded yet
    wire,       \* wire[w]: events yielded and not received
    received,   \* received[w]: sequence numbers w has received, in order
    drops

streamVars == <<events, terminal, phase, cursor, batch, wire, received, drops>>
handle == <<events, terminal>>

StreamInit ==
    /\ events = <<>>
    /\ terminal = FALSE
    /\ phase = [w \in Watchers |-> "away"]
    /\ cursor = [w \in Watchers |-> 0]
    /\ batch = [w \in Watchers |-> <<>>]
    /\ wire = [w \in Watchers |-> <<>>]
    /\ received = [w \in Watchers |-> <<>>]
    /\ drops = 0

Advance(w, from, to) ==
    /\ phase[w] = from
    /\ phase' = [phase EXCEPT ![w] = to]

(* JobHandle.emit, by the job's thread or a cancel request: the sequence    *)
(* number is the length of the log, and the flag is set under the same lock. *)
LogEvent ==
    /\ Len(events) < MaxEvents
    /\ \E verdict \in BOOLEAN :
          /\ events' = Append(events, verdict)
          /\ terminal' = (terminal \/ verdict)
    /\ UNCHANGED <<phase, cursor, batch, wire, received, drops>>

--------------------------------------------------------------------------------
(* active_job_events: the request and its generator *)

(* Broken variant: the last event is sent again. *)
ResumeAtLast(w) == IF received[w] = <<>> THEN 0 ELSE Last(received[w])

(* Broken variant: identifiers taken to start from one. *)
ResumeAfterOne(w) == IF received[w] = <<>> THEN 1 ELSE Last(received[w]) + 1

(* The first sequence number to send: after the Last-Event-ID, if any. *)
Resume(w) == IF received[w] = <<>> THEN 0 ELSE Last(received[w]) + 1

Connect(w) ==
    /\ phase[w] \in {"away", "over"}
    /\ phase' = [phase EXCEPT ![w] = "loop"]
    /\ cursor' = [cursor EXCEPT ![w] = Resume(w)]
    /\ UNCHANGED <<handle, batch, wire, received, drops>>

(* Broken variant: the flag is looked at before the events. *)
SnapshotFlagFirst(w) ==
    /\ batch' = [batch EXCEPT ![w] =
                   [i \in 1..(Len(events) - cursor[w]) |-> cursor[w] + i - 1]]
    /\ Advance(w, "loop", IF terminal THEN "closed"
                       ELSE IF cursor[w] < Len(events) THEN "yielding" ELSE "waiting")
    /\ UNCHANGED <<handle, cursor, wire, received, drops>>

(* Broken variant: the end is noticed only when the last batch is sent. *)
SnapshotNoEnd(w) ==
    /\ batch' = [batch EXCEPT ![w] =
                   [i \in 1..(Len(events) - cursor[w]) |-> cursor[w] + i - 1]]
    /\ Advance(w, "loop", IF cursor[w] < Len(events) THEN "yielding" ELSE "waiting")
    /\ UNCHANGED <<handle, cursor, wire, received, drops>>

(* JobHandle.snapshot, events and flag under one lock; events come first. *)
Snapshot(w) ==
    /\ batch' = [batch EXCEPT ![w] =
                   [i \in 1..(Len(events) - cursor[w]) |-> cursor[w] + i - 1]]
    /\ Advance(w, "loop", IF cursor[w] < Len(events) THEN "yielding"
                       ELSE IF terminal THEN "closed" ELSE "waiting")
    /\ UNCHANGED <<handle, cursor, wire, received, drops>>

Yield(w) ==
    /\ Advance(w, "yielding", IF Len(batch[w]) = 1 THEN "loop" ELSE "yielding")
    /\ cursor' = [cursor EXCEPT ![w] = Head(batch[w]) + 1]
    /\ batch' = [batch EXCEPT ![w] = Tail(@)]
    /\ wire' = [wire EXCEPT ![w] = Append(@, Head(batch[w]))]
    /\ UNCHANGED <<handle, received, drops>>

(* Still connected after the sleep. *)
Wake(w) ==
    /\ Advance(w, "waiting", "loop")
    /\ UNCHANGED <<handle, cursor, batch, wire, received, drops>>

--------------------------------------------------------------------------------
(* the connection and the browser *)

Receive(w) ==
    /\ wire[w] # <<>>
    /\ received' = [received EXCEPT ![w] = Append(@, Head(wire[w]))]
    /\ wire' = [wire EXCEPT ![w] = Tail(@)]
    /\ UNCHANGED <<handle, phase, cursor, batch, drops>>

(* The response ends and the browser has read all of it. *)
SeeEnd(w) ==
    /\ Advance(w, "closed", "over")
    /\ wire[w] = <<>>
    /\ UNCHANGED <<handle, cursor, batch, wire, received, drops>>

(* The connection is lost with what it carries; the generator stops. *)
Drop(w) ==
    /\ phase[w] \notin {"away", "over"}
    /\ drops < MaxDrops
    /\ drops' = drops + 1
    /\ phase' = [phase EXCEPT ![w] = "away"]
    /\ batch' = [batch EXCEPT ![w] = <<>>]
    /\ wire' = [wire EXCEPT ![w] = <<>>]
    /\ UNCHANGED <<handle, cursor, received>>

StreamStep(w) == Snapshot(w) \/ Yield(w) \/ Wake(w)
BrowserStep(w) == Receive(w) \/ SeeEnd(w) \/ (phase[w] = "away" /\ Connect(w))

StreamNext ==
    \/ LogEvent
    \/ \E w \in Watchers : Connect(w) \/ StreamStep(w) \/ Receive(w) \/ SeeEnd(w) \/ Drop(w)

(* The event loop runs every generator; a browser that lost its connection  *)
(* reconnects and reads what arrives.  Nothing forces an event or a drop.   *)
StreamFairness ==
    \A w \in Watchers : WF_streamVars(StreamStep(w)) /\ WF_streamVars(BrowserStep(w))

StreamSpec == StreamInit /\ [][StreamNext]_streamVars
StreamFairSpec == StreamSpec /\ StreamFairness

--------------------------------------------------------------------------------
(* Type invariant. *)
StreamTypeOK ==
    /\ events \in Seq(BOOLEAN)
    /\ terminal \in BOOLEAN
    /\ phase \in [Watchers -> {"away", "loop", "yielding", "waiting", "closed", "over"}]
    /\ cursor \in [Watchers -> 0..Len(events)]
    /\ batch \in [Watchers -> Seq(Nat)]
    /\ wire \in [Watchers -> Seq(Nat)]
    /\ received \in [Watchers -> Seq(Nat)]
    /\ drops \in 0..MaxDrops

(* "Monotonic sequence numbers, so a reconnect can resume": whatever is     *)
(* lost with a connection, a watcher receives events 0, 1, 2, ... without a *)
(* gap and without a repetition.                                            *)
InOrderExactlyOnce ==
    \A w \in Watchers : \A i \in DOMAIN received[w] : received[w][i] = i - 1

Verdicts == {i \in DOMAIN events : events[i]}

Reliable == INSTANCE EventLog WITH
    None <- NoVerdict,
    length <- Len(events),
    verdictAt <- IF Verdicts = {} THEN NoVerdict
                 ELSE CHOOSE i \in Verdicts : \A k \in Verdicts : i <= k,
    seen <- [w \in Watchers |-> Len(received[w])],
    over <- {w \in Watchers : phase[w] = "over"}

(* The stream is the log: an end of stream is seen only after the terminal  *)
(* event, although the flag is set by other threads while events are sent.  *)
ImplementsEventLog == Reliable!Spec

(* Once the job has its verdict every watcher, reconnecting as often as it  *)
(* must, comes to the end of the stream.                                    *)
EveryStreamEnds == \A w \in Watchers : terminal ~> phase[w] = "over"
================================================================================
