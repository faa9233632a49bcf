--------------------------- MODULE EventStream_proofs ---------------------------
(***************************************************************************)
(* Proofs about EventStream for any set of watchers and any bounds.  The   *)
(* inductive invariant says where every event is on its way from the log   *)
(* to a watcher: received, on the wire, or in the generator's batch, each  *)
(* part continuing the one before.                                         *)
(***************************************************************************)
EXTENDS EventStream, SequenceTheorems, TLAPS

(* The elements of s are n, n + 1, n + 2, ... *)
Run(s, n) == \A i \in 1..Len(s) : s[i] = n + i - 1

Connected == {"loop", "yielding", "waiting", "closed"}

(* What w received, what is on the wire and what the generator still has   *)
(* are consecutive pieces of 0, 1, 2, ...                                  *)
InFlight(w) ==
    /\ Run(received[w], 0)
    /\ Run(wire[w], Len(received[w]))
    /\ phase[w] \in Connected => cursor[w] = Len(received[w]) + Len(wire[w])
    /\ phase[w] \notin Connected => wire[w] = <<>> /\ Len(received[w]) <= Len(events)

BatchInv(w) == phase[w] = "yielding" =>
    /\ batch[w] # <<>>
    /\ Run(batch[w], cursor[w])
    /\ cursor[w] + Len(batch[w]) <= Len(events)

(* An end of stream has a terminal event behind it. *)
EndInv(w) ==
    /\ phase[w] = "closed" => \E i \in Verdicts : i <= cursor[w]
    /\ phase[w] = "over" => \E i \in Verdicts : i <= Len(received[w])

FirstVerdict(i) == i \in Verdicts /\ \A k \in Verdicts : i <= k

(* The flag says whether the log has a terminal event, and there is a first. *)
FlagInv ==
    /\ terminal <=> Verdicts # {}
    /\ terminal => \E i \in Nat : FirstVerdict(i)

IInv ==
    /\ StreamTypeOK
    /\ FlagInv
    /\ \A w \in Watchers : InFlight(w) /\ BatchInv(w) /\ EndInv(w)
--------------------------------------------------------------------------------
(* Consecutive numbers go on with the next one ... *)
LEMMA RunAppend ==
    ASSUME NEW s \in Seq(Nat), NEW n \in Nat, Run(s, n)
    PROVE  LET t == Append(s, n + Len(s))
           IN  t \in Seq(Nat) /\ Len(t) = Len(s) + 1 /\ Run(t, n)
<1> DEFINE t == Append(s, n + Len(s))
<1>1. n + Len(s) \in Nat /\ Len(s) \in Nat
  BY LenProperties
<1>2. /\ t \in Seq(Nat)
      /\ Len(t) = Len(s) + 1
      /\ \A i \in 1..Len(s) : t[i] = s[i]
      /\ t[Len(s) + 1] = n + Len(s)
  BY <1>1, AppendProperties
<1> HIDE DEF t
<1>3. ASSUME NEW i \in 1..Len(t) PROVE t[i] = n + i - 1
  <2>1. CASE i = Len(s) + 1
    BY <1>1, <1>2, <2>1
  <2>2. CASE i # Len(s) + 1
    <3>1. i \in 1..Len(s)
      BY <1>1, <1>2, <1>3, <2>2
    <3>2. QED
      BY <1>2, <3>1 DEF Run
  <2>3. QED
    BY <2>1, <2>2
<1>4. Run(t, n)
  BY <1>3 DEF Run
<1>5. QED
  BY <1>2, <1>4 DEF t

(* ... and lose the first. *)
LEMMA RunTail ==
    ASSUME NEW s \in Seq(Nat), NEW n \in Nat, Run(s, n), s # <<>>
    PROVE  /\ Head(s) = n
           /\ Tail(s) \in Seq(Nat)
           /\ Len(s) \in Nat \ {0}
           /\ Len(Tail(s)) = Len(s) - 1
           /\ Run(Tail(s), n + 1)
<1>1. Len(s) \in Nat \ {0}
  BY EmptySeq
<1>2. /\ Tail(s) \in Seq(Nat)
      /\ Len(Tail(s)) = Len(s) - 1
      /\ \A i \in 1..Len(Tail(s)) : Tail(s)[i] = s[i + 1]
  BY HeadTailProperties
<1>3. Head(s) = n
  BY <1>1 DEF Run
<1>4. Run(Tail(s), n + 1)
  BY <1>1, <1>2 DEF Run
<1>5. QED
  BY <1>1, <1>2, <1>3, <1>4

(* The last of the numbers from 0 is one less than how many there are. *)
LEMMA StartIsNext ==
    ASSUME StreamTypeOK, NEW w \in Watchers, Run(received[w], 0)
    PROVE  Resume(w) = Len(received[w])
<1>1. received[w] \in Seq(Nat)
  BY DEF StreamTypeOK
<1>2. CASE received[w] = <<>>
  BY <1>2 DEF Resume
<1>3. CASE received[w] # <<>>
  <2>1. Len(received[w]) \in Nat \ {0}
    BY <1>1, <1>3, EmptySeq
  <2>2. received[w][Len(received[w])] = Len(received[w]) - 1
    BY <2>1 DEF Run
  <2>3. QED
    BY <1>3, <2>1, <2>2 DEF Resume, Last
<1>4. QED
  BY <1>2, <1>3

(* A snapshot is the part of the log from the cursor on. *)
LEMMA BatchIsRun ==
    ASSUME NEW c \in Nat, NEW n \in Nat, c <= n
    PROVE  LET b == [i \in 1..(n - c) |-> c + i - 1]
           IN  b \in Seq(Nat) /\ Len(b) = n - c /\ Run(b, c)
<1> DEFINE b == [i \in 1..(n - c) |-> c + i - 1]
<1>1. n - c \in Nat /\ b \in [1..(n - c) -> Nat]
  OBVIOUS
<1>2. b \in Seq(Nat)
  BY <1>1, SeqDef
<1>3. Len(b) = n - c
  BY <1>1
<1>4. Run(b, c)
  BY <1>3 DEF Run
<1>5. QED
  BY <1>2, <1>3, <1>4
--------------------------------------------------------------------------------
Phases == {"away", "loop", "yielding", "waiting", "closed", "over"}

(* A step at one watcher's stream, in the terms of the invariant. *)
LEMMA OneStream ==
    ASSUME IInv, NEW w \in Watchers,
           UNCHANGED <<events, terminal>>,
           phase' \in [Watchers -> Phases],
           cursor' \in [Watchers -> 0..Len(events)],
           batch' \in [Watchers -> Seq(Nat)],
           wire' \in [Watchers -> Seq(Nat)],
           received' \in [Watchers -> Seq(Nat)],
           drops' \in 0..MaxDrops,
           \A v \in Watchers \ {w} :
               /\ phase'[v] = phase[v]
               /\ cursor'[v] = cursor[v]
               /\ batch'[v] = batch[v]
               /\ wire'[v] = wire[v]
               /\ received'[v] = received[v],
           InFlight(w)', BatchInv(w)', EndInv(w)'
    PROVE  IInv'
<1>1. StreamTypeOK'
  BY DEF IInv, StreamTypeOK, Phases
<1>2. FlagInv'
  BY DEF IInv, FlagInv, FirstVerdict, Verdicts
<1>3. ASSUME NEW v \in Watchers, v # w PROVE (InFlight(v) /\ BatchInv(v) /\ EndInv(v))'
  <2>1. /\ phase'[v] = phase[v]
        /\ cursor'[v] = cursor[v]
        /\ batch'[v] = batch[v]
        /\ wire'[v] = wire[v]
        /\ received'[v] = received[v]
    BY <1>3
  <2>2. InFlight(v)'
    <3>1. InFlight(v)
      BY DEF IInv
    <3>2. Run(received[v], 0)' /\ Run(wire[v], Len(received[v]))'
      BY <2>1, <3>1 DEF InFlight, Run
    <3>3. QED
      BY <2>1, <3>1, <3>2 DEF InFlight
  <2>3. BatchInv(v)'
    BY <2>1 DEF IInv, BatchInv, Run
  <2>4. EndInv(v)'
    BY <2>1 DEF IInv, EndInv, Verdicts
  <2>5. QED
    BY <2>2, <2>3, <2>4
<1>4. QED
  BY <1>1, <1>2, <1>3 DEF IInv

(* An event joins the log, and its index the verdicts if it is one. *)
LEMMA LogGrows ==
    ASSUME events \in Seq(BOOLEAN), NEW verdict \in BOOLEAN, events' = Append(events, verdict)
    PROVE  /\ Len(events) \in Nat
           /\ events' \in Seq(BOOLEAN)
           /\ Len(events') = Len(events) + 1
           /\ \A i \in Verdicts : i \in Nat /\ i <= Len(events)
           /\ Verdicts' = Verdicts \cup (IF verdict THEN {Len(events) + 1} ELSE {})
<1>1. /\ Len(events) \in Nat
      /\ DOMAIN events = 1..Len(events)
  BY LenProperties
<1>2. /\ events' \in Seq(BOOLEAN)
      /\ Len(events') = Len(events) + 1
      /\ \A i \in 1..Len(events) : events'[i] = events[i]
      /\ events'[Len(events) + 1] = verdict
  BY <1>1, AppendProperties
<1>3. DOMAIN events' = 1..(Len(events) + 1)
  BY <1>2, LenProperties
<1>4. Verdicts = {i \in 1..Len(events) : events[i]}
  BY <1>1 DEF Verdicts
<1>5. Verdicts' = {i \in 1..(Len(events) + 1) : events'[i]}
  BY <1>3 DEF Verdicts
<1>6. QED
  BY <1>1, <1>2, <1>4, <1>5

(* An event disturbs no stream. *)
LEMMA EmitStep ==
    ASSUME IInv, LogEvent
    PROVE  IInv'
<1>1. PICK verdict \in BOOLEAN :
        /\ events' = Append(events, verdict)
        /\ terminal' = (terminal \/ verdict)
  BY DEF LogEvent
<1>2. UNCHANGED <<phase, cursor, batch, wire, received, drops>>
  BY DEF LogEvent
<1>3. events \in Seq(BOOLEAN)
  BY DEF IInv, StreamTypeOK
<1>4. /\ Len(events) \in Nat
      /\ events' \in Seq(BOOLEAN)
      /\ Len(events') = Len(events) + 1
      /\ \A i \in Verdicts : i \in Nat /\ i <= Len(events)
      /\ Verdicts' = Verdicts \cup (IF verdict THEN {Len(events) + 1} ELSE {})
  BY <1>1, <1>3, LogGrows
<1>5. StreamTypeOK'
  <2>1. cursor' \in [Watchers -> 0..Len(events')]
    BY <1>2, <1>3, <1>4 DEF IInv, StreamTypeOK
  <2>2. terminal' \in BOOLEAN
    BY <1>1
  <2>3. QED
    BY <1>2, <1>4, <2>1, <2>2 DEF IInv, StreamTypeOK
<1>6. FlagInv'
  <2>1. CASE terminal
    <3>1. PICK i \in Nat : FirstVerdict(i)
      BY <2>1 DEF IInv, FlagInv
    <3>2. FirstVerdict(i)'
      BY <1>4, <3>1 DEF FirstVerdict
    <3>3. QED
      BY <1>1, <2>1, <3>2 DEF FlagInv, FirstVerdict
  <2>2. CASE ~terminal
    <3>1. Verdicts = {}
      BY <2>2 DEF IInv, FlagInv
    <3>2. CASE verdict
      <4>1. PICK n \in Nat : n = Len(events) + 1
        BY <1>4
      <4>2. Verdicts' = {n}
        BY <1>4, <3>1, <3>2, <4>1
      <4>3. FirstVerdict(n)'
        BY <4>2 DEF FirstVerdict
      <4>4. QED
        BY <1>1, <3>2, <4>2, <4>3 DEF FlagInv
    <3>3. CASE ~verdict
      BY <1>1, <1>4, <2>2, <3>1, <3>3 DEF FlagInv
    <3>4. QED
      BY <3>2, <3>3
  <2>3. QED
    BY <2>1, <2>2
<1>7. ASSUME NEW v \in Watchers PROVE (InFlight(v) /\ BatchInv(v) /\ EndInv(v))'
  <2>1. Len(received[v]) \in Nat /\ Len(batch[v]) \in Nat /\ cursor[v] \in Nat
    BY LenProperties DEF IInv, StreamTypeOK
  <2>2. InFlight(v)'
    <3>1. Len(received[v]) <= Len(events) => Len(received[v]) <= Len(events')
      BY <1>4, <2>1
    <3>2. QED
      BY <1>2, <3>1 DEF IInv, InFlight, Run
  <2>3. BatchInv(v)'
    <3>1. cursor[v] + Len(batch[v]) <= Len(events)
            => cursor[v] + Len(batch[v]) <= Len(events')
      BY <1>4, <2>1
    <3>2. QED
      BY <1>2, <3>1 DEF IInv, BatchInv, Run
  <2>4. EndInv(v)'
    BY <1>2, <1>4 DEF IInv, EndInv
  <2>5. QED
    BY <2>2, <2>3, <2>4
<1>8. QED
  BY <1>5, <1>6, <1>7 DEF IInv

(* A request starts after the last event received. *)
LEMMA ConnectStep ==
    ASSUME IInv, NEW w \in Watchers, Connect(w)
    PROVE  IInv'
<1> USE DEF IInv, StreamTypeOK
<1>1. Run(received[w], 0) /\ wire[w] = <<>> /\ Len(received[w]) <= Len(events)
  BY DEF Connect, InFlight, Connected
<1>2. Resume(w) = Len(received[w]) /\ Len(received[w]) \in Nat
  BY <1>1, StartIsNext, LenProperties
<1>3. Resume(w) \in 0..Len(events)
  BY <1>1, <1>2, LenProperties
<1>4. phase'[w] = "loop" /\ cursor'[w] = Len(received[w])
  BY <1>2 DEF Connect
<1>5. InFlight(w)'
  BY <1>1, <1>2, <1>4 DEF Connect, InFlight, Connected, Run
<1>6. BatchInv(w)' /\ EndInv(w)'
  BY <1>4 DEF BatchInv, EndInv
<1>7. /\ phase' \in [Watchers -> Phases]
      /\ cursor' \in [Watchers -> 0..Len(events)]
  BY <1>3 DEF Connect, Phases
<1>8. QED
  BY <1>5, <1>6, <1>7, OneStream DEF Connect, handle

(* A snapshot is taken from the cursor on, or finds the end of the log. *)
LEMMA SnapshotStep ==
    ASSUME IInv, NEW w \in Watchers, Snapshot(w)
    PROVE  IInv'
<1> USE DEF IInv, StreamTypeOK
<1>1. /\ Len(events) \in Nat
      /\ cursor[w] \in 0..Len(events)
      /\ DOMAIN events = 1..Len(events)
  BY LenProperties
<1>2. /\ batch'[w] \in Seq(Nat)
      /\ Len(batch'[w]) = Len(events) - cursor[w]
      /\ Run(batch'[w], cursor[w])
  <2>1. batch'[w] = [i \in 1..(Len(events) - cursor[w]) |-> cursor[w] + i - 1]
    BY DEF Snapshot
  <2>2. cursor[w] \in Nat /\ cursor[w] <= Len(events)
    BY <1>1
  <2>3. QED
    BY <1>1, <2>1, <2>2, BatchIsRun
<1>3. phase'[w] = IF cursor[w] < Len(events) THEN "yielding"
                  ELSE IF terminal THEN "closed" ELSE "waiting"
  BY DEF Snapshot, Advance
<1>4. InFlight(w)'
  BY <1>3 DEF Snapshot, Advance, InFlight, Connected, Run
<1>5. BatchInv(w)'
  <2>1. ASSUME phase'[w] = "yielding" PROVE batch'[w] # <<>>
    BY <1>1, <1>2, <1>3, <2>1
  <2>2. cursor'[w] = cursor[w] /\ events' = events
    BY DEF Snapshot, handle
  <2>3. QED
    BY <1>1, <1>2, <2>1, <2>2 DEF BatchInv, Run
<1>6. EndInv(w)'
  <2>1. ASSUME phase'[w] = "closed" PROVE \E i \in Verdicts : i <= cursor[w]
    BY <1>1, <1>3, <2>1 DEF FlagInv, FirstVerdict, Verdicts
  <2>2. phase'[w] # "over"
    BY <1>3
  <2>3. QED
    BY <2>1, <2>2 DEF Snapshot, handle, EndInv, Verdicts
<1>7. /\ phase' \in [Watchers -> Phases]
      /\ batch' \in [Watchers -> Seq(Nat)]
  <2>1. \A v \in Watchers : batch'[v] \in Seq(Nat)
    BY <1>2 DEF Snapshot
  <2>2. QED
    BY <2>1 DEF Snapshot, Advance, Phases
<1>8. QED
  BY <1>4, <1>5, <1>6, <1>7, OneStream DEF Snapshot, Advance, handle

(* The first event of the batch goes behind what is on the wire. *)
LEMMA YieldStep ==
    ASSUME IInv, NEW w \in Watchers, Yield(w)
    PROVE  IInv'
<1> USE DEF IInv, StreamTypeOK
<1>1. /\ batch[w] # <<>>
      /\ Run(batch[w], cursor[w])
      /\ cursor[w] + Len(batch[w]) <= Len(events)
      /\ cursor[w] = Len(received[w]) + Len(wire[w])
      /\ Run(wire[w], Len(received[w]))
  BY DEF Yield, Advance, BatchInv, InFlight, Connected
<1>2. /\ cursor[w] \in Nat
      /\ Len(events) \in Nat
      /\ Len(received[w]) \in Nat
      /\ Len(wire[w]) \in Nat
  BY LenProperties
<1>3. /\ Head(batch[w]) = cursor[w]
      /\ Tail(batch[w]) \in Seq(Nat)
      /\ Len(batch[w]) \in Nat \ {0}
      /\ Len(Tail(batch[w])) = Len(batch[w]) - 1
      /\ Run(Tail(batch[w]), cursor[w] + 1)
  BY <1>1, <1>2, RunTail
<1>4. /\ Append(wire[w], cursor[w]) \in Seq(Nat)
      /\ Len(Append(wire[w], cursor[w])) = Len(wire[w]) + 1
      /\ Run(Append(wire[w], cursor[w]), Len(received[w]))
  BY <1>1, <1>2, RunAppend
<1>5. /\ cursor'[w] = cursor[w] + 1
      /\ wire'[w] = Append(wire[w], cursor[w])
      /\ batch'[w] = Tail(batch[w])
      /\ phase'[w] = IF Len(batch[w]) = 1 THEN "loop" ELSE "yielding"
      /\ UNCHANGED <<events, terminal, received, drops>>
  BY <1>3 DEF Yield, Advance, handle
<1>6. InFlight(w)'
  BY <1>1, <1>2, <1>4, <1>5 DEF InFlight, Connected, Run
<1>7. BatchInv(w)'
  <2>1. ASSUME phase'[w] = "yielding" PROVE batch'[w] # <<>>
    <3>1. Len(batch[w]) # 1
      BY <1>5, <2>1
    <3>2. Len(Tail(batch[w])) # 0
      BY <1>3, <3>1
    <3>3. QED
      BY <1>5, <3>2, EmptySeq
  <2>2. cursor'[w] + Len(batch'[w]) <= Len(events)
    BY <1>1, <1>2, <1>3, <1>5
  <2>3. Run(batch[w], cursor[w])'
    BY <1>3, <1>5 DEF Run
  <2>4. QED
    BY <1>5, <2>1, <2>2, <2>3 DEF BatchInv
<1>8. EndInv(w)'
  BY <1>5 DEF EndInv
<1>9. /\ phase' \in [Watchers -> Phases]
      /\ cursor' \in [Watchers -> 0..Len(events)]
      /\ batch' \in [Watchers -> Seq(Nat)]
      /\ wire' \in [Watchers -> Seq(Nat)]
  <2>1. cursor[w] + 1 \in 0..Len(events)
    BY <1>1, <1>2, <1>3
  <2>2. QED
    BY <1>3, <1>4, <1>5, <2>1 DEF Yield, Advance, Phases
<1>10. QED
  BY <1>5, <1>6, <1>7, <1>8, <1>9, OneStream DEF Yield, Advance

LEMMA WakeStep ==
    ASSUME IInv, NEW w \in Watchers, Wake(w)
    PROVE  IInv'
<1> USE DEF IInv, StreamTypeOK
<1>1. phase[w] = "waiting" /\ phase'[w] = "loop"
  BY DEF Wake, Advance
<1>2. InFlight(w)'
  BY <1>1 DEF Wake, handle, InFlight, Connected, Run
<1>3. BatchInv(w)' /\ EndInv(w)'
  BY <1>1 DEF BatchInv, EndInv
<1>4. phase' \in [Watchers -> Phases]
  BY DEF Wake, Advance, Phases
<1>5. QED
  BY <1>2, <1>3, <1>4, OneStream DEF Wake, Advance, handle

(* What comes off the wire is the next event. *)
LEMMA ReceiveStep ==
    ASSUME IInv, NEW w \in Watchers, Receive(w)
    PROVE  IInv'
<1> USE DEF IInv, StreamTypeOK
<1>1. /\ wire[w] # <<>>
      /\ Run(received[w], 0)
      /\ Run(wire[w], Len(received[w]))
      /\ phase[w] \in Connected
      /\ cursor[w] = Len(received[w]) + Len(wire[w])
  BY DEF Receive, InFlight
<1>2. Len(received[w]) \in Nat /\ Len(wire[w]) \in Nat
  BY LenProperties
<1>3. /\ Head(wire[w]) = Len(received[w])
      /\ Tail(wire[w]) \in Seq(Nat)
      /\ Len(Tail(wire[w])) = Len(wire[w]) - 1
      /\ Run(Tail(wire[w]), Len(received[w]) + 1)
  BY <1>1, <1>2, RunTail
<1>4. /\ Append(received[w], Len(received[w])) \in Seq(Nat)
      /\ Len(Append(received[w], Len(received[w]))) = Len(received[w]) + 1
      /\ Run(Append(received[w], Len(received[w])), 0)
  BY <1>1, <1>2, RunAppend
<1>5. /\ received'[w] = Append(received[w], Len(received[w]))
      /\ wire'[w] = Tail(wire[w])
      /\ UNCHANGED <<events, terminal, phase, cursor, batch, drops>>
  BY <1>3 DEF Receive, handle
<1>6. InFlight(w)'
  BY <1>1, <1>2, <1>3, <1>4, <1>5 DEF InFlight, Run
<1>7. BatchInv(w)'
  BY <1>5 DEF BatchInv, Run
<1>8. EndInv(w)'
  BY <1>1, <1>5 DEF EndInv, Connected, Verdicts
<1>9. wire' \in [Watchers -> Seq(Nat)] /\ received' \in [Watchers -> Seq(Nat)]
  BY <1>3, <1>4, <1>5 DEF Receive
<1>10. QED
  BY <1>5, <1>6, <1>7, <1>8, <1>9, OneStream DEF Receive, Phases

(* With an empty wire the cursor is what was received. *)
LEMMA SeeEndStep ==
    ASSUME IInv, NEW w \in Watchers, SeeEnd(w)
    PROVE  IInv'
<1> USE DEF IInv, StreamTypeOK
<1>1. /\ phase[w] = "closed"
      /\ phase'[w] = "over"
      /\ wire[w] = <<>>
      /\ UNCHANGED <<events, terminal, cursor, batch, wire, received, drops>>
  BY DEF SeeEnd, Advance, handle
<1>2. cursor[w] = Len(received[w]) /\ cursor[w] <= Len(events)
  BY <1>1, LenProperties, EmptySeq DEF InFlight, Connected
<1>3. InFlight(w)'
  BY <1>1, <1>2 DEF InFlight, Connected, Run
<1>4. BatchInv(w)'
  BY <1>1 DEF BatchInv
<1>5. EndInv(w)'
  BY <1>1, <1>2 DEF EndInv, Verdicts
<1>6. phase' \in [Watchers -> Phases]
  BY DEF SeeEnd, Advance, Phases
<1>7. QED
  BY <1>1, <1>3, <1>4, <1>5, <1>6, OneStream DEF SeeEnd, Advance

LEMMA DropStep ==
    ASSUME IInv, NEW w \in Watchers, Drop(w)
    PROVE  IInv'
<1> USE DEF IInv, StreamTypeOK
<1>1. /\ phase[w] \in Connected
      /\ phase'[w] = "away"
      /\ wire'[w] = <<>>
      /\ UNCHANGED <<events, terminal, cursor, received>>
  BY DEF Drop, handle, Connected
<1>2. Len(received[w]) <= Len(events)
  <2>1. cursor[w] = Len(received[w]) + Len(wire[w])
    BY <1>1 DEF InFlight
  <2>2. /\ Len(received[w]) \in Nat
        /\ Len(wire[w]) \in Nat
        /\ cursor[w] \in 0..Len(events)
        /\ Len(events) \in Nat
    BY LenProperties
  <2>3. QED
    BY <2>1, <2>2
<1>3. InFlight(w)'
  BY <1>1, <1>2, EmptySeq DEF InFlight, Connected, Run
<1>4. BatchInv(w)' /\ EndInv(w)'
  BY <1>1 DEF BatchInv, EndInv
<1>5. /\ phase' \in [Watchers -> Phases]
      /\ batch' \in [Watchers -> Seq(Nat)]
      /\ wire' \in [Watchers -> Seq(Nat)]
      /\ drops' \in 0..MaxDrops
  BY BoundsAssumption, EmptySeq DEF Drop, Phases, BoundsAssumption
<1>6. QED
  BY <1>1, <1>3, <1>4, <1>5, OneStream DEF Drop
--------------------------------------------------------------------------------
(* The inductive invariant holds in every reachable state. *)
THEOREM Inductive == StreamSpec => []IInv
<1>1. StreamInit => IInv
  <2>1. StreamInit => StreamTypeOK
    <3>1. ASSUME StreamInit
          PROVE  /\ cursor \in [Watchers -> 0..Len(events)]
                 /\ drops \in 0..MaxDrops
      BY <3>1, BoundsAssumption DEF StreamInit, BoundsAssumption
    <3>2. ASSUME StreamInit
          PROVE  /\ events \in Seq(BOOLEAN)
                 /\ batch \in [Watchers -> Seq(Nat)]
                 /\ wire \in [Watchers -> Seq(Nat)]
                 /\ received \in [Watchers -> Seq(Nat)]
      BY <3>2, EmptySeq DEF StreamInit
    <3>3. QED
      BY <3>1, <3>2 DEF StreamInit, StreamTypeOK
  <2>2. StreamInit => FlagInv
    BY DEF StreamInit, FlagInv, Verdicts
  <2>3. ASSUME StreamInit, NEW w \in Watchers PROVE InFlight(w) /\ BatchInv(w) /\ EndInv(w)
    BY <2>3, EmptySeq DEF StreamInit, InFlight, BatchInv, EndInv, Run, Connected
  <2>4. QED
    BY <2>1, <2>2, <2>3 DEF IInv
<1>2. IInv /\ [StreamNext]_streamVars => IInv'
  <2>1. ASSUME IInv, UNCHANGED streamVars PROVE IInv'
    BY <2>1
       DEF streamVars, IInv, StreamTypeOK, FlagInv, FirstVerdict, Verdicts, InFlight, BatchInv,
           EndInv, Run
  <2>2. QED
    BY <2>1, EmitStep, ConnectStep, SnapshotStep, YieldStep, WakeStep, ReceiveStep,
       SeeEndStep, DropStep
       DEF StreamNext, StreamStep
<1>3. QED
  BY <1>1, <1>2, PTL DEF StreamSpec

(* Type correctness: no cursor runs ahead of the log. *)
THEOREM TypeCorrect == StreamSpec => []StreamTypeOK
<1>1. IInv => StreamTypeOK
  BY DEF IInv
<1>2. QED
  BY <1>1, Inductive, PTL

(* No event is missed, repeated or reordered, whatever is lost on the way. *)
THEOREM ReceivedInOrder == StreamSpec => []InOrderExactlyOnce
<1>1. IInv => InOrderExactlyOnce
  <2>1. ASSUME IInv, NEW w \in Watchers, NEW i \in DOMAIN received[w]
        PROVE  received[w][i] = i - 1
    <3>1. Run(received[w], 0)
      BY <2>1 DEF IInv, InFlight
    <3>2. i \in 1..Len(received[w])
      BY <2>1, LenProperties DEF IInv, StreamTypeOK
    <3>3. QED
      BY <3>1, <3>2 DEF Run
  <2>2. QED
    BY <2>1 DEF InOrderExactlyOnce
<1>2. QED
  BY <1>1, Inductive, PTL
--------------------------------------------------------------------------------
(* The least of some numbers is the one CHOOSE finds. *)
LEMMA FirstIsChosen ==
    ASSUME NEW V \in SUBSET Nat, NEW i \in V, \A k \in V : i <= k
    PROVE  i = CHOOSE n \in V : \A k \in V : n <= k
<1>1. \A n \in V : (\A k \in V : n <= k) => n = i
  OBVIOUS
<1>2. QED
  BY <1>1

(* EventLog's verdictAt. *)
VerdictAt == IF Verdicts = {} THEN NoVerdict
             ELSE CHOOSE i \in Verdicts : \A k \in Verdicts : i <= k

Seen == [w \in Watchers |-> Len(received[w])]
Over == {w \in Watchers : phase[w] = "over"}

LEMMA VerdictsAreNumbers ==
    ASSUME StreamTypeOK
    PROVE  Verdicts \in SUBSET Nat
BY LenProperties DEF StreamTypeOK, Verdicts

LEMMA EmitAppends ==
    ASSUME IInv, LogEvent
    PROVE  Reliable!Append
<1>1. PICK verdict \in BOOLEAN : events' = Append(events, verdict)
  BY DEF LogEvent
<1>2. /\ Len(events) \in Nat
      /\ Len(events') = Len(events) + 1
      /\ \A i \in Verdicts : i \in Nat /\ i <= Len(events)
      /\ Verdicts' = Verdicts \cup (IF verdict THEN {Len(events) + 1} ELSE {})
  BY <1>1, LogGrows DEF IInv, StreamTypeOK
<1>3. VerdictAt' \in {VerdictAt} \cup IF VerdictAt = NoVerdict THEN {Len(events')} ELSE {}
  <2>1. CASE ~verdict
    BY <1>2, <2>1 DEF VerdictAt
  <2>2. CASE verdict /\ Verdicts = {}
    <3>1. PICK n \in Nat : n = Len(events')
      BY <1>2
    <3>2. Verdicts' = {n}
      BY <1>2, <2>2, <3>1
    <3>3. VerdictAt' = n
      BY <3>2, FirstIsChosen DEF VerdictAt
    <3>4. QED
      BY <2>2, <3>1, <3>3 DEF VerdictAt
  <2>3. CASE verdict /\ Verdicts # {}
    <3>1. PICK i \in Nat : FirstVerdict(i)
      BY <2>3 DEF IInv, FlagInv
    <3>2. VerdictAt = i
      BY <2>3, <3>1, VerdictsAreNumbers, FirstIsChosen DEF IInv, VerdictAt, FirstVerdict
    <3>3. /\ Verdicts' \in SUBSET Nat
          /\ i \in Verdicts'
          /\ \A k \in Verdicts' : i <= k
      <4>1. i \in Verdicts /\ i <= Len(events) /\ \A k \in Verdicts : i <= k
        BY <1>2, <3>1 DEF FirstVerdict
      <4>2. Verdicts' = Verdicts \cup {Len(events) + 1}
        BY <1>2, <2>3
      <4>3. Verdicts' \in SUBSET Nat
        BY <1>2, <4>2
      <4>4. \A k \in Verdicts' : i <= k
        BY <1>2, <4>1, <4>2
      <4>5. QED
        BY <4>1, <4>2, <4>3, <4>4
    <3>4. VerdictAt' = i
      BY <3>3, FirstIsChosen DEF VerdictAt
    <3>5. QED
      BY <3>2, <3>4
  <2>4. QED
    BY <2>1, <2>2, <2>3
<1>4. UNCHANGED <<phase, received>>
  BY DEF LogEvent
<1>5. QED
  BY <1>2, <1>3, <1>4 DEF Reliable!Append, VerdictAt

LEMMA ConnectReopens ==
    ASSUME IInv, NEW w \in Watchers, Connect(w)
    PROVE  Reliable!Reopen(w)
<1>1. Over' = Over \ {w}
  BY DEF IInv, StreamTypeOK, Connect, Over
<1>2. UNCHANGED <<events, received>>
  BY DEF Connect, handle
<1>3. QED
  BY <1>1, <1>2 DEF Reliable!Reopen, Over, Verdicts

LEMMA ReceiveSees ==
    ASSUME IInv, NEW w \in Watchers, Receive(w)
    PROVE  Reliable!See(w)
<1> USE DEF IInv, StreamTypeOK
<1>1. UNCHANGED <<events, phase>>
  BY DEF Receive, handle
<1>2. /\ wire[w] # <<>>
      /\ cursor[w] = Len(received[w]) + Len(wire[w])
  BY DEF Receive, InFlight
<1>3. /\ Len(received[w]) \in Nat
      /\ Len(wire[w]) \in Nat \ {0}
      /\ Len(events) \in Nat
      /\ cursor[w] \in 0..Len(events)
  BY <1>2, LenProperties, EmptySeq
<1>4. Len(received[w]) < Len(events)
  BY <1>2, <1>3
<1>5. Seen' = [Seen EXCEPT ![w] = @ + 1]
  <2>1. Head(wire[w]) \in Nat
    BY <1>2, HeadTailProperties
  <2>2. Len(received'[w]) = Len(received[w]) + 1
    BY <2>1, AppendProperties DEF Receive
  <2>3. \A v \in Watchers \ {w} : received'[v] = received[v]
    BY DEF Receive
  <2>4. QED
    BY <2>2, <2>3 DEF Seen
<1>6. QED
  BY <1>1, <1>4, <1>5 DEF Reliable!See, Seen, Verdicts

LEMMA SeeEndCloses ==
    ASSUME IInv, NEW w \in Watchers, SeeEnd(w)
    PROVE  Reliable!Close(w)
<1> USE DEF IInv, StreamTypeOK
<1>1. /\ phase[w] = "closed"
      /\ wire[w] = <<>>
      /\ UNCHANGED <<events, received>>
  BY DEF SeeEnd, Advance, handle
<1>2. cursor[w] = Len(received[w])
  BY <1>1, LenProperties, EmptySeq DEF InFlight, Connected
<1>3. PICK i \in Verdicts : i <= Len(received[w])
  BY <1>1, <1>2 DEF EndInv
<1>4. PICK f \in Nat : FirstVerdict(f)
  BY <1>3 DEF FlagInv
<1>5. VerdictAt = f
  BY <1>3, <1>4, VerdictsAreNumbers, FirstIsChosen DEF VerdictAt, FirstVerdict
<1>6. f # NoVerdict /\ f <= Len(received[w])
  <2>1. f <= i /\ i \in Nat /\ Len(received[w]) \in Nat
    BY <1>3, <1>4, VerdictsAreNumbers, LenProperties DEF FirstVerdict
  <2>2. QED
    BY <1>3, <2>1, BoundsAssumption DEF BoundsAssumption
<1>7. Over' = Over \cup {w}
  BY DEF SeeEnd, Advance, Over
<1>8. UNCHANGED <<Len(events), VerdictAt, Seen>>
  BY <1>1 DEF VerdictAt, Seen, Verdicts
<1>9. Seen[w] = Len(received[w])
  BY DEF Seen
<1>10. QED
  BY <1>5, <1>6, <1>7, <1>8, <1>9 DEF Reliable!Close, VerdictAt, Over, Seen

(* The other steps are within a stream and do not show. *)
LEMMA OthersStutter ==
    ASSUME IInv, NEW w \in Watchers, StreamStep(w) \/ Drop(w)
    PROVE  UNCHANGED Reliable!vars
<1>1. /\ phase[w] # "over"
      /\ phase'[w] # "over"
      /\ \A v \in Watchers \ {w} : phase'[v] = phase[v]
  BY DEF IInv, StreamTypeOK, StreamStep, Snapshot, Yield, Wake, Drop, Advance
<1>2. UNCHANGED <<events, received>>
  BY DEF StreamStep, Snapshot, Yield, Wake, Drop, handle
<1>3. UNCHANGED Over
  BY <1>1 DEF Over
<1>4. QED
  BY <1>2, <1>3 DEF Reliable!vars, Over, Verdicts

(* The stream is the log it replays. *)
THEOREM ImplementsTheLog == StreamSpec => ImplementsEventLog
<1>1. StreamInit => Reliable!Init
  BY EmptySeq DEF StreamInit, Reliable!Init, Verdicts
<1>2. IInv /\ [StreamNext]_streamVars => [Reliable!Next]_(Reliable!vars)
  <2>1. ASSUME UNCHANGED streamVars PROVE UNCHANGED Reliable!vars
    BY <2>1 DEF streamVars, Reliable!vars, Verdicts
  <2>2. QED
    BY <2>1, EmitAppends, ConnectReopens, ReceiveSees, SeeEndCloses, OthersStutter
       DEF StreamNext, Reliable!Next
<1>3. QED
  BY <1>1, <1>2, Inductive, PTL DEF StreamSpec, ImplementsEventLog, Reliable!Spec
================================================================================
