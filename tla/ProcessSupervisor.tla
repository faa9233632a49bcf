--------------------------- MODULE ProcessSupervisor ---------------------------
(***************************************************************************)
(* SubprocessRunner.run (jobs/process.py) on POSIX: the supervising thread *)
(* that polls the process, the cancel Event and the deadline; a daemon     *)
(* thread per output stream; and the process tree it has started, in a     *)
(* process group of its own.  Bytes are counted, not stored.               *)
(***************************************************************************)
EXTENDS Naturals

CONSTANTS
    Main,       \* the process that Popen starts
    Children,   \* processes it may fork, directly or not
    Streams,    \* stdout and stderr
    Limit,      \* output_limit
    Chunk,      \* bytes a reader asks for: read() returns fewer only at EOF
    Capacity,   \* bytes a pipe holds
    MaxOutput   \* bound: bytes the tree writes to a stream

Processes == {Main} \cup Children

ASSUME SupervisorAssumption ==
    /\ Main \notin Children
    /\ {Limit, MaxOutput} \subseteq Nat
    /\ {Chunk, Capacity} \subseteq Nat \ {0}

VARIABLES
    at,         \* the supervising thread
    cancel,     \* the cancel Event
    expired,    \* the deadline has passed
    cancelled, timedOut, truncated,   \* locals and flags of run()
    signalled,  \* history: SIGKILL was sent to the group
    proc,       \* proc[p]: unborn, alive, dying (SIGKILL pending) or dead
    written,    \* written[s]: bytes the tree has written to the stream
    pipe,       \* pipe[s]: bytes in the pipe
    held,       \* held[s]: bytes of the reader's incomplete chunk
    sink,       \* sink[s]: bytes in the reader's bytearray
    reading,    \* reading[s]: the reader thread runs
    outcome      \* what run() returned, and with which output

control == <<at, cancelled, timedOut>>
tree == <<signalled, proc>>
output == <<written, pipe, held, sink, truncated, reading>>
outside == <<cancel, expired>>
processVars == <<control, tree, output, outside, outcome>>

NoResult == [cancelled |-> FALSE, timedOut |-> FALSE, truncated |-> FALSE,
             sink |-> [s \in Streams |-> 0]]

ProcessInit ==
    /\ at = "start"
    /\ cancel \in BOOLEAN
    /\ expired = FALSE
    /\ cancelled = FALSE
    /\ timedOut = FALSE
    /\ truncated = FALSE
    /\ signalled = FALSE
    /\ proc = [p \in Processes |-> "unborn"]
    /\ written = [s \in Streams |-> 0]
    /\ pipe = [s \in Streams |-> 0]
    /\ held = [s \in Streams |-> 0]
    /\ sink = [s \in Streams |-> 0]
    /\ reading = [s \in Streams |-> FALSE]
    /\ outcome = NoResult

Move(from, to) == at = from /\ at' = to

Exists(p) == proc[p] \in {"alive", "dying"}

--------------------------------------------------------------------------------
(* the supervising thread *)

Launch ==
    /\ Move("start", "poll")
    /\ proc' = [proc EXCEPT ![Main] = "alive"]
    /\ reading' = [s \in Streams |-> TRUE]
    /\ UNCHANGED <<cancelled, timedOut, signalled, written, pipe, held, sink,
                   truncated, outside, outcome>>

(* Popen raises: no such program, no permission. *)
LaunchFails ==
    /\ Move("start", "raised")
    /\ UNCHANGED <<cancelled, timedOut, tree, output, outside, outcome>>

PollExited ==
    /\ Move("poll", "wait")
    /\ proc[Main] = "dead"
    /\ UNCHANGED <<cancelled, timedOut, tree, output, outside, outcome>>

(* Broken variant: the deadline counts from the last poll. *)
PollRestartsDeadline ==
    /\ Move("poll", "check")
    /\ proc[Main] # "dead"
    /\ expired' = FALSE
    /\ UNCHANGED <<cancelled, timedOut, tree, output, cancel, outcome>>

PollRunning ==
    /\ Move("poll", "check")
    /\ proc[Main] # "dead"
    /\ UNCHANGED <<cancelled, timedOut, tree, output, outside, outcome>>

SeeCancel ==
    /\ cancel
    /\ Move("check", "kill")
    /\ cancelled' = TRUE
    /\ UNCHANGED <<timedOut, tree, output, outside, outcome>>

SeeDeadline ==
    /\ ~cancel
    /\ expired
    /\ Move("check", "kill")
    /\ timedOut' = TRUE
    /\ UNCHANGED <<cancelled, tree, output, outside, outcome>>

Sleep ==
    /\ ~cancel
    /\ ~expired
    /\ Move("check", "poll")
    /\ UNCHANGED <<cancelled, timedOut, tree, output, outside, outcome>>

(* _kill_tree: nothing if the main process has exited, else SIGKILL to the  *)
(* whole group.                                                             *)
KillTree ==
    IF proc[Main] = "dead" THEN UNCHANGED tree
    ELSE /\ signalled' = TRUE
         /\ proc' = [p \in Processes |-> IF Exists(p) THEN "dying" ELSE proc[p]]

KillGroup ==
    /\ Move("kill", "wait")
    /\ KillTree
    /\ UNCHANGED <<cancelled, timedOut, output, outside, outcome>>

(* proc.wait(timeout=5), a second kill, proc.wait(timeout=5). *)
Waited ==
    /\ at \in {"wait", "wait again"}
    /\ proc[Main] = "dead"
    /\ at' = "join"
    /\ UNCHANGED <<cancelled, timedOut, tree, output, outside, outcome>>

WaitTimesOut ==
    /\ Move("wait", "wait again")
    /\ proc[Main] # "dead"
    /\ KillTree
    /\ UNCHANGED <<cancelled, timedOut, output, outside, outcome>>

SecondWaitTimesOut ==
    /\ Move("wait again", "raised")
    /\ proc[Main] # "dead"
    /\ UNCHANGED <<cancelled, timedOut, tree, output, outside, outcome>>

(* No process has the pipe open any more. *)
EndOfFile(s) == pipe[s] = 0 /\ \A p \in Processes : ~Exists(p)

(* Broken variant: the readers are not joined. *)
ReturnUnjoined ==
    /\ Move("join", "returned")
    /\ outcome' = [cancelled |-> cancelled, timedOut |-> timedOut,
                  truncated |-> truncated, sink |-> sink]
    /\ UNCHANGED <<cancelled, timedOut, tree, output, outside>>

(* join(timeout=2) on each reader, then the result is built.  A reader that *)
(* can reach the end of its stream is taken to do so within the timeout.    *)
Return ==
    /\ Move("join", "returned")
    /\ \A s \in Streams : reading[s] => \E p \in Processes : Exists(p)
    /\ outcome' = [cancelled |-> cancelled, timedOut |-> timedOut,
                  truncated |-> truncated, sink |-> sink]
    /\ UNCHANGED <<cancelled, timedOut, tree, output, outside>>

--------------------------------------------------------------------------------
(* _reader: one thread per stream *)

(* Broken variant: the last chunk is stored whole. *)
DeliverWhole(s, n) ==
    /\ sink' = [sink EXCEPT ![s] = IF @ < Limit THEN @ + n ELSE @]
    /\ truncated' = (truncated \/ sink[s] + n > Limit)
    /\ held' = [held EXCEPT ![s] = 0]

(* Broken variant: a chunk that just fits counts as truncated. *)
DeliverOffByOne(s, n) ==
    /\ sink' = [sink EXCEPT ![s] = IF @ + n <= Limit THEN @ + n ELSE Limit]
    /\ truncated' = (truncated \/ sink[s] + n >= Limit)
    /\ held' = [held EXCEPT ![s] = 0]

(* The chunk goes to the sink as far as there is room. *)
Deliver(s, n) ==
    /\ sink' = [sink EXCEPT ![s] = IF @ + n <= Limit THEN @ + n ELSE Limit]
    /\ truncated' = (truncated \/ sink[s] + n > Limit)
    /\ held' = [held EXCEPT ![s] = 0]

(* Broken variant: the reader stops when its sink is full. *)
ReadByteToLimit(s) ==
    /\ reading[s]
    /\ pipe[s] > 0
    /\ sink[s] < Limit
    /\ pipe' = [pipe EXCEPT ![s] = @ - 1]
    /\ IF held[s] + 1 = Chunk
       THEN Deliver(s, Chunk)
       ELSE /\ held' = [held EXCEPT ![s] = @ + 1]
            /\ UNCHANGED <<sink, truncated>>
    /\ UNCHANGED <<control, tree, written, reading, outside, outcome>>

ReadByte(s) ==
    /\ reading[s]
    /\ pipe[s] > 0
    /\ pipe' = [pipe EXCEPT ![s] = @ - 1]
    /\ IF held[s] + 1 = Chunk
       THEN Deliver(s, Chunk)
       ELSE /\ held' = [held EXCEPT ![s] = @ + 1]
            /\ UNCHANGED <<sink, truncated>>
    /\ UNCHANGED <<control, tree, written, reading, outside, outcome>>

ReadEnd(s) ==
    /\ reading[s]
    /\ EndOfFile(s)
    /\ reading' = [reading EXCEPT ![s] = FALSE]
    /\ Deliver(s, held[s])
    /\ UNCHANGED <<control, tree, written, pipe, outside, outcome>>

--------------------------------------------------------------------------------
(* the process tree and the rest of the program *)

Fork(c) ==
    /\ proc[c] = "unborn"
    /\ \E p \in Processes : proc[p] = "alive"
    /\ proc' = [proc EXCEPT ![c] = "alive"]
    /\ UNCHANGED <<control, signalled, output, outside, outcome>>

Write(p, s) ==
    /\ proc[p] = "alive"
    /\ pipe[s] < Capacity
    /\ written[s] < MaxOutput
    /\ pipe' = [pipe EXCEPT ![s] = @ + 1]
    /\ written' = [written EXCEPT ![s] = @ + 1]
    /\ UNCHANGED <<control, tree, held, sink, truncated, reading, outside, outcome>>

(* A process leaves by itself, or the kernel ends one that was killed. *)
Exit(p) ==
    /\ Exists(p)
    /\ proc' = [proc EXCEPT ![p] = "dead"]
    /\ UNCHANGED <<control, signalled, output, outside, outcome>>

RequestCancel ==
    /\ ~cancel
    /\ cancel' = TRUE
    /\ UNCHANGED <<control, tree, output, expired, outcome>>

DeadlinePasses ==
    /\ ~expired
    /\ at # "start"
    /\ expired' = TRUE
    /\ UNCHANGED <<control, tree, output, cancel, outcome>>

Supervise ==
    \/ Launch \/ LaunchFails \/ PollExited \/ PollRunning \/ SeeCancel
    \/ SeeDeadline \/ Sleep \/ KillGroup \/ Waited \/ WaitTimesOut
    \/ SecondWaitTimesOut \/ Return

Read(s) == ReadByte(s) \/ ReadEnd(s)

ProcessNext ==
    \/ Supervise
    \/ \E s \in Streams : Read(s)
    \/ \E c \in Children : Fork(c)
    \/ \E p \in Processes : Exit(p) \/ \E s \in Streams : Write(p, s)
    \/ RequestCancel
    \/ DeadlinePasses

(* Threads run.  What else must happen is stated with each property. *)
ProcessFairness == WF_processVars(Supervise) /\ \A s \in Streams : WF_processVars(Read(s))

ProcessSpec == ProcessInit /\ [][ProcessNext]_processVars
ProcessFairSpec == ProcessSpec /\ ProcessFairness

(* The main process writes all its output and exits. *)
MainStep ==
    \/ \E s \in Streams : Write(Main, s)
    \/ (\A s \in Streams : written[s] = MaxOutput) /\ Exit(Main)

--------------------------------------------------------------------------------
Places == {"start", "poll", "check", "kill", "wait", "wait again", "join",
              "returned", "raised"}

(* Type invariant; the sinks stay within output_limit. *)
ProcessTypeOK ==
    /\ at \in Places
    /\ {cancel, expired, cancelled, timedOut, truncated, signalled} \subseteq BOOLEAN
    /\ proc \in [Processes -> {"unborn", "alive", "dying", "dead"}]
    /\ written \in [Streams -> 0..MaxOutput]
    /\ pipe \in [Streams -> 0..Capacity]
    /\ held \in [Streams -> 0..(Chunk - 1)]
    /\ sink \in [Streams -> 0..Limit]
    /\ reading \in [Streams -> BOOLEAN]
    /\ outcome \in [cancelled : BOOLEAN, timedOut : BOOLEAN, truncated : BOOLEAN,
                   sink : [Streams -> 0..Limit]]

(* Bytes are lost only by truncation, and then the flag says so: the flag   *)
(* that two readers share is up exactly when one of them dropped a byte.    *)
TruncationIsFlagged ==
    LET lost(s) == written[s] - pipe[s] - held[s] - sink[s]
    IN  truncated <=> \E s \in Streams : lost(s) > 0

(* Once the group has been signalled no process of the tree goes on, also   *)
(* none that was forked while the supervisor made up its mind.              *)
SignalReachesTheTree ==
    signalled => \A p \in Processes : proc[p] # "alive"

(* run() returns only when the main process is dead, also if the kernel     *)
(* takes its time to end it; a run it cannot see the end of raises.         *)
ReturnsReaped == at = "returned" => proc[Main] = "dead"

(* run() returns all that the tree has written, cut only where the result   *)
(* says so, if no process outlives the main one to keep a pipe open.        *)
ResultIsComplete ==
    [][at = "join" /\ at' = "returned" /\ (\A p \in Processes : ~Exists(p)) =>
         \A s \in Streams : outcome'.truncated \/ outcome'.sink[s] = written[s]]_processVars

(* If time passes a run() that has begun ends, although the processes, and  *)
(* the kernel that should end them, may do nothing for ever.                *)
RunEnds ==
    WF_processVars(DeadlinePasses) => (at # "start" ~> at \in {"returned", "raised"})

(* A reader that has filled its sink goes on draining the pipe: a process   *)
(* with more output than the limit is never blocked by its supervisor, and  *)
(* ends without a cancel or the deadline.                                   *)
OutputNeverBlocks ==
    WF_processVars(MainStep) =>
        (at # "start" ~> proc[Main] = "dead" \/ at = "raised")

(* "The whole process tree is terminated on cancellation or timeout so a    *)
(* scan cannot outlive its job".  Violated: _kill_tree does nothing when    *)
(* the main process has exited since the poll that saw it running.          *)
TreeIsTerminated ==
    at = "returned" /\ (outcome.cancelled \/ outcome.timedOut)
        => \A p \in Processes : proc[p] # "alive"
================================================================================
