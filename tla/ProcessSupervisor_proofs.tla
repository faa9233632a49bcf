------------------------ MODULE ProcessSupervisor_proofs ------------------------
(***************************************************************************)
(* Proofs about ProcessSupervisor for any number of processes and streams  *)
(* and any limit, chunk size and pipe capacity.  The invariant adds to the *)
(* stated properties that nobody is signalled before the launch, where the *)
(* main process is known to be dead, that a stream whose reader has ended  *)
(* stays at its end, and that no stream has more bytes read than written.  *)
(***************************************************************************)
EXTENDS ProcessSupervisor, TLAPS

(* The group is signalled only after its launch, and then as a whole. *)
SignalInv ==
    /\ at = "start" => ~signalled
    /\ SignalReachesTheTree

(* The supervisor goes past its wait only when the main process is dead. *)
ReapedInv == at \in {"join", "returned"} => proc[Main] = "dead"

(* A reader that does not run has nothing left to read, now or later. *)
DrainedInv ==
    \A s \in Streams : ~reading[s] =>
        /\ pipe[s] = 0
        /\ held[s] = 0
        /\ \A p \in Processes : ~Exists(p)

(* The bytes of a stream that were dropped. *)
Lost(s) == written[s] - pipe[s] - held[s] - sink[s]

LossInv ==
    /\ \A s \in Streams : Lost(s) >= 0
    /\ truncated <=> \E s \in Streams : Lost(s) > 0

IInv ==
    /\ ProcessTypeOK
    /\ SignalInv
    /\ ReapedInv
    /\ DrainedInv
    /\ LossInv
--------------------------------------------------------------------------------
(* The bounds are numbers. *)
LEMMA Numbers ==
    /\ Limit \in Nat
    /\ MaxOutput \in Nat
    /\ Chunk \in Nat \ {0}
    /\ Capacity \in Nat \ {0}
BY SupervisorAssumption DEF SupervisorAssumption

(* TypeOK in two parts, the counters and the rest. *)
ByteTypes ==
    /\ written \in [Streams -> 0..MaxOutput]
    /\ pipe \in [Streams -> 0..Capacity]
    /\ held \in [Streams -> 0..(Chunk - 1)]
    /\ sink \in [Streams -> 0..Limit]

OtherTypes ==
    /\ at \in Places
    /\ {cancel, expired, cancelled, timedOut, truncated, signalled} \subseteq BOOLEAN
    /\ proc \in [Processes -> {"unborn", "alive", "dying", "dead"}]
    /\ reading \in [Streams -> BOOLEAN]
    /\ outcome \in [cancelled : BOOLEAN, timedOut : BOOLEAN, truncated : BOOLEAN,
                   sink : [Streams -> 0..Limit]]

(* Every step keeps the counts of bytes within their bounds. *)
LEMMA ByteStep ==
    ASSUME ByteTypes, [ProcessNext]_processVars
    PROVE  ByteTypes'
<1> USE Numbers DEF ByteTypes, control, tree, output, outside
<1>1. CASE Launch
  BY <1>1 DEF Launch, Move
<1>2. CASE LaunchFails
  BY <1>2 DEF LaunchFails, Move
<1>3. CASE PollExited
  BY <1>3 DEF PollExited, Move
<1>4. CASE PollRunning
  BY <1>4 DEF PollRunning, Move
<1>5. CASE SeeCancel
  BY <1>5 DEF SeeCancel, Move
<1>6. CASE SeeDeadline
  BY <1>6 DEF SeeDeadline, Move
<1>7. CASE Sleep
  BY <1>7 DEF Sleep, Move
<1>8. CASE KillGroup
  BY <1>8 DEF KillGroup, Move, KillTree
<1>9. CASE Waited
  BY <1>9 DEF Waited
<1>10. CASE WaitTimesOut
  BY <1>10 DEF WaitTimesOut, Move, KillTree
<1>11. CASE SecondWaitTimesOut
  BY <1>11 DEF SecondWaitTimesOut, Move
<1>12. CASE Return
  BY <1>12 DEF Return, Move
<1>13. ASSUME NEW s \in Streams, ReadByte(s) PROVE ByteTypes'
  <2>1. CASE held[s] + 1 = Chunk
    BY <1>13, <2>1 DEF ReadByte, Deliver
  <2>2. CASE held[s] + 1 # Chunk
    BY <1>13, <2>2 DEF ReadByte
  <2>3. QED
    BY <2>1, <2>2
<1>14. ASSUME NEW s \in Streams, ReadEnd(s) PROVE ByteTypes'
  BY <1>14 DEF ReadEnd, Deliver, EndOfFile
<1>15. ASSUME NEW c \in Children, Fork(c) PROVE ByteTypes'
  BY <1>15 DEF Fork
<1>16. ASSUME NEW p \in Processes, Exit(p) PROVE ByteTypes'
  BY <1>16 DEF Exit
<1>17. ASSUME NEW p \in Processes, NEW s \in Streams, Write(p, s) PROVE ByteTypes'
  BY <1>17 DEF Write
<1>18. CASE RequestCancel
  BY <1>18 DEF RequestCancel
<1>19. CASE DeadlinePasses
  BY <1>19 DEF DeadlinePasses
<1>20. CASE UNCHANGED processVars
  BY <1>20 DEF processVars
<1>21. QED
  BY <1>1, <1>2, <1>3, <1>4, <1>5, <1>6, <1>7, <1>8, <1>9, <1>10, <1>11, <1>12, <1>13,
      <1>14, <1>15, <1>16, <1>17, <1>18, <1>19, <1>20
     DEF ProcessNext, Supervise, Read

(* Every step keeps the types of the other variables. *)
LEMMA OtherStep ==
    ASSUME ProcessTypeOK, [ProcessNext]_processVars
    PROVE  OtherTypes'
<1> USE SupervisorAssumption DEF ProcessTypeOK, OtherTypes, Places, Processes, Exists,
    control, tree, output, outside
<1>1. CASE Launch
  BY <1>1 DEF Launch, Move
<1>2. CASE LaunchFails
  BY <1>2 DEF LaunchFails, Move
<1>3. CASE PollExited
  BY <1>3 DEF PollExited, Move
<1>4. CASE PollRunning
  BY <1>4 DEF PollRunning, Move
<1>5. CASE SeeCancel
  BY <1>5 DEF SeeCancel, Move
<1>6. CASE SeeDeadline
  BY <1>6 DEF SeeDeadline, Move
<1>7. CASE Sleep
  BY <1>7 DEF Sleep, Move
<1>8. CASE KillGroup
  BY <1>8 DEF KillGroup, Move, KillTree
<1>9. CASE Waited
  BY <1>9 DEF Waited
<1>10. CASE WaitTimesOut
  BY <1>10 DEF WaitTimesOut, Move, KillTree
<1>11. CASE SecondWaitTimesOut
  BY <1>11 DEF SecondWaitTimesOut, Move
<1>12. CASE Return
  BY <1>12 DEF Return, Move
<1>13. ASSUME NEW s \in Streams, ReadByte(s) PROVE OtherTypes'
  BY <1>13 DEF ReadByte, Deliver
<1>14. ASSUME NEW s \in Streams, ReadEnd(s) PROVE OtherTypes'
  BY <1>14 DEF ReadEnd, Deliver, EndOfFile
<1>15. ASSUME NEW c \in Children, Fork(c) PROVE OtherTypes'
  BY <1>15 DEF Fork
<1>16. ASSUME NEW p \in Processes, Exit(p) PROVE OtherTypes'
  BY <1>16 DEF Exit
<1>17. ASSUME NEW p \in Processes, NEW s \in Streams, Write(p, s) PROVE OtherTypes'
  BY <1>17 DEF Write
<1>18. CASE RequestCancel
  BY <1>18 DEF RequestCancel
<1>19. CASE DeadlinePasses
  BY <1>19 DEF DeadlinePasses
<1>20. CASE UNCHANGED processVars
  BY <1>20 DEF processVars
<1>21. QED
  BY <1>1, <1>2, <1>3, <1>4, <1>5, <1>6, <1>7, <1>8, <1>9, <1>10, <1>11, <1>12, <1>13,
      <1>14, <1>15, <1>16, <1>17, <1>18, <1>19, <1>20
     DEF ProcessNext, Supervise, Read

(* Every step keeps the types. *)
LEMMA TypeStep ==
    ASSUME ProcessTypeOK, [ProcessNext]_processVars
    PROVE  ProcessTypeOK'
BY ByteStep, OtherStep DEF ProcessTypeOK, ByteTypes, OtherTypes

(* Every step keeps a signalled group from having a running process. *)
LEMMA SignalStep ==
    ASSUME ProcessTypeOK, SignalInv, [ProcessNext]_processVars
    PROVE  SignalInv'
<1> USE SupervisorAssumption DEF ProcessTypeOK, SignalInv, SignalReachesTheTree, Processes,
    Exists, control, tree, output, outside
<1>1. CASE Launch
  BY <1>1 DEF Launch, Move
<1>2. CASE LaunchFails
  BY <1>2 DEF LaunchFails, Move
<1>3. CASE PollExited
  BY <1>3 DEF PollExited, Move
<1>4. CASE PollRunning
  BY <1>4 DEF PollRunning, Move
<1>5. CASE SeeCancel
  BY <1>5 DEF SeeCancel, Move
<1>6. CASE SeeDeadline
  BY <1>6 DEF SeeDeadline, Move
<1>7. CASE Sleep
  BY <1>7 DEF Sleep, Move
<1>8. CASE KillGroup
  BY <1>8 DEF KillGroup, Move, KillTree
<1>9. CASE Waited
  BY <1>9 DEF Waited
<1>10. CASE WaitTimesOut
  BY <1>10 DEF WaitTimesOut, Move, KillTree
<1>11. CASE SecondWaitTimesOut
  BY <1>11 DEF SecondWaitTimesOut, Move
<1>12. CASE Return
  BY <1>12 DEF Return, Move
<1>13. ASSUME NEW s \in Streams, ReadByte(s) PROVE SignalInv'
  BY <1>13 DEF ReadByte, Deliver
<1>14. ASSUME NEW s \in Streams, ReadEnd(s) PROVE SignalInv'
  BY <1>14 DEF ReadEnd, Deliver, EndOfFile
<1>15. ASSUME NEW c \in Children, Fork(c) PROVE SignalInv'
  BY <1>15 DEF Fork
<1>16. ASSUME NEW p \in Processes, Exit(p) PROVE SignalInv'
  BY <1>16 DEF Exit
<1>17. ASSUME NEW p \in Processes, NEW s \in Streams, Write(p, s) PROVE SignalInv'
  BY <1>17 DEF Write
<1>18. CASE RequestCancel
  BY <1>18 DEF RequestCancel
<1>19. CASE DeadlinePasses
  BY <1>19 DEF DeadlinePasses
<1>20. CASE UNCHANGED processVars
  BY <1>20 DEF processVars
<1>21. QED
  BY <1>1, <1>2, <1>3, <1>4, <1>5, <1>6, <1>7, <1>8, <1>9, <1>10, <1>11, <1>12, <1>13,
      <1>14, <1>15, <1>16, <1>17, <1>18, <1>19, <1>20
     DEF ProcessNext, Supervise, Read

(* Every step keeps the main process dead once it was waited for. *)
LEMMA ReapedStep ==
    ASSUME ProcessTypeOK, ReapedInv, [ProcessNext]_processVars
    PROVE  ReapedInv'
<1> USE SupervisorAssumption DEF ProcessTypeOK, ReapedInv, Processes, Exists, control, tree,
    output, outside
<1>1. CASE Launch
  BY <1>1 DEF Launch, Move
<1>2. CASE LaunchFails
  BY <1>2 DEF LaunchFails, Move
<1>3. CASE PollExited
  BY <1>3 DEF PollExited, Move
<1>4. CASE PollRunning
  BY <1>4 DEF PollRunning, Move
<1>5. CASE SeeCancel
  BY <1>5 DEF SeeCancel, Move
<1>6. CASE SeeDeadline
  BY <1>6 DEF SeeDeadline, Move
<1>7. CASE Sleep
  BY <1>7 DEF Sleep, Move
<1>8. CASE KillGroup
  BY <1>8 DEF KillGroup, Move, KillTree
<1>9. CASE Waited
  BY <1>9 DEF Waited
<1>10. CASE WaitTimesOut
  BY <1>10 DEF WaitTimesOut, Move, KillTree
<1>11. CASE SecondWaitTimesOut
  BY <1>11 DEF SecondWaitTimesOut, Move
<1>12. CASE Return
  BY <1>12 DEF Return, Move
<1>13. ASSUME NEW s \in Streams, ReadByte(s) PROVE ReapedInv'
  BY <1>13 DEF ReadByte, Deliver
<1>14. ASSUME NEW s \in Streams, ReadEnd(s) PROVE ReapedInv'
  BY <1>14 DEF ReadEnd, Deliver, EndOfFile
<1>15. ASSUME NEW c \in Children, Fork(c) PROVE ReapedInv'
  BY <1>15 DEF Fork
<1>16. ASSUME NEW p \in Processes, Exit(p) PROVE ReapedInv'
  BY <1>16 DEF Exit
<1>17. ASSUME NEW p \in Processes, NEW s \in Streams, Write(p, s) PROVE ReapedInv'
  BY <1>17 DEF Write
<1>18. CASE RequestCancel
  BY <1>18 DEF RequestCancel
<1>19. CASE DeadlinePasses
  BY <1>19 DEF DeadlinePasses
<1>20. CASE UNCHANGED processVars
  BY <1>20 DEF processVars
<1>21. QED
  BY <1>1, <1>2, <1>3, <1>4, <1>5, <1>6, <1>7, <1>8, <1>9, <1>10, <1>11, <1>12, <1>13,
      <1>14, <1>15, <1>16, <1>17, <1>18, <1>19, <1>20
     DEF ProcessNext, Supervise, Read

(* Every step leaves the stream of a finished reader at its end. *)
LEMMA DrainedStep ==
    ASSUME ProcessTypeOK, DrainedInv, [ProcessNext]_processVars
    PROVE  DrainedInv'
<1> USE SupervisorAssumption DEF ProcessTypeOK, DrainedInv, Processes, Exists, control, tree,
    output, outside
<1>1. CASE Launch
  BY <1>1 DEF Launch, Move
<1>2. CASE LaunchFails
  BY <1>2 DEF LaunchFails, Move
<1>3. CASE PollExited
  BY <1>3 DEF PollExited, Move
<1>4. CASE PollRunning
  BY <1>4 DEF PollRunning, Move
<1>5. CASE SeeCancel
  BY <1>5 DEF SeeCancel, Move
<1>6. CASE SeeDeadline
  BY <1>6 DEF SeeDeadline, Move
<1>7. CASE Sleep
  BY <1>7 DEF Sleep, Move
<1>8. CASE KillGroup
  BY <1>8 DEF KillGroup, Move, KillTree
<1>9. CASE Waited
  BY <1>9 DEF Waited
<1>10. CASE WaitTimesOut
  BY <1>10 DEF WaitTimesOut, Move, KillTree
<1>11. CASE SecondWaitTimesOut
  BY <1>11 DEF SecondWaitTimesOut, Move
<1>12. CASE Return
  BY <1>12 DEF Return, Move
<1>13. ASSUME NEW s \in Streams, ReadByte(s) PROVE DrainedInv'
  BY <1>13 DEF ReadByte, Deliver
<1>14. ASSUME NEW s \in Streams, ReadEnd(s) PROVE DrainedInv'
  BY <1>14 DEF ReadEnd, Deliver, EndOfFile
<1>15. ASSUME NEW c \in Children, Fork(c) PROVE DrainedInv'
  BY <1>15 DEF Fork
<1>16. ASSUME NEW p \in Processes, Exit(p) PROVE DrainedInv'
  BY <1>16 DEF Exit
<1>17. ASSUME NEW p \in Processes, NEW s \in Streams, Write(p, s) PROVE DrainedInv'
  BY <1>17 DEF Write
<1>18. CASE RequestCancel
  BY <1>18 DEF RequestCancel
<1>19. CASE DeadlinePasses
  BY <1>19 DEF DeadlinePasses
<1>20. CASE UNCHANGED processVars
  BY <1>20 DEF processVars
<1>21. QED
  BY <1>1, <1>2, <1>3, <1>4, <1>5, <1>6, <1>7, <1>8, <1>9, <1>10, <1>11, <1>12, <1>13,
      <1>14, <1>15, <1>16, <1>17, <1>18, <1>19, <1>20
     DEF ProcessNext, Supervise, Read

(* Every step keeps the account of the bytes: none appear, and the flag is up *)
(* exactly when some were dropped.                                           *)
LEMMA LossStep ==
    ASSUME ProcessTypeOK, LossInv, [ProcessNext]_processVars
    PROVE  LossInv'
<1> USE SupervisorAssumption DEF ProcessTypeOK, LossInv, TruncationIsFlagged, Lost,
    Processes, Exists, control, tree, output, outside
<1>1. CASE Launch
  BY <1>1 DEF Launch, Move
<1>2. CASE LaunchFails
  BY <1>2 DEF LaunchFails, Move
<1>3. CASE PollExited
  BY <1>3 DEF PollExited, Move
<1>4. CASE PollRunning
  BY <1>4 DEF PollRunning, Move
<1>5. CASE SeeCancel
  BY <1>5 DEF SeeCancel, Move
<1>6. CASE SeeDeadline
  BY <1>6 DEF SeeDeadline, Move
<1>7. CASE Sleep
  BY <1>7 DEF Sleep, Move
<1>8. CASE KillGroup
  BY <1>8 DEF KillGroup, Move, KillTree
<1>9. CASE Waited
  BY <1>9 DEF Waited
<1>10. CASE WaitTimesOut
  BY <1>10 DEF WaitTimesOut, Move, KillTree
<1>11. CASE SecondWaitTimesOut
  BY <1>11 DEF SecondWaitTimesOut, Move
<1>12. CASE Return
  BY <1>12 DEF Return, Move
<1>13. ASSUME NEW s \in Streams, ReadByte(s) PROVE LossInv'
  BY <1>13 DEF ReadByte, Deliver
<1>14. ASSUME NEW s \in Streams, ReadEnd(s) PROVE LossInv'
  BY <1>14 DEF ReadEnd, Deliver, EndOfFile
<1>15. ASSUME NEW c \in Children, Fork(c) PROVE LossInv'
  BY <1>15 DEF Fork
<1>16. ASSUME NEW p \in Processes, Exit(p) PROVE LossInv'
  BY <1>16 DEF Exit
<1>17. ASSUME NEW p \in Processes, NEW s \in Streams, Write(p, s) PROVE LossInv'
  BY <1>17 DEF Write
<1>18. CASE RequestCancel
  BY <1>18 DEF RequestCancel
<1>19. CASE DeadlinePasses
  BY <1>19 DEF DeadlinePasses
<1>20. CASE UNCHANGED processVars
  BY <1>20 DEF processVars
<1>21. QED
  BY <1>1, <1>2, <1>3, <1>4, <1>5, <1>6, <1>7, <1>8, <1>9, <1>10, <1>11, <1>12, <1>13,
      <1>14, <1>15, <1>16, <1>17, <1>18, <1>19, <1>20
     DEF ProcessNext, Supervise, Read

--------------------------------------------------------------------------------
(* The inductive invariant holds in every reachable state. *)
THEOREM Inductive == ProcessSpec => []IInv
<1>1. ProcessInit => IInv
  <2>1. ProcessInit => ByteTypes
    BY Numbers DEF ProcessInit, ByteTypes
  <2>2. ProcessInit => OtherTypes
    <3>1. [s \in Streams |-> 0] \in [Streams -> 0..Limit]
      BY Numbers
    <3>2. NoResult \in [cancelled : BOOLEAN, timedOut : BOOLEAN, truncated : BOOLEAN,
                       sink : [Streams -> 0..Limit]]
      BY <3>1 DEF NoResult
    <3>3. QED
      BY <3>2 DEF ProcessInit, OtherTypes, Places
  <2>3. ProcessInit => SignalInv /\ ReapedInv /\ DrainedInv
    BY DEF ProcessInit, SignalInv, SignalReachesTheTree, ReapedInv, DrainedInv, Exists
  <2>4. ProcessInit => LossInv
    BY DEF ProcessInit, LossInv, Lost
  <2>5. QED
    BY <2>1, <2>2, <2>3, <2>4 DEF IInv, ProcessTypeOK, ByteTypes, OtherTypes
<1>2. IInv /\ [ProcessNext]_processVars => IInv'
  BY TypeStep, SignalStep, ReapedStep, DrainedStep, LossStep DEF IInv
<1>3. QED
  BY <1>1, <1>2, PTL DEF ProcessSpec

(* The types, and with them the bound of output_limit on every sink. *)
THEOREM TypeCorrect == ProcessSpec => []ProcessTypeOK
<1>1. IInv => ProcessTypeOK
  BY DEF IInv
<1>2. QED
  BY <1>1, Inductive, PTL

(* killpg reaches every process of the tree, whenever it was forked. *)
THEOREM SignalledTreeStops == ProcessSpec => []SignalReachesTheTree
<1>1. IInv => SignalReachesTheTree
  BY DEF IInv, SignalInv
<1>2. QED
  BY <1>1, Inductive, PTL

(* run() does not return before the main process is dead. *)
THEOREM ReturnIsReaped == ProcessSpec => []ReturnsReaped
<1>1. IInv => ReturnsReaped
  BY DEF IInv, ReapedInv, ReturnsReaped
<1>2. QED
  BY <1>1, Inductive, PTL

(* output_truncated is set exactly when a reader dropped a byte. *)
THEOREM FlagMeansLoss == ProcessSpec => []TruncationIsFlagged
<1>1. IInv => TruncationIsFlagged
  BY DEF IInv, LossInv, TruncationIsFlagged, Lost
<1>2. QED
  BY <1>1, Inductive, PTL

(* Without survivors, run() returns after the readers: with every byte. *)
THEOREM CompleteResult == ProcessSpec => ResultIsComplete
<1>1. ASSUME IInv, [ProcessNext]_processVars, at = "join", at' = "returned",
             \A p \in Processes : ~Exists(p), NEW s \in Streams
      PROVE  outcome'.truncated \/ outcome'.sink[s] = written[s]
  <2>1. Return
    BY <1>1
       DEF ProcessNext, processVars, control, Supervise, Read, Launch, LaunchFails, PollExited,
           PollRunning, SeeCancel, SeeDeadline, Sleep, KillGroup, Waited, WaitTimesOut,
           SecondWaitTimesOut, Move, ReadByte, ReadEnd, Fork, Exit, Write,
           RequestCancel, DeadlinePasses
  <2>2. /\ pipe[s] = 0
        /\ held[s] = 0
    BY <1>1, <2>1 DEF Return, IInv, ProcessTypeOK, DrainedInv
  <2>3. truncated \/ written[s] = sink[s]
    BY <1>1, <2>2 DEF IInv, ProcessTypeOK, LossInv, Lost
  <2>4. QED
    BY <2>1, <2>3 DEF Return
<1>2. IInv /\ [ProcessNext]_processVars =>
        [at = "join" /\ at' = "returned" /\ (\A p \in Processes : ~Exists(p)) =>
           \A s \in Streams : outcome'.truncated \/ outcome'.sink[s] = written[s]]_processVars
  BY <1>1
<1>3. QED
  BY <1>2, Inductive, PTL DEF ProcessSpec, ResultIsComplete
================================================================================
