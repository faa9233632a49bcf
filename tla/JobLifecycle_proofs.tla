--------------------------- MODULE JobLifecycle_proofs ---------------------------
(***************************************************************************)
(* Proofs about JobLifecycle for any number of jobs, cancel requests and   *)
(* kills.  The inductive invariant ties the position of a job's thread to  *)
(* the locks it holds, the row it has committed and the events of its log. *)
(***************************************************************************)
EXTENDS JobLifecycle, SequenceTheorems, TLAPS

(* The database lock is held by the one job whose transaction is open, the  *)
(* module lock by the one whose module runs.                                *)
LockInv ==
    \A j \in Jobs : /\ writer = j <=> pc[j] \in InTransaction
                    /\ active = j <=> pc[j] = "executing"

(* Only a committed job has a row, and it is the job's outcome. *)
RowInv ==
    \A j \in Jobs :
        /\ pc[j] \in {"executed", "stored", "committed"} => result[j] \in ModuleStatuses
        /\ pc[j] = "committed" => row[j] = result[j]
        /\ row[j] # None => /\ row[j] \in ModuleStatuses
                            /\ pc[j] \in {"committed", "ended", "forgotten"}

RestTypes ==
    /\ up \in BOOLEAN
    /\ kills \in 0..MaxKills
    /\ pc \in [Jobs -> Positions]
    /\ canceller \in [Cancels -> Jobs \cup {Nobody, None}]
    /\ writer \in Jobs \cup {Nobody}
    /\ active \in Jobs \cup {Nobody}
    /\ result \in [Jobs -> ModuleStatuses \cup {"running"}]
    /\ evidence \in [Jobs -> BOOLEAN]
    /\ row \in [Jobs -> Terminal \cup Unfinished \cup {None}]

Event == [type : Types, status : Terminal \cup {"none"}]

(* No event of the log s is a verdict. *)
Silent(s) == \A i \in 1..Len(s) : ~IsVerdict(s[i])

(* The verdict of s is its i-th event and announces r, or an error without  *)
(* a row; other events are none, and those behind it come from cancels.     *)
Announces(s, i, r) ==
    /\ i \in 1..Len(s)
    /\ IsVerdict(s[i])
    /\ IF r = None THEN s[i].type = "error" ELSE s[i].type = r /\ s[i].status = r
    /\ \A k \in 1..Len(s) : k # i =>
          ~IsVerdict(s[k]) /\ (i < k => s[k].type = "cancelling")

LogInv ==
    \A j \in Jobs :
        /\ pc[j] # "ended" => Silent(log[j])
        /\ pc[j] = "ended" => \E i \in Nat : Announces(log[j], i, row[j])

IInv == TypeOK /\ LockInv /\ RowInv /\ LogInv
--------------------------------------------------------------------------------
(* What an event behind the others does to a log. *)
LEMMA Appended ==
    ASSUME NEW s \in Seq(Event), NEW e \in Event
    PROVE  LET t == Append(s, e)
           IN  /\ t \in Seq(Event)
               /\ Len(s) \in Nat
               /\ Len(t) = Len(s) + 1
               /\ t[Len(s) + 1] = e
               /\ \A k \in 1..Len(t) : k = Len(s) + 1 \/ k \in 1..Len(s)
               /\ \A k \in 1..Len(s) : t[k] = s[k]
<1>1. Len(s) \in Nat
  BY LenProperties
<1>2. Len(Append(s, e)) = Len(s) + 1
  BY AppendProperties
<1>3. \A k \in 1..(Len(s) + 1) : k = Len(s) + 1 \/ k \in 1..Len(s)
  BY <1>1
<1>4. QED
  BY <1>1, <1>2, <1>3, AppendProperties

(* A log without a verdict gets none from an event that is none ... *)
LEMMA SilentAppend ==
    ASSUME NEW s \in Seq(Event), NEW e \in Event, Silent(s), ~IsVerdict(e)
    PROVE  Silent(Append(s, e))
BY Appended DEF Silent

(* ... and its only one from an event that is. *)
LEMMA FirstVerdict ==
    ASSUME NEW s \in Seq(Event), NEW e \in Event, Silent(s), IsVerdict(e), NEW r,
           IF r = None THEN e.type = "error" ELSE e.type = r /\ e.status = r
    PROVE  \E i \in Nat : Announces(Append(s, e), i, r)
<1> DEFINE t == Append(s, e)
<1>1. PICK n \in Nat : n = Len(s) + 1
  BY Appended
<1>2. /\ n \in 1..Len(t)
      /\ t[n] = e
      /\ \A k \in 1..Len(t) : k # n => ~IsVerdict(t[k]) /\ k <= Len(s)
  BY <1>1, Appended DEF Silent
<1>3. \A k \in 1..Len(t) : k # n => ~(n < k)
  BY <1>1, <1>2, Appended
<1>4. Announces(t, n, r)
  BY <1>2, <1>3 DEF Announces
<1>5. QED
  BY <1>4

(* A late cancel changes nothing of what was announced. *)
LEMMA LateCancel ==
    ASSUME NEW s \in Seq(Event), NEW i \in Nat, NEW r, Announces(s, i, r)
    PROVE  Announces(Append(s, [type |-> "cancelling", status |-> "none"]), i, r)
<1> DEFINE e == [type |-> "cancelling", status |-> "none"]
           t == Append(s, e)
<1>1. e \in Event /\ ~IsVerdict(e)
  BY DEF Event, Types, IsVerdict, Terminal, ModuleStatuses
<1>2. /\ Len(s) \in Nat
      /\ Len(t) = Len(s) + 1
      /\ t[Len(s) + 1] = e
      /\ \A k \in 1..Len(t) : k = Len(s) + 1 \/ k \in 1..Len(s)
      /\ \A k \in 1..Len(s) : t[k] = s[k]
  BY <1>1, Appended
<1> HIDE DEF t
<1>3. i \in 1..Len(s) /\ i \in 1..Len(t)
  BY <1>2 DEF Announces
<1>4. ASSUME NEW k \in 1..Len(t), k # i
      PROVE  ~IsVerdict(t[k]) /\ (i < k => t[k].type = "cancelling")
  BY <1>1, <1>2, <1>4 DEF Announces
<1>5. Announces(t, i, r)
  BY <1>2, <1>3, <1>4 DEF Announces
<1>6. QED
  BY <1>5 DEF t

(* A step that adds an event to one log, in the terms of the invariant. *)
LogOK == log \in [Jobs -> Seq(Event)] /\ LogInv

LEMMA OneLog ==
    ASSUME IInv, NEW j \in Jobs, NEW e \in Event,
           log' = [log EXCEPT ![j] = Append(@, e)],
           \A i \in Jobs \ {j} : pc'[i] = pc[i] /\ row'[i] = row[i],
           pc'[j] # "ended" => Silent(Append(log[j], e)),
           pc'[j] = "ended" => \E i \in Nat : Announces(Append(log[j], e), i, row'[j])
    PROVE  LogOK'
<1>1. log \in [Jobs -> Seq(Event)]
  BY DEF IInv, TypeOK, Event
<1>2. log' \in [Jobs -> Seq(Event)]
  BY <1>1, AppendProperties
<1>3. ASSUME NEW i \in Jobs \ {j}
      PROVE  /\ pc'[i] # "ended" => Silent(log'[i])
             /\ pc'[i] = "ended" => \E k \in Nat : Announces(log'[i], k, row'[i])
  BY <1>1, <1>3 DEF IInv, LogInv
<1>4. /\ pc'[j] # "ended" => Silent(log'[j])
      /\ pc'[j] = "ended" => \E k \in Nat : Announces(log'[j], k, row'[j])
  BY <1>1
<1>5. QED
  BY <1>2, <1>3, <1>4 DEF LogOK, LogInv

(* A step that leaves a log before its verdict and adds no verdict. *)
LEMMA QuietEvent ==
    ASSUME IInv, NEW j \in Jobs, NEW type \in Types,
           log' = [log EXCEPT ![j] = Append(@, [type |-> type, status |-> "none"])],
           pc[j] # "ended", pc'[j] # "ended", UNCHANGED row,
           \A i \in Jobs \ {j} : pc'[i] = pc[i]
    PROVE  LogOK'
<1> DEFINE e == [type |-> type, status |-> "none"]
<1>1. e \in Event /\ ~IsVerdict(e)
  BY DEF Event, IsVerdict, Terminal, ModuleStatuses
<1>2. log[j] \in Seq(Event) /\ Silent(log[j])
  BY DEF IInv, TypeOK, Event, LogInv
<1>3. Silent(Append(log[j], e))
  BY <1>1, <1>2, SilentAppend
<1>4. QED
  BY <1>1, <1>3, OneLog

(* A step that ends a run with its verdict. *)
LEMMA LastEvent ==
    ASSUME IInv, NEW j \in Jobs, NEW type \in Types, NEW status \in Terminal,
           log' = [log EXCEPT ![j] = Append(@, [type |-> type, status |-> status])],
           pc[j] # "ended", pc'[j] = "ended", UNCHANGED row,
           IF row[j] = None THEN type = "error" ELSE type = row[j] /\ status = row[j],
           \A i \in Jobs \ {j} : pc'[i] = pc[i]
    PROVE  LogOK'
<1> DEFINE e == [type |-> type, status |-> status]
<1>1. e \in Event /\ IsVerdict(e)
  BY DEF Event, IsVerdict
<1>2. log[j] \in Seq(Event) /\ Silent(log[j])
  BY DEF IInv, TypeOK, Event, LogInv
<1>3. \E i \in Nat : Announces(Append(log[j], e), i, row[j])
  BY <1>1, <1>2, FirstVerdict
<1>4. QED
  BY <1>1, <1>3, OneLog

(* A step that adds no event and neither ends a run nor disturbs an ended one. *)
LEMMA NoEvent ==
    ASSUME IInv, UNCHANGED log, NEW j \in Jobs,
           pc[j] # "ended", pc'[j] # "ended",
           \A i \in Jobs \ {j} : pc'[i] = pc[i] /\ row'[i] = row[i]
    PROVE  LogOK'
<1>1. log' \in [Jobs -> Seq(Event)]
  BY DEF IInv, TypeOK, Event
<1>2. ASSUME NEW i \in Jobs
      PROVE  /\ pc'[i] # "ended" => Silent(log'[i])
             /\ pc'[i] = "ended" => \E k \in Nat : Announces(log'[i], k, row'[i])
  BY DEF IInv, LogInv
<1>3. QED
  BY <1>1, <1>2 DEF LogOK, LogInv
--------------------------------------------------------------------------------
(* Every step keeps the types, those of the log aside. *)
LEMMA RestStep ==
    ASSUME IInv, [Next]_vars
    PROVE  RestTypes'
<1> USE JobsAssumption DEF JobsAssumption, IInv, TypeOK, RestTypes, RowInv, Positions,
    Terminal, Unfinished, ModuleStatuses, HasHandle, InRun, InTransaction, InThread,
    process, locks, stored
<1>1. ASSUME NEW j \in Jobs, Submit(j) PROVE RestTypes'
  BY <1>1 DEF Submit, Goto
<1>2. ASSUME NEW j \in Jobs, UnknownModule(j) PROVE RestTypes'
  BY <1>2 DEF UnknownModule, Goto, Emit
<1>3. ASSUME NEW j \in Jobs, Start(j) PROVE RestTypes'
  BY <1>3 DEF Start, Progress, Goto, Emit
<1>4. ASSUME NEW j \in Jobs, Flush(j) PROVE RestTypes'
  BY <1>4 DEF Flush, Goto
<1>5. ASSUME NEW j \in Jobs, LockTimeout(j) PROVE RestTypes'
  BY <1>5 DEF LockTimeout, Goto
<1>6. ASSUME NEW j \in Jobs, Gate(j) PROVE RestTypes'
  BY <1>6 DEF Gate, Progress, Goto, Emit
<1>7. ASSUME NEW j \in Jobs, Blocked(j) PROVE RestTypes'
  BY <1>7 DEF Blocked, Refuse, Goto, Emit
<1>8. ASSUME NEW j \in Jobs, Allowed(j) PROVE RestTypes'
  BY <1>8 DEF Allowed, Progress, Goto, Emit
<1>9. ASSUME NEW j \in Jobs, ResolveFailed(j) PROVE RestTypes'
  BY <1>9 DEF ResolveFailed, Refuse, Goto, Emit
<1>10. ASSUME NEW j \in Jobs, Pinned(j) PROVE RestTypes'
  BY <1>10 DEF Pinned, Progress, Goto, Emit
<1>11. ASSUME NEW j \in Jobs, Contacting(j) PROVE RestTypes'
  BY <1>11 DEF Contacting, Progress, Goto, Emit
<1>12. ASSUME NEW j \in Jobs, Acquire(j) PROVE RestTypes'
  BY <1>12 DEF Acquire, Goto
<1>13. ASSUME NEW j \in Jobs, Execute(j) PROVE RestTypes'
  BY <1>13 DEF Execute, Goto
<1>14. ASSUME NEW j \in Jobs, Store(j) PROVE RestTypes'
  BY <1>14 DEF Store, Goto
<1>15. ASSUME NEW j \in Jobs, Commit(j) PROVE RestTypes'
  BY <1>15 DEF Commit, Goto
<1>16. ASSUME NEW j \in Jobs, Report(j) PROVE RestTypes'
  BY <1>16 DEF Report, Goto, Emit
<1>17. ASSUME NEW j \in Jobs, Rollback(j) PROVE RestTypes'
  BY <1>17 DEF Rollback
<1>18. ASSUME NEW j \in Jobs, ReportError(j) PROVE RestTypes'
  BY <1>18 DEF ReportError, Goto, Emit
<1>19. ASSUME NEW c \in Cancels, NEW j \in Jobs, CancelSet(c, j) PROVE RestTypes'
  BY <1>19 DEF CancelSet
<1>20. ASSUME NEW c \in Cancels, NEW j \in Jobs, CancelEmit(c, j) PROVE RestTypes'
  BY <1>20 DEF CancelEmit, Emit
<1>21. CASE Kill
  <2>1. \A j \in Jobs : pc'[j] \in Positions
    BY <1>21 DEF Kill
  <2>2. kills' \in 0..MaxKills
    BY <1>21 DEF Kill
  <2>3. /\ canceller' \in [Cancels -> Jobs \cup {Nobody, None}]
        /\ evidence' \in [Jobs -> BOOLEAN]
        /\ pc' \in [Jobs -> Positions]
    BY <1>21, <2>1 DEF Kill
  <2>4. QED
    BY <1>21, <2>2, <2>3 DEF Kill
<1>22. CASE Recover
  BY <1>22 DEF Recover
<1>23. CASE UNCHANGED vars
  BY <1>23 DEF vars
<1>24. QED
  BY <1>1, <1>2, <1>3, <1>4, <1>5, <1>6, <1>7, <1>8, <1>9, <1>10, <1>11, <1>12, <1>13,
      <1>14, <1>15, <1>16, <1>17, <1>18, <1>19, <1>20, <1>21, <1>22, <1>23
     DEF Next, RunStep

(* Every step keeps the locks with the positions. *)
LEMMA LockStep ==
    ASSUME IInv, [Next]_vars
    PROVE  LockInv'
<1> USE JobsAssumption DEF JobsAssumption, IInv, TypeOK, LockInv, InRun,
    InTransaction, InThread, process, locks, stored
<1>1. ASSUME NEW j \in Jobs, Submit(j) PROVE LockInv'
  BY <1>1 DEF Submit, Goto
<1>2. ASSUME NEW j \in Jobs, UnknownModule(j) PROVE LockInv'
  BY <1>2 DEF UnknownModule, Goto, Emit
<1>3. ASSUME NEW j \in Jobs, Start(j) PROVE LockInv'
  BY <1>3 DEF Start, Progress, Goto, Emit
<1>4. ASSUME NEW j \in Jobs, Flush(j) PROVE LockInv'
  BY <1>4 DEF Flush, Goto
<1>5. ASSUME NEW j \in Jobs, LockTimeout(j) PROVE LockInv'
  BY <1>5 DEF LockTimeout, Goto
<1>6. ASSUME NEW j \in Jobs, Gate(j) PROVE LockInv'
  BY <1>6 DEF Gate, Progress, Goto, Emit
<1>7. ASSUME NEW j \in Jobs, Blocked(j) PROVE LockInv'
  BY <1>7 DEF Blocked, Refuse, Goto, Emit
<1>8. ASSUME NEW j \in Jobs, Allowed(j) PROVE LockInv'
  BY <1>8 DEF Allowed, Progress, Goto, Emit
<1>9. ASSUME NEW j \in Jobs, ResolveFailed(j) PROVE LockInv'
  BY <1>9 DEF ResolveFailed, Refuse, Goto, Emit
<1>10. ASSUME NEW j \in Jobs, Pinned(j) PROVE LockInv'
  BY <1>10 DEF Pinned, Progress, Goto, Emit
<1>11. ASSUME NEW j \in Jobs, Contacting(j) PROVE LockInv'
  BY <1>11 DEF Contacting, Progress, Goto, Emit
<1>12. ASSUME NEW j \in Jobs, Acquire(j) PROVE LockInv'
  BY <1>12 DEF Acquire, Goto
<1>13. ASSUME NEW j \in Jobs, Execute(j) PROVE LockInv'
  BY <1>13 DEF Execute, Goto
<1>14. ASSUME NEW j \in Jobs, Store(j) PROVE LockInv'
  BY <1>14 DEF Store, Goto
<1>15. ASSUME NEW j \in Jobs, Commit(j) PROVE LockInv'
  BY <1>15 DEF Commit, Goto
<1>16. ASSUME NEW j \in Jobs, Report(j) PROVE LockInv'
  BY <1>16 DEF Report, Goto, Emit
<1>17. ASSUME NEW j \in Jobs, Rollback(j) PROVE LockInv'
  BY <1>17 DEF Rollback
<1>18. ASSUME NEW j \in Jobs, ReportError(j) PROVE LockInv'
  BY <1>18 DEF ReportError, Goto, Emit
<1>19. ASSUME NEW c \in Cancels, NEW j \in Jobs, CancelSet(c, j) PROVE LockInv'
  BY <1>19 DEF CancelSet
<1>20. ASSUME NEW c \in Cancels, NEW j \in Jobs, CancelEmit(c, j) PROVE LockInv'
  BY <1>20 DEF CancelEmit, Emit
<1>21. CASE Kill
  BY <1>21 DEF Kill
<1>22. CASE Recover
  BY <1>22 DEF Recover
<1>23. CASE UNCHANGED vars
  BY <1>23 DEF vars
<1>24. QED
  BY <1>1, <1>2, <1>3, <1>4, <1>5, <1>6, <1>7, <1>8, <1>9, <1>10, <1>11, <1>12, <1>13,
      <1>14, <1>15, <1>16, <1>17, <1>18, <1>19, <1>20, <1>21, <1>22, <1>23
     DEF Next, RunStep

(* Every step keeps the rows with the positions. *)
LEMMA RowStep ==
    ASSUME IInv, [Next]_vars
    PROVE  RowInv'
<1> USE JobsAssumption, MarkersAssumption DEF MarkersAssumption, IInv, TypeOK, RowInv,
    ModuleStatuses, Terminal, Unfinished, InRun, InTransaction, InThread, process,
    locks, stored
<1>1. ASSUME NEW j \in Jobs, Submit(j) PROVE RowInv'
  BY <1>1 DEF Submit, Goto
<1>2. ASSUME NEW j \in Jobs, UnknownModule(j) PROVE RowInv'
  BY <1>2 DEF UnknownModule, Goto, Emit
<1>3. ASSUME NEW j \in Jobs, Start(j) PROVE RowInv'
  BY <1>3 DEF Start, Progress, Goto, Emit
<1>4. ASSUME NEW j \in Jobs, Flush(j) PROVE RowInv'
  BY <1>4 DEF Flush, Goto
<1>5. ASSUME NEW j \in Jobs, LockTimeout(j) PROVE RowInv'
  BY <1>5 DEF LockTimeout, Goto
<1>6. ASSUME NEW j \in Jobs, Gate(j) PROVE RowInv'
  BY <1>6 DEF Gate, Progress, Goto, Emit
<1>7. ASSUME NEW j \in Jobs, Blocked(j) PROVE RowInv'
  BY <1>7 DEF Blocked, Refuse, Goto, Emit
<1>8. ASSUME NEW j \in Jobs, Allowed(j) PROVE RowInv'
  BY <1>8 DEF Allowed, Progress, Goto, Emit
<1>9. ASSUME NEW j \in Jobs, ResolveFailed(j) PROVE RowInv'
  BY <1>9 DEF ResolveFailed, Refuse, Goto, Emit
<1>10. ASSUME NEW j \in Jobs, Pinned(j) PROVE RowInv'
  BY <1>10 DEF Pinned, Progress, Goto, Emit
<1>11. ASSUME NEW j \in Jobs, Contacting(j) PROVE RowInv'
  BY <1>11 DEF Contacting, Progress, Goto, Emit
<1>12. ASSUME NEW j \in Jobs, Acquire(j) PROVE RowInv'
  BY <1>12 DEF Acquire, Goto
<1>13. ASSUME NEW j \in Jobs, Execute(j) PROVE RowInv'
  BY <1>13 DEF Execute, Goto
<1>14. ASSUME NEW j \in Jobs, Store(j) PROVE RowInv'
  BY <1>14 DEF Store, Goto
<1>15. ASSUME NEW j \in Jobs, Commit(j) PROVE RowInv'
  BY <1>15 DEF Commit, Goto
<1>16. ASSUME NEW j \in Jobs, Report(j) PROVE RowInv'
  BY <1>16 DEF Report, Goto, Emit
<1>17. ASSUME NEW j \in Jobs, Rollback(j) PROVE RowInv'
  BY <1>17 DEF Rollback
<1>18. ASSUME NEW j \in Jobs, ReportError(j) PROVE RowInv'
  BY <1>18 DEF ReportError, Goto, Emit
<1>19. ASSUME NEW c \in Cancels, NEW j \in Jobs, CancelSet(c, j) PROVE RowInv'
  BY <1>19 DEF CancelSet
<1>20. ASSUME NEW c \in Cancels, NEW j \in Jobs, CancelEmit(c, j) PROVE RowInv'
  BY <1>20 DEF CancelEmit, Emit
<1>21. CASE Kill
  BY <1>21 DEF Kill
<1>22. CASE Recover
  BY <1>22 DEF Recover
<1>23. CASE UNCHANGED vars
  BY <1>23 DEF vars
<1>24. QED
  BY <1>1, <1>2, <1>3, <1>4, <1>5, <1>6, <1>7, <1>8, <1>9, <1>10, <1>11, <1>12, <1>13,
      <1>14, <1>15, <1>16, <1>17, <1>18, <1>19, <1>20, <1>21, <1>22, <1>23
     DEF Next, RunStep

(* Every step keeps the logs with the positions and the rows. *)
LEMMA LogStep ==
    ASSUME IInv, [Next]_vars
    PROVE  LogOK'
<1> USE DEF IInv, TypeOK, LogInv, RowInv, Types, ModuleStatuses, Terminal, InRun,
    InTransaction, InThread, process, locks, stored
<1>1. ASSUME NEW j \in Jobs, Submit(j) PROVE LogOK'
  BY <1>1, NoEvent DEF Submit, Goto
<1>2. ASSUME NEW j \in Jobs, UnknownModule(j) PROVE LogOK'
  <2>1. row[j] = None
    BY <1>2 DEF UnknownModule, Goto
  <2>2. QED
    BY <1>2, <2>1, LastEvent DEF UnknownModule, Goto, Emit
<1>3. ASSUME NEW j \in Jobs, Start(j) PROVE LogOK'
  BY <1>3, QuietEvent DEF Start, Progress, Goto, Emit
<1>4. ASSUME NEW j \in Jobs, Flush(j) PROVE LogOK'
  BY <1>4, NoEvent DEF Flush, Goto
<1>5. ASSUME NEW j \in Jobs, LockTimeout(j) PROVE LogOK'
  BY <1>5, NoEvent DEF LockTimeout, Goto
<1>6. ASSUME NEW j \in Jobs, Gate(j) PROVE LogOK'
  BY <1>6, QuietEvent DEF Gate, Progress, Goto, Emit
<1>7. ASSUME NEW j \in Jobs, Blocked(j) PROVE LogOK'
  BY <1>7, QuietEvent DEF Blocked, Refuse, Goto, Emit
<1>8. ASSUME NEW j \in Jobs, Allowed(j) PROVE LogOK'
  BY <1>8, QuietEvent DEF Allowed, Progress, Goto, Emit
<1>9. ASSUME NEW j \in Jobs, ResolveFailed(j) PROVE LogOK'
  BY <1>9, QuietEvent DEF ResolveFailed, Refuse, Goto, Emit
<1>10. ASSUME NEW j \in Jobs, Pinned(j) PROVE LogOK'
  BY <1>10, QuietEvent DEF Pinned, Progress, Goto, Emit
<1>11. ASSUME NEW j \in Jobs, Contacting(j) PROVE LogOK'
  BY <1>11, QuietEvent DEF Contacting, Progress, Goto, Emit
<1>12. ASSUME NEW j \in Jobs, Acquire(j) PROVE LogOK'
  BY <1>12, NoEvent DEF Acquire, Goto
<1>13. ASSUME NEW j \in Jobs, Execute(j) PROVE LogOK'
  BY <1>13, NoEvent DEF Execute, Goto
<1>14. ASSUME NEW j \in Jobs, Store(j) PROVE LogOK'
  BY <1>14, NoEvent DEF Store, Goto
<1>15. ASSUME NEW j \in Jobs, Commit(j) PROVE LogOK'
  BY <1>15, NoEvent DEF Commit, Goto
<1>16. ASSUME NEW j \in Jobs, Report(j) PROVE LogOK'
  <2>1. row[j] = result[j] /\ result[j] \in ModuleStatuses /\ row[j] # None
    BY <1>16, MarkersAssumption DEF Report, Goto, MarkersAssumption
  <2>2. QED
    BY <1>16, <2>1, LastEvent DEF Report, Goto, Emit
<1>17. ASSUME NEW j \in Jobs, Rollback(j) PROVE LogOK'
  BY <1>17, NoEvent DEF Rollback
<1>18. ASSUME NEW j \in Jobs, ReportError(j) PROVE LogOK'
  <2>1. row[j] = None
    BY <1>18 DEF ReportError, Goto
  <2>2. QED
    BY <1>18, <2>1, LastEvent DEF ReportError, Goto, Emit
<1>19. ASSUME NEW c \in Cancels, NEW j \in Jobs, CancelSet(c, j) PROVE LogOK'
  BY <1>19 DEF CancelSet, LogOK, LogInv, Event
<1>20. ASSUME NEW c \in Cancels, NEW j \in Jobs, CancelEmit(c, j) PROVE LogOK'
  <2> DEFINE e == [type |-> "cancelling", status |-> "none"]
  <2>1. e \in Event /\ ~IsVerdict(e)
    BY DEF Event, IsVerdict
  <2>2. log[j] \in Seq(Event)
    BY DEF Event
  <2>3. UNCHANGED <<pc, row>> /\ log' = [log EXCEPT ![j] = Append(log[j], e)]
    BY <1>20 DEF CancelEmit, Emit
  <2>4. CASE pc[j] # "ended"
    BY <2>3, <2>4, QuietEvent
  <2>5. CASE pc[j] = "ended"
    <3>1. PICK i \in Nat : Announces(log[j], i, row[j])
      BY <2>5
    <3>2. Announces(Append(log[j], e), i, row[j])
      BY <2>2, <3>1, LateCancel
    <3>3. QED
      BY <2>1, <2>3, <2>5, <3>2, OneLog
  <2>6. QED
    BY <2>4, <2>5
<1>21. CASE Kill
  <2>1. \A j \in Jobs : pc'[j] # "ended"
    BY <1>21 DEF Kill
  <2>2. \A j \in Jobs : log'[j] = <<>>
    BY <1>21 DEF Kill
  <2>3. Silent(<<>>)
    BY EmptySeq DEF Silent
  <2>4. log' \in [Jobs -> Seq(Event)]
    BY <1>21, EmptySeq DEF Kill
  <2>5. QED
    BY <2>1, <2>2, <2>3, <2>4 DEF LogOK
<1>22. CASE Recover
  <2>1. UNCHANGED row
    BY <1>22, MarkersAssumption DEF Recover, MarkersAssumption, Unfinished
  <2>2. QED
    BY <1>22, <2>1 DEF Recover, LogOK, LogInv, Event
<1>23. CASE UNCHANGED vars
  BY <1>23 DEF vars, LogOK, Event
<1>24. QED
  BY <1>1, <1>2, <1>3, <1>4, <1>5, <1>6, <1>7, <1>8, <1>9, <1>10, <1>11, <1>12, <1>13,
      <1>14, <1>15, <1>16, <1>17, <1>18, <1>19, <1>20, <1>21, <1>22, <1>23
     DEF Next, RunStep

--------------------------------------------------------------------------------
(* The inductive invariant holds in every reachable state. *)
THEOREM Inductive == Spec => []IInv
<1>1. Init => IInv
  <2>1. Init => RestTypes
    BY JobsAssumption
       DEF Init, RestTypes, JobsAssumption, Positions, Terminal, Unfinished
  <2>2. Init => LockInv
    BY JobsAssumption DEF Init, LockInv, JobsAssumption, InTransaction, InRun
  <2>3. Init => RowInv
    BY DEF Init, RowInv
  <2>4. ASSUME Init PROVE LogOK
    BY <2>4, EmptySeq DEF Init, LogOK, LogInv, Silent
  <2>5. QED
    BY <2>1, <2>2, <2>3, <2>4 DEF IInv, TypeOK, RestTypes, LogOK, Event
<1>2. IInv /\ [Next]_vars => IInv'
  BY RestStep, LockStep, RowStep, LogStep DEF IInv, TypeOK, RestTypes, LogOK, Event
<1>3. QED
  BY <1>1, <1>2, PTL DEF Spec

(* Type correctness of the job's path. *)
THEOREM TypeCorrect == Spec => []TypeOK
<1>1. IInv => TypeOK
  BY DEF IInv
<1>2. QED
  BY <1>1, Inductive, PTL

(* One verdict per log, and only late cancels behind it. *)
THEOREM OneVerdictPerLog == Spec => []OneVerdict
<1>1. ASSUME IInv, NEW j \in Jobs, NEW h \in DOMAIN log[j], NEW i \in DOMAIN log[j],
             IsVerdict(log[j][h]), h < i
      PROVE  log[j][i].type = "cancelling"
  <2>1. DOMAIN log[j] = 1..Len(log[j])
    BY <1>1, LenProperties DEF IInv, TypeOK
  <2>2. pc[j] = "ended"
    BY <1>1, <2>1 DEF IInv, LogInv, Silent
  <2>3. PICK n \in Nat : Announces(log[j], n, row[j])
    BY <1>1, <2>2 DEF IInv, LogInv
  <2>4. h = n /\ i # n
    BY <1>1, <2>1, <2>3 DEF Announces
  <2>5. QED
    BY <1>1, <2>1, <2>3, <2>4 DEF Announces
<1>2. IInv => OneVerdict
  BY <1>1 DEF OneVerdict
<1>3. QED
  BY <1>2, Inductive, PTL

(* Jobs run one at a time and never wait for the module lock. *)
THEOREM JobsRunAlone == Spec => []RunsAlone
<1>1. ASSUME IInv, NEW j \in Jobs, NEW i \in Jobs \ {j}, pc[j] \in InTransaction
      PROVE  pc[i] \notin InTransaction
  BY <1>1 DEF IInv, LockInv
<1>2. ASSUME IInv, NEW j \in Jobs, pc[j] = "contacting"
      PROVE  active = Nobody
  <2>1. pc[j] \in InTransaction /\ "executing" \in InTransaction
    BY <1>2 DEF InTransaction, InRun
  <2>2. \A i \in Jobs : active # i
    BY <1>1, <1>2, <2>1 DEF IInv, LockInv
  <2>3. QED
    BY <1>2, <2>2 DEF IInv, TypeOK
<1>3. IInv => RunsAlone
  BY <1>1, <1>2 DEF RunsAlone
<1>4. QED
  BY <1>3, Inductive, PTL

(* No step, no kill and no recovery rewrites a committed outcome. *)
LEMMA RowStays ==
    ASSUME IInv, [Next]_vars, NEW j \in Jobs, row[j] # None
    PROVE  row'[j] = row[j]
<1>1. CASE \E i \in Jobs : Commit(i)
  BY <1>1 DEF IInv, TypeOK, RowInv, Commit, Goto
<1>2. CASE Recover
  BY <1>2 DEF IInv, TypeOK, RowInv, Recover, Unfinished, ModuleStatuses
<1>3. \/ \E i \in Jobs : Commit(i)
      \/ Recover
      \/ UNCHANGED row
  BY DEF Next, RunStep, vars, stored, Submit, UnknownModule, Start, Progress, Flush,
         LockTimeout, Gate, Blocked, Refuse, Allowed, ResolveFailed, Pinned,
         Contacting, Acquire, Execute, Store, Report, Rollback, ReportError,
         CancelSet, CancelEmit, Kill
<1>4. QED
  BY <1>1, <1>2, <1>3

(* A job's committed row is never rewritten, not even by a kill and the     *)
(* recovery after it.                                                       *)
THEOREM OutcomeIsFinal == Spec => OutcomesAreFinal
<1>1. IInv /\ [Next]_vars => [\A j \in Jobs : row[j] # None => row'[j] = row[j]]_vars
  BY RowStays
<1>2. QED
  BY <1>1, Inductive, PTL DEF Spec, OutcomesAreFinal
--------------------------------------------------------------------------------
(* The verdict that the log s announces. *)
VerdictIn(s) ==
    IF ~(\E i \in DOMAIN s : IsVerdict(s[i])) THEN None
    ELSE LET e == s[CHOOSE i \in DOMAIN s : IsVerdict(s[i])]
         IN  IF e.type = "error" THEN Error ELSE e.status

LEMMA SilentVerdict ==
    ASSUME NEW s \in Seq(Event), Silent(s)
    PROVE  VerdictIn(s) = None
BY LenProperties DEF VerdictIn, Silent

LEMMA AnnouncedVerdict ==
    ASSUME NEW s \in Seq(Event), NEW r \in ModuleStatuses \cup {None},
           NEW i \in Nat, Announces(s, i, r)
    PROVE  VerdictIn(s) = IF r = None THEN Error ELSE r
<1>1. DOMAIN s = 1..Len(s)
  BY LenProperties
<1>2. \A k \in DOMAIN s : IsVerdict(s[k]) => k = i
  BY <1>1 DEF Announces
<1>3. i \in DOMAIN s /\ IsVerdict(s[i])
  BY <1>1 DEF Announces
<1>4. i = CHOOSE k \in DOMAIN s : IsVerdict(s[k])
  BY <1>2, <1>3
<1>5. VerdictIn(s) = IF s[i].type = "error" THEN Error ELSE s[i].status
  BY <1>3, <1>4 DEF VerdictIn
<1>6. QED
  BY <1>5 DEF Announces, ModuleStatuses

(* The verdict a watcher was told follows from the position and the row. *)
Told(j) == IF pc[j] # "ended" THEN None
           ELSE IF row[j] = None THEN Error ELSE row[j]

LEMMA VerdictIsTold ==
    /\ IInv => \A j \in Jobs : Verdict(j) = Told(j)
    /\ IInv' => \A j \in Jobs : Verdict(j)' = Told(j)'
<1>1. ASSUME IInv, NEW j \in Jobs PROVE Verdict(j) = Told(j)
  <2>1. Verdict(j) = VerdictIn(log[j])
    BY DEF Verdict, VerdictIn, IsTerminal
  <2>2. log[j] \in Seq(Event) /\ row[j] \in ModuleStatuses \cup {None}
    BY <1>1 DEF IInv, TypeOK, RowInv, Event
  <2>3. CASE pc[j] # "ended"
    BY <1>1, <2>1, <2>2, <2>3, SilentVerdict DEF IInv, LogInv, Told
  <2>4. CASE pc[j] = "ended"
    BY <1>1, <2>1, <2>2, <2>4, AnnouncedVerdict DEF IInv, LogInv, Told
  <2>5. QED
    BY <2>3, <2>4
<1>2. ASSUME IInv', NEW j \in Jobs PROVE Verdict(j)' = Told(j)'
  <2>1. Verdict(j)' = VerdictIn(log'[j])
    BY DEF Verdict, VerdictIn, IsTerminal
  <2>2. log'[j] \in Seq(Event) /\ row'[j] \in ModuleStatuses \cup {None}
    BY <1>2 DEF IInv, TypeOK, RowInv, Event
  <2>3. CASE pc'[j] # "ended"
    BY <1>2, <2>1, <2>2, <2>3, SilentVerdict DEF IInv, LogInv, Told
  <2>4. CASE pc'[j] = "ended"
    BY <1>2, <2>1, <2>2, <2>4, AnnouncedVerdict DEF IInv, LogInv, Told
  <2>5. QED
    BY <2>3, <2>4
<1>3. QED
  BY <1>1, <1>2

Dead == {j \in Jobs : pc[j] \in {"ended", "killed", "forgotten"}}
Verdicts == [j \in Jobs |-> Verdict(j)]

(* Steps that show are the commit, the verdict and the kill. *)
LEMMA CommitRecords ==
    ASSUME IInv, IInv', NEW j \in Jobs, Commit(j)
    PROVE  Contract!Record(j)
<1> USE DEF Commit, Goto
<1>1. /\ row[j] = None
      /\ result[j] \in ModuleStatuses
      /\ pc[j] = "stored"
  BY DEF IInv, TypeOK, RowInv
<1>2. UNCHANGED Dead
  BY DEF IInv, TypeOK, Dead
<1>3. UNCHANGED Verdicts
  <2>1. ASSUME NEW i \in Jobs PROVE Told(i)' = Told(i)
    BY <1>1 DEF IInv, TypeOK, Told
  <2>2. QED
    BY <2>1, VerdictIsTold DEF Verdicts
<1>4. Verdict(j) = None
  BY <1>1, VerdictIsTold DEF Told
<1>5. row' = [row EXCEPT ![j] = result[j]]
  OBVIOUS
<1>6. QED
  BY <1>1, <1>2, <1>3, <1>4, <1>5 DEF Contract!Record, Dead, Verdicts

LEMMA ReportAnnounces ==
    ASSUME IInv, IInv', NEW j \in Jobs, Report(j)
    PROVE  Contract!Announce(j)
<1> USE DEF Report, Goto
<1>1. /\ row[j] # None
      /\ pc[j] = "committed"
      /\ UNCHANGED row
  BY MarkersAssumption
     DEF MarkersAssumption, stored, IInv, RowInv, ModuleStatuses, Terminal
<1>2. Dead' = Dead \cup {j}
  BY DEF IInv, TypeOK, Dead
<1>3. Verdicts' = [Verdicts EXCEPT ![j] = row[j]]
  <2>1. ASSUME NEW i \in Jobs PROVE Told(i)' = IF i = j THEN row[j] ELSE Told(i)
    BY <1>1 DEF IInv, TypeOK, Told
  <2>2. QED
    BY <2>1, VerdictIsTold DEF Verdicts
<1>4. Verdict(j) = None
  BY <1>1, VerdictIsTold DEF Told
<1>5. QED
  BY <1>1, <1>2, <1>3, <1>4 DEF Contract!Announce, Dead, Verdicts

LEMMA ErrorGivesUp ==
    ASSUME IInv, IInv', NEW j \in Jobs, UnknownModule(j) \/ ReportError(j)
    PROVE  Contract!GiveUp(j)
<1>1. /\ pc[j] \in {"submitted", "failing"}
      /\ pc' = [pc EXCEPT ![j] = "ended"]
      /\ UNCHANGED row
  BY DEF UnknownModule, ReportError, Goto, stored
<1>2. row[j] = None
  BY <1>1 DEF IInv, RowInv
<1>3. Dead' = Dead \cup {j}
  BY <1>1 DEF IInv, TypeOK, Dead
<1>4. Verdicts' = [Verdicts EXCEPT ![j] = Error]
  <2>1. ASSUME NEW i \in Jobs PROVE Told(i)' = IF i = j THEN Error ELSE Told(i)
    BY <1>1, <1>2 DEF IInv, TypeOK, Told
  <2>2. QED
    BY <2>1, VerdictIsTold DEF Verdicts
<1>5. Verdict(j) = None
  BY <1>1, VerdictIsTold DEF Told
<1>6. QED
  BY <1>1, <1>2, <1>3, <1>4, <1>5 DEF Contract!GiveUp, Dead, Verdicts

LEMMA KillRestarts ==
    ASSUME IInv, IInv', Kill
    PROVE  Contract!Restart
<1>1. \A j \in Jobs : pc'[j] # "ended" /\ (j \in Dead => j \in Dead')
  BY DEF Kill, Dead, InTransaction, InRun
<1>2. Verdicts' = [j \in Jobs |-> None]
  BY <1>1, VerdictIsTold DEF Told, Verdicts
<1>3. Dead' \in SUBSET Jobs /\ Dead' = Dead \cup Dead'
  BY <1>1 DEF Dead
<1>4. UNCHANGED row
  BY DEF Kill
<1>5. QED
  BY <1>2, <1>3, <1>4 DEF Contract!Restart, Dead, Verdicts

(* The other steps leave the rows, the verdicts and who is dead alone. *)
LEMMA OthersStutter ==
    ASSUME IInv, IInv', UNCHANGED row,
           \A j \in Jobs : pc'[j] = pc[j] \/ ({pc[j], pc'[j]} \cap
                                               {"ended", "killed", "forgotten"} = {})
    PROVE  UNCHANGED Contract!vars
<1>1. UNCHANGED Dead
  BY DEF Dead
<1>2. UNCHANGED Verdicts
  BY VerdictIsTold DEF Told, Verdicts
<1>3. QED
  BY <1>1, <1>2 DEF Contract!vars, Dead, Verdicts

(* What is announced is what is durable. *)
THEOREM ImplementsTheContract == Spec => ImplementsContract
<1>1. Init => Contract!Init
  <2>1. ASSUME Init, NEW j \in Jobs PROVE Verdict(j) = None
    BY <2>1 DEF Init, Verdict, IsTerminal
  <2>2. QED
    BY <2>1 DEF Init, Contract!Init
<1>2. IInv /\ IInv' /\ [Next]_vars => [Contract!Next]_(Contract!vars)
  <2> SUFFICES ASSUME IInv, IInv', [Next]_vars PROVE [Contract!Next]_(Contract!vars)
    OBVIOUS
  <2>1. CASE \E j \in Jobs : Commit(j) \/ Report(j) \/ UnknownModule(j) \/ ReportError(j)
    BY <2>1, CommitRecords, ReportAnnounces, ErrorGivesUp DEF Contract!Next
  <2>2. CASE Kill
    BY <2>2, KillRestarts DEF Contract!Next
  <2>3. CASE Recover
    <3>1. UNCHANGED pc
      BY <2>3 DEF Recover
    <3>2. UNCHANGED row
      <4>1. \A j \in Jobs : row'[j] = row[j]
        BY <2>3, MarkersAssumption
           DEF Recover, IInv, RowInv, MarkersAssumption, Unfinished, ModuleStatuses
      <4>2. QED
        BY <2>3, <4>1 DEF Recover, IInv, TypeOK
    <3>3. QED
      BY <3>1, <3>2, OthersStutter
  <2>4. CASE /\ UNCHANGED row
             /\ \A j \in Jobs : pc'[j] = pc[j] \/ ({pc[j], pc'[j]} \cap
                                                  {"ended", "killed", "forgotten"} = {})
    BY <2>4, OthersStutter
  <2>5. \/ \E j \in Jobs : Commit(j) \/ Report(j) \/ UnknownModule(j) \/ ReportError(j)
        \/ Kill \/ Recover
        \/ /\ UNCHANGED row
           /\ \A j \in Jobs : pc'[j] = pc[j] \/ ({pc[j], pc'[j]} \cap
                                                {"ended", "killed", "forgotten"} = {})
    <3> USE DEF IInv, TypeOK, InRun, stored, Goto, Progress, Refuse
    <3>1. ASSUME NEW j \in Jobs,
                 \/ Submit(j) \/ Start(j) \/ Flush(j) \/ LockTimeout(j) \/ Gate(j)
                 \/ Blocked(j) \/ Allowed(j) \/ ResolveFailed(j) \/ Pinned(j)
                 \/ Contacting(j) \/ Acquire(j) \/ Execute(j) \/ Store(j) \/ Rollback(j)
          PROVE  /\ UNCHANGED row
                 /\ \A i \in Jobs : pc'[i] = pc[i] \/ ({pc[i], pc'[i]} \cap
                                               {"ended", "killed", "forgotten"} = {})
      BY <3>1 DEF Submit, Start, Flush, LockTimeout, Gate, Blocked, Allowed,
         ResolveFailed, Pinned, Contacting, Acquire, Execute, Store, Rollback
    <3>2. ASSUME NEW c \in Cancels, NEW j \in Jobs, CancelSet(c, j) \/ CancelEmit(c, j)
          PROVE  UNCHANGED <<row, pc>>
      BY <3>2 DEF CancelSet, CancelEmit
    <3>3. CASE UNCHANGED vars
      BY <3>3 DEF vars
    <3>4. QED
      BY <3>1, <3>2, <3>3 DEF Next, RunStep
  <2>6. QED
    BY <2>1, <2>2, <2>3, <2>4, <2>5
<1>3. QED
  BY <1>1, <1>2, Inductive, PTL DEF Spec, ImplementsContract, Contract!Spec
================================================================================
