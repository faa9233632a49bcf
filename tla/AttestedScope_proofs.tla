-------------------------- MODULE AttestedScope_proofs --------------------------
(***************************************************************************)
(* Proofs about AttestedScope for any set of requests, values and hosts.   *)
(* The inductive invariant adds to the stated properties who holds the     *)
(* write lock, which requests have committed, and what a job's two SELECTs *)
(* can have returned.                                                      *)
(***************************************************************************)
EXTENDS AttestedScope, TLAPS

Holding == {"inserted", "selected"} \cup Running

(* Where a job has sent nothing yet. *)
Unasked == {"idle", "entriesRead", "attestationRead", "authzRead", "flushed",
            "allowed", "resolved"}

(* The lock is held by the one request whose transaction is open. *)
LockInv == \A p \in Requests : (writer = p) <=> (pc[p] \in Holding)

(* Committed rows are those of the requests that are done. *)
RowsInv ==
    /\ \A a \in Adders : (a \in scope) <=> (pc[a] = "done")
    /\ \A t \in Attesters : (covers[t] # {}) <=> (pc[t] = "done")
    /\ \A t \in Attesters : pc[t] \in {"checked", "inserted"} => scope # {}
    /\ \A t \in current : pc[t] = "done"

(* Nothing changes between an add_scope's SELECT of the records and its commit. *)
FoundInv == \A a \in Adders : pc[a] = "selected" => found[a] = current

(* What a job read was committed, and its records cover its entries, unless *)
(* POST .../jobs runs it.                                                   *)
JobInv ==
    \A j \in Jobs :
        /\ entries[j] \subseteq scope
        /\ \A t \in basis[j] : pc[t] = "done"
        /\ pc[j] = "idle" => j \notin posts
        /\ pc[j] \in Unasked => contacted[j] = {}
        /\ pc[j] = "contacting" => contacted[j] # {}
        /\ pc[j] \in {"entriesRead", "resolved"} => j \notin posts
        /\ pc[j] = "attestationRead" => j \in posts
        /\ j \notin posts /\ pc[j] \in {"authzRead"} \cup Running =>
              \A t \in basis[j] : entries[j] \subseteq covers[t]
        /\ pc[j] \in Gated => Authorized(j)

IInv ==
    /\ TypeOK
    /\ LockInv
    /\ RowsInv
    /\ FoundInv
    /\ AttestationCoversScope
    /\ JobInv
    /\ ContactsAreAttested
--------------------------------------------------------------------------------
(* Every step keeps the types. *)
LEMMA TypeStep ==
    ASSUME TypeOK, [Next]_vars
    PROVE  TypeOK'
<1> USE RequestsAssumption, DataAssumption
    DEF TypeOK, Requests, States, Ended, Running, Gated, InModule, db, local, traffic
<1>1. ASSUME NEW p \in Requests, LockTimeout(p) PROVE TypeOK'
  BY <1>1 DEF LockTimeout
<1>2. ASSUME NEW a \in Adders, AddRefused(a) PROVE TypeOK'
  BY <1>2 DEF AddRefused, Goto
<1>3. ASSUME NEW a \in Adders, AddSelect(a) PROVE TypeOK'
  BY <1>3 DEF AddSelect, Goto
<1>4. ASSUME NEW a \in Adders, AddInsert(a) PROVE TypeOK'
  BY <1>4 DEF AddInsert, Goto, TakeLock
<1>5. ASSUME NEW a \in Adders, AddInvalidate(a) PROVE TypeOK'
  BY <1>5 DEF AddInvalidate, Goto
<1>6. ASSUME NEW a \in Adders, AddCommit(a) PROVE TypeOK'
  BY <1>6 DEF AddCommit, Goto, FreeLock
<1>7. ASSUME NEW t \in Attesters, AttestRefused(t) PROVE TypeOK'
  BY <1>7 DEF AttestRefused, Goto
<1>8. ASSUME NEW t \in Attesters, AttestSelect(t) PROVE TypeOK'
  BY <1>8 DEF AttestSelect, Goto
<1>9. ASSUME NEW t \in Attesters, AttestInsert(t) PROVE TypeOK'
  BY <1>9 DEF AttestInsert, Goto, TakeLock
<1>10. ASSUME NEW t \in Attesters, AttestCommit(t) PROVE TypeOK'
  BY <1>10 DEF AttestCommit, Goto, FreeLock
<1>11. ASSUME NEW j \in Jobs, JobReadEntries(j) PROVE TypeOK'
  BY <1>11 DEF JobReadEntries, Goto
<1>12. ASSUME NEW j \in Jobs, JobReadAttestation(j) PROVE TypeOK'
  BY <1>12 DEF JobReadAttestation, Goto
<1>13. ASSUME NEW j \in Jobs, JobFlush(j) PROVE TypeOK'
  BY <1>13 DEF JobFlush, Goto, TakeLock
<1>14. ASSUME NEW j \in Jobs, JobGate(j) PROVE TypeOK'
  BY <1>14 DEF JobGate, Goto
<1>15. ASSUME NEW j \in Jobs, JobResolve(j) PROVE TypeOK'
  BY <1>15 DEF JobResolve, Goto
<1>16. ASSUME NEW j \in Jobs, JobContact(j) PROVE TypeOK'
  BY <1>16 DEF JobContact, Ask, Goto
<1>17. ASSUME NEW j \in Jobs, JobFollow(j) PROVE TypeOK'
  BY <1>17 DEF JobFollow
<1>18. ASSUME NEW j \in Jobs, JobFinish(j) PROVE TypeOK'
  BY <1>18 DEF JobFinish, Goto
<1>19. ASSUME NEW j \in Jobs, JobCommit(j) PROVE TypeOK'
  BY <1>19 DEF JobCommit, FreeLock
<1>20. ASSUME NEW j \in Jobs, JobRollback(j) PROVE TypeOK'
  BY <1>20 DEF JobRollback, FreeLock
<1>21. ASSUME NEW j \in Jobs, PostReadAttestation(j) PROVE TypeOK'
  BY <1>21 DEF PostReadAttestation, Goto
<1>22. ASSUME NEW j \in Jobs, PostReadEntries(j) PROVE TypeOK'
  BY <1>22 DEF PostReadEntries, Goto
<1>23. ASSUME NEW j \in Jobs, PostContact(j) PROVE TypeOK'
  BY <1>23 DEF PostContact, Ask, Goto
<1>24. CASE Crash
  BY <1>24 DEF Crash
<1>25. CASE UNCHANGED vars
  BY <1>25 DEF vars
<1>26. QED
  BY <1>1, <1>2, <1>3, <1>4, <1>5, <1>6, <1>7, <1>8, <1>9, <1>10, <1>11,
     <1>12, <1>13, <1>14, <1>15, <1>16, <1>17, <1>18, <1>19, <1>20, <1>21,
     <1>22, <1>23, <1>24, <1>25
     DEF Next, AddStep, AttestStep, JobStep

(* Every step keeps the write lock with the one open transaction. *)
LEMMA LockStep ==
    ASSUME TypeOK, LockInv, [Next]_vars
    PROVE  LockInv'
<1> USE RequestsAssumption
    DEF TypeOK, LockInv, Requests, Holding, Ended, Running, Gated, InModule,
        db, local, traffic
<1>1. ASSUME NEW p \in Requests, LockTimeout(p) PROVE LockInv'
  BY <1>1 DEF LockTimeout
<1>2. ASSUME NEW a \in Adders, AddRefused(a) PROVE LockInv'
  BY <1>2 DEF AddRefused, Goto
<1>3. ASSUME NEW a \in Adders, AddSelect(a) PROVE LockInv'
  BY <1>3 DEF AddSelect, Goto
<1>4. ASSUME NEW a \in Adders, AddInsert(a) PROVE LockInv'
  BY <1>4 DEF AddInsert, Goto, TakeLock
<1>5. ASSUME NEW a \in Adders, AddInvalidate(a) PROVE LockInv'
  BY <1>5 DEF AddInvalidate, Goto
<1>6. ASSUME NEW a \in Adders, AddCommit(a) PROVE LockInv'
  BY <1>6 DEF AddCommit, Goto, FreeLock
<1>7. ASSUME NEW t \in Attesters, AttestRefused(t) PROVE LockInv'
  BY <1>7 DEF AttestRefused, Goto
<1>8. ASSUME NEW t \in Attesters, AttestSelect(t) PROVE LockInv'
  BY <1>8 DEF AttestSelect, Goto
<1>9. ASSUME NEW t \in Attesters, AttestInsert(t) PROVE LockInv'
  BY <1>9 DEF AttestInsert, Goto, TakeLock
<1>10. ASSUME NEW t \in Attesters, AttestCommit(t) PROVE LockInv'
  BY <1>10 DEF AttestCommit, Goto, FreeLock
<1>11. ASSUME NEW j \in Jobs, JobReadEntries(j) PROVE LockInv'
  BY <1>11 DEF JobReadEntries, Goto
<1>12. ASSUME NEW j \in Jobs, JobReadAttestation(j) PROVE LockInv'
  BY <1>12 DEF JobReadAttestation, Goto
<1>13. ASSUME NEW j \in Jobs, JobFlush(j) PROVE LockInv'
  BY <1>13 DEF JobFlush, Goto, TakeLock
<1>14. ASSUME NEW j \in Jobs, JobGate(j) PROVE LockInv'
  BY <1>14 DEF JobGate, Goto
<1>15. ASSUME NEW j \in Jobs, JobResolve(j) PROVE LockInv'
  BY <1>15 DEF JobResolve, Goto
<1>16. ASSUME NEW j \in Jobs, JobContact(j) PROVE LockInv'
  BY <1>16 DEF JobContact, Ask, Goto
<1>17. ASSUME NEW j \in Jobs, JobFollow(j) PROVE LockInv'
  BY <1>17 DEF JobFollow
<1>18. ASSUME NEW j \in Jobs, JobFinish(j) PROVE LockInv'
  BY <1>18 DEF JobFinish, Goto
<1>19. ASSUME NEW j \in Jobs, JobCommit(j) PROVE LockInv'
  BY <1>19 DEF JobCommit, FreeLock
<1>20. ASSUME NEW j \in Jobs, JobRollback(j) PROVE LockInv'
  BY <1>20 DEF JobRollback, FreeLock
<1>21. ASSUME NEW j \in Jobs, PostReadAttestation(j) PROVE LockInv'
  BY <1>21 DEF PostReadAttestation, Goto
<1>22. ASSUME NEW j \in Jobs, PostReadEntries(j) PROVE LockInv'
  BY <1>22 DEF PostReadEntries, Goto
<1>23. ASSUME NEW j \in Jobs, PostContact(j) PROVE LockInv'
  BY <1>23 DEF PostContact, Ask, Goto
<1>24. CASE Crash
  BY <1>24 DEF Crash
<1>25. CASE UNCHANGED vars
  BY <1>25 DEF vars
<1>26. QED
  BY <1>1, <1>2, <1>3, <1>4, <1>5, <1>6, <1>7, <1>8, <1>9, <1>10, <1>11,
     <1>12, <1>13, <1>14, <1>15, <1>16, <1>17, <1>18, <1>19, <1>20, <1>21,
     <1>22, <1>23, <1>24, <1>25
     DEF Next, AddStep, AttestStep, JobStep

(* A row is there exactly when the request that inserts it is done. *)
LEMMA RowsStep ==
    ASSUME TypeOK, LockInv, RowsInv, [Next]_vars
    PROVE  RowsInv'
<1> USE RequestsAssumption
    DEF TypeOK, LockInv, RowsInv, Requests, Holding, Ended, Running, Gated,
        InModule, db, local, traffic
<1>1. ASSUME NEW p \in Requests, LockTimeout(p) PROVE RowsInv'
  BY <1>1 DEF LockTimeout
<1>2. ASSUME NEW a \in Adders, AddRefused(a) PROVE RowsInv'
  BY <1>2 DEF AddRefused, Goto
<1>3. ASSUME NEW a \in Adders, AddSelect(a) PROVE RowsInv'
  BY <1>3 DEF AddSelect, Goto
<1>4. ASSUME NEW a \in Adders, AddInsert(a) PROVE RowsInv'
  BY <1>4 DEF AddInsert, Goto, TakeLock
<1>5. ASSUME NEW a \in Adders, AddInvalidate(a) PROVE RowsInv'
  BY <1>5 DEF AddInvalidate, Goto
<1>6. ASSUME NEW a \in Adders, AddCommit(a) PROVE RowsInv'
  BY <1>6 DEF AddCommit, Goto, FreeLock
<1>7. ASSUME NEW t \in Attesters, AttestRefused(t) PROVE RowsInv'
  BY <1>7 DEF AttestRefused, Goto
<1>8. ASSUME NEW t \in Attesters, AttestSelect(t) PROVE RowsInv'
  BY <1>8 DEF AttestSelect, Goto
<1>9. ASSUME NEW t \in Attesters, AttestInsert(t) PROVE RowsInv'
  BY <1>9 DEF AttestInsert, Goto, TakeLock
<1>10. ASSUME NEW t \in Attesters, AttestCommit(t) PROVE RowsInv'
  BY <1>10 DEF AttestCommit, Goto, FreeLock
<1>11. ASSUME NEW j \in Jobs, JobReadEntries(j) PROVE RowsInv'
  BY <1>11 DEF JobReadEntries, Goto
<1>12. ASSUME NEW j \in Jobs, JobReadAttestation(j) PROVE RowsInv'
  BY <1>12 DEF JobReadAttestation, Goto
<1>13. ASSUME NEW j \in Jobs, JobFlush(j) PROVE RowsInv'
  BY <1>13 DEF JobFlush, Goto, TakeLock
<1>14. ASSUME NEW j \in Jobs, JobGate(j) PROVE RowsInv'
  BY <1>14 DEF JobGate, Goto
<1>15. ASSUME NEW j \in Jobs, JobResolve(j) PROVE RowsInv'
  BY <1>15 DEF JobResolve, Goto
<1>16. ASSUME NEW j \in Jobs, JobContact(j) PROVE RowsInv'
  BY <1>16 DEF JobContact, Ask, Goto
<1>17. ASSUME NEW j \in Jobs, JobFollow(j) PROVE RowsInv'
  BY <1>17 DEF JobFollow
<1>18. ASSUME NEW j \in Jobs, JobFinish(j) PROVE RowsInv'
  BY <1>18 DEF JobFinish, Goto
<1>19. ASSUME NEW j \in Jobs, JobCommit(j) PROVE RowsInv'
  BY <1>19 DEF JobCommit, FreeLock
<1>20. ASSUME NEW j \in Jobs, JobRollback(j) PROVE RowsInv'
  BY <1>20 DEF JobRollback, FreeLock
<1>21. ASSUME NEW j \in Jobs, PostReadAttestation(j) PROVE RowsInv'
  BY <1>21 DEF PostReadAttestation, Goto
<1>22. ASSUME NEW j \in Jobs, PostReadEntries(j) PROVE RowsInv'
  BY <1>22 DEF PostReadEntries, Goto
<1>23. ASSUME NEW j \in Jobs, PostContact(j) PROVE RowsInv'
  BY <1>23 DEF PostContact, Ask, Goto
<1>24. CASE Crash
  BY <1>24 DEF Crash
<1>25. CASE UNCHANGED vars
  BY <1>25 DEF vars
<1>26. QED
  BY <1>1, <1>2, <1>3, <1>4, <1>5, <1>6, <1>7, <1>8, <1>9, <1>10, <1>11,
     <1>12, <1>13, <1>14, <1>15, <1>16, <1>17, <1>18, <1>19, <1>20, <1>21,
     <1>22, <1>23, <1>24, <1>25
     DEF Next, AddStep, AttestStep, JobStep

(* The lock keeps an add_scope's list of records complete until it commits. *)
LEMMA FoundStep ==
    ASSUME TypeOK, LockInv, FoundInv, [Next]_vars
    PROVE  FoundInv'
<1> USE RequestsAssumption
    DEF TypeOK, LockInv, FoundInv, Requests, Holding, Ended, Running, Gated,
        InModule, db, local, traffic
<1>1. ASSUME NEW p \in Requests, LockTimeout(p) PROVE FoundInv'
  BY <1>1 DEF LockTimeout
<1>2. ASSUME NEW a \in Adders, AddRefused(a) PROVE FoundInv'
  BY <1>2 DEF AddRefused, Goto
<1>3. ASSUME NEW a \in Adders, AddSelect(a) PROVE FoundInv'
  BY <1>3 DEF AddSelect, Goto
<1>4. ASSUME NEW a \in Adders, AddInsert(a) PROVE FoundInv'
  BY <1>4 DEF AddInsert, Goto, TakeLock
<1>5. ASSUME NEW a \in Adders, AddInvalidate(a) PROVE FoundInv'
  BY <1>5 DEF AddInvalidate, Goto
<1>6. ASSUME NEW a \in Adders, AddCommit(a) PROVE FoundInv'
  BY <1>6 DEF AddCommit, Goto, FreeLock
<1>7. ASSUME NEW t \in Attesters, AttestRefused(t) PROVE FoundInv'
  BY <1>7 DEF AttestRefused, Goto
<1>8. ASSUME NEW t \in Attesters, AttestSelect(t) PROVE FoundInv'
  BY <1>8 DEF AttestSelect, Goto
<1>9. ASSUME NEW t \in Attesters, AttestInsert(t) PROVE FoundInv'
  BY <1>9 DEF AttestInsert, Goto, TakeLock
<1>10. ASSUME NEW t \in Attesters, AttestCommit(t) PROVE FoundInv'
  BY <1>10 DEF AttestCommit, Goto, FreeLock
<1>11. ASSUME NEW j \in Jobs, JobReadEntries(j) PROVE FoundInv'
  BY <1>11 DEF JobReadEntries, Goto
<1>12. ASSUME NEW j \in Jobs, JobReadAttestation(j) PROVE FoundInv'
  BY <1>12 DEF JobReadAttestation, Goto
<1>13. ASSUME NEW j \in Jobs, JobFlush(j) PROVE FoundInv'
  BY <1>13 DEF JobFlush, Goto, TakeLock
<1>14. ASSUME NEW j \in Jobs, JobGate(j) PROVE FoundInv'
  BY <1>14 DEF JobGate, Goto
<1>15. ASSUME NEW j \in Jobs, JobResolve(j) PROVE FoundInv'
  BY <1>15 DEF JobResolve, Goto
<1>16. ASSUME NEW j \in Jobs, JobContact(j) PROVE FoundInv'
  BY <1>16 DEF JobContact, Ask, Goto
<1>17. ASSUME NEW j \in Jobs, JobFollow(j) PROVE FoundInv'
  BY <1>17 DEF JobFollow
<1>18. ASSUME NEW j \in Jobs, JobFinish(j) PROVE FoundInv'
  BY <1>18 DEF JobFinish, Goto
<1>19. ASSUME NEW j \in Jobs, JobCommit(j) PROVE FoundInv'
  BY <1>19 DEF JobCommit, FreeLock
<1>20. ASSUME NEW j \in Jobs, JobRollback(j) PROVE FoundInv'
  BY <1>20 DEF JobRollback, FreeLock
<1>21. ASSUME NEW j \in Jobs, PostReadAttestation(j) PROVE FoundInv'
  BY <1>21 DEF PostReadAttestation, Goto
<1>22. ASSUME NEW j \in Jobs, PostReadEntries(j) PROVE FoundInv'
  BY <1>22 DEF PostReadEntries, Goto
<1>23. ASSUME NEW j \in Jobs, PostContact(j) PROVE FoundInv'
  BY <1>23 DEF PostContact, Ask, Goto
<1>24. CASE Crash
  BY <1>24 DEF Crash
<1>25. CASE UNCHANGED vars
  BY <1>25 DEF vars
<1>26. QED
  BY <1>1, <1>2, <1>3, <1>4, <1>5, <1>6, <1>7, <1>8, <1>9, <1>10, <1>11,
     <1>12, <1>13, <1>14, <1>15, <1>16, <1>17, <1>18, <1>19, <1>20, <1>21,
     <1>22, <1>23, <1>24, <1>25
     DEF Next, AddStep, AttestStep, JobStep

(* So its commit retires every record that does not cover the new row. *)
LEMMA CoversStep ==
    ASSUME TypeOK, LockInv, RowsInv, FoundInv, AttestationCoversScope, [Next]_vars
    PROVE  AttestationCoversScope'
<1> USE RequestsAssumption
    DEF TypeOK, LockInv, RowsInv, FoundInv, AttestationCoversScope,
        Requests, Holding, Ended, Running, Gated, InModule, db, local, traffic
<1>1. ASSUME NEW p \in Requests, LockTimeout(p) PROVE AttestationCoversScope'
  BY <1>1 DEF LockTimeout
<1>2. ASSUME NEW a \in Adders, AddRefused(a) PROVE AttestationCoversScope'
  BY <1>2 DEF AddRefused, Goto
<1>3. ASSUME NEW a \in Adders, AddSelect(a) PROVE AttestationCoversScope'
  BY <1>3 DEF AddSelect, Goto
<1>4. ASSUME NEW a \in Adders, AddInsert(a) PROVE AttestationCoversScope'
  BY <1>4 DEF AddInsert, Goto, TakeLock
<1>5. ASSUME NEW a \in Adders, AddInvalidate(a) PROVE AttestationCoversScope'
  BY <1>5 DEF AddInvalidate, Goto
<1>6. ASSUME NEW a \in Adders, AddCommit(a) PROVE AttestationCoversScope'
  BY <1>6 DEF AddCommit, Goto, FreeLock
<1>7. ASSUME NEW t \in Attesters, AttestRefused(t) PROVE AttestationCoversScope'
  BY <1>7 DEF AttestRefused, Goto
<1>8. ASSUME NEW t \in Attesters, AttestSelect(t) PROVE AttestationCoversScope'
  BY <1>8 DEF AttestSelect, Goto
<1>9. ASSUME NEW t \in Attesters, AttestInsert(t) PROVE AttestationCoversScope'
  BY <1>9 DEF AttestInsert, Goto, TakeLock
<1>10. ASSUME NEW t \in Attesters, AttestCommit(t) PROVE AttestationCoversScope'
  BY <1>10 DEF AttestCommit, Goto, FreeLock
<1>11. ASSUME NEW j \in Jobs, JobReadEntries(j) PROVE AttestationCoversScope'
  BY <1>11 DEF JobReadEntries, Goto
<1>12. ASSUME NEW j \in Jobs, JobReadAttestation(j) PROVE AttestationCoversScope'
  BY <1>12 DEF JobReadAttestation, Goto
<1>13. ASSUME NEW j \in Jobs, JobFlush(j) PROVE AttestationCoversScope'
  BY <1>13 DEF JobFlush, Goto, TakeLock
<1>14. ASSUME NEW j \in Jobs, JobGate(j) PROVE AttestationCoversScope'
  BY <1>14 DEF JobGate, Goto
<1>15. ASSUME NEW j \in Jobs, JobResolve(j) PROVE AttestationCoversScope'
  BY <1>15 DEF JobResolve, Goto
<1>16. ASSUME NEW j \in Jobs, JobContact(j) PROVE AttestationCoversScope'
  BY <1>16 DEF JobContact, Ask, Goto
<1>17. ASSUME NEW j \in Jobs, JobFollow(j) PROVE AttestationCoversScope'
  BY <1>17 DEF JobFollow
<1>18. ASSUME NEW j \in Jobs, JobFinish(j) PROVE AttestationCoversScope'
  BY <1>18 DEF JobFinish, Goto
<1>19. ASSUME NEW j \in Jobs, JobCommit(j) PROVE AttestationCoversScope'
  BY <1>19 DEF JobCommit, FreeLock
<1>20. ASSUME NEW j \in Jobs, JobRollback(j) PROVE AttestationCoversScope'
  BY <1>20 DEF JobRollback, FreeLock
<1>21. ASSUME NEW j \in Jobs, PostReadAttestation(j) PROVE AttestationCoversScope'
  BY <1>21 DEF PostReadAttestation, Goto
<1>22. ASSUME NEW j \in Jobs, PostReadEntries(j) PROVE AttestationCoversScope'
  BY <1>22 DEF PostReadEntries, Goto
<1>23. ASSUME NEW j \in Jobs, PostContact(j) PROVE AttestationCoversScope'
  BY <1>23 DEF PostContact, Ask, Goto
<1>24. CASE Crash
  BY <1>24 DEF Crash
<1>25. CASE UNCHANGED vars
  BY <1>25 DEF vars
<1>26. QED
  BY <1>1, <1>2, <1>3, <1>4, <1>5, <1>6, <1>7, <1>8, <1>9, <1>10, <1>11,
     <1>12, <1>13, <1>14, <1>15, <1>16, <1>17, <1>18, <1>19, <1>20, <1>21,
     <1>22, <1>23, <1>24, <1>25
     DEF Next, AddStep, AttestStep, JobStep

(* A job's entries, read first, stay covered by the records it reads next. *)
LEMMA JobReadStep ==
    ASSUME IInv, [Next]_vars
    PROVE  JobInv'
<1> USE RequestsAssumption
    DEF IInv, TypeOK, LockInv, RowsInv, AttestationCoversScope, JobInv,
        Requests, Holding, Ended, Running, Gated, InModule, Unasked, Authorized,
        db, local, traffic
<1>1. ASSUME NEW p \in Requests, LockTimeout(p) PROVE JobInv'
  BY <1>1 DEF LockTimeout
<1>2. ASSUME NEW a \in Adders, AddRefused(a) PROVE JobInv'
  BY <1>2 DEF AddRefused, Goto
<1>3. ASSUME NEW a \in Adders, AddSelect(a) PROVE JobInv'
  BY <1>3 DEF AddSelect, Goto
<1>4. ASSUME NEW a \in Adders, AddInsert(a) PROVE JobInv'
  BY <1>4 DEF AddInsert, Goto, TakeLock
<1>5. ASSUME NEW a \in Adders, AddInvalidate(a) PROVE JobInv'
  BY <1>5 DEF AddInvalidate, Goto
<1>6. ASSUME NEW a \in Adders, AddCommit(a) PROVE JobInv'
  BY <1>6 DEF AddCommit, Goto, FreeLock
<1>7. ASSUME NEW t \in Attesters, AttestRefused(t) PROVE JobInv'
  BY <1>7 DEF AttestRefused, Goto
<1>8. ASSUME NEW t \in Attesters, AttestSelect(t) PROVE JobInv'
  BY <1>8 DEF AttestSelect, Goto
<1>9. ASSUME NEW t \in Attesters, AttestInsert(t) PROVE JobInv'
  BY <1>9 DEF AttestInsert, Goto, TakeLock
<1>10. ASSUME NEW t \in Attesters, AttestCommit(t) PROVE JobInv'
  BY <1>10 DEF AttestCommit, Goto, FreeLock
<1>11. ASSUME NEW j \in Jobs, JobReadEntries(j) PROVE JobInv'
  BY <1>11 DEF JobReadEntries, Goto
<1>12. ASSUME NEW j \in Jobs, JobReadAttestation(j) PROVE JobInv'
  BY <1>12 DEF JobReadAttestation, Goto
<1>13. ASSUME NEW j \in Jobs, JobFlush(j) PROVE JobInv'
  BY <1>13 DEF JobFlush, Goto, TakeLock
<1>14. ASSUME NEW j \in Jobs, JobGate(j) PROVE JobInv'
  BY <1>14 DEF JobGate, Goto
<1>15. ASSUME NEW j \in Jobs, JobResolve(j) PROVE JobInv'
  BY <1>15 DEF JobResolve, Goto
<1>16. ASSUME NEW j \in Jobs, JobContact(j) PROVE JobInv'
  BY <1>16 DEF JobContact, Ask, Goto
<1>17. ASSUME NEW j \in Jobs, JobFollow(j) PROVE JobInv'
  BY <1>17 DEF JobFollow
<1>18. ASSUME NEW j \in Jobs, JobFinish(j) PROVE JobInv'
  BY <1>18 DEF JobFinish, Goto
<1>19. ASSUME NEW j \in Jobs, JobCommit(j) PROVE JobInv'
  BY <1>19 DEF JobCommit, FreeLock
<1>20. ASSUME NEW j \in Jobs, JobRollback(j) PROVE JobInv'
  BY <1>20 DEF JobRollback, FreeLock
<1>21. ASSUME NEW j \in Jobs, PostReadAttestation(j) PROVE JobInv'
  BY <1>21 DEF PostReadAttestation, Goto
<1>22. ASSUME NEW j \in Jobs, PostReadEntries(j) PROVE JobInv'
  BY <1>22 DEF PostReadEntries, Goto
<1>23. ASSUME NEW j \in Jobs, PostContact(j) PROVE JobInv'
  BY <1>23 DEF PostContact, Ask, Goto
<1>24. CASE Crash
  BY <1>24 DEF Crash
<1>25. CASE UNCHANGED vars
  BY <1>25 DEF vars
<1>26. QED
  BY <1>1, <1>2, <1>3, <1>4, <1>5, <1>6, <1>7, <1>8, <1>9, <1>10, <1>11,
     <1>12, <1>13, <1>14, <1>15, <1>16, <1>17, <1>18, <1>19, <1>20, <1>21,
     <1>22, <1>23, <1>24, <1>25
     DEF Next, AddStep, AttestStep, JobStep

(* So the hosts that its entries allow are hosts that some record covered. *)
LEMMA HeldIsAttested ==
    ASSUME IInv, NEW j \in Jobs \ posts, pc[j] \in Gated, NEW x \in Targets,
           InScope(entries[j], x)
    PROVE  Attested(x)
<1>1. PICK t \in basis[j] : entries[j] \subseteq covers[t]
  BY DEF IInv, JobInv, Gated, Running, Authorized
<1>2. t \in Attesters
  BY DEF IInv, TypeOK
<1>3. QED
  BY <1>1, <1>2 DEF Attested, InScope

(* A job asks nobody but on the strength of what it holds. *)
LEMMA ContactStep ==
    ASSUME IInv, [Next]_vars
    PROVE  ContactsAreAttested'
<1> USE RequestsAssumption, DataAssumption
    DEF IInv, TypeOK, LockInv, RowsInv, JobInv, ContactsAreAttested,
        Requests, Holding, Ended, Running, Gated, InModule, Authorized,
        InScope, Attested, db, local, traffic
<1>1. ASSUME NEW p \in Requests, LockTimeout(p) PROVE ContactsAreAttested'
  BY <1>1 DEF LockTimeout
<1>2. ASSUME NEW a \in Adders, AddRefused(a) PROVE ContactsAreAttested'
  BY <1>2 DEF AddRefused, Goto
<1>3. ASSUME NEW a \in Adders, AddSelect(a) PROVE ContactsAreAttested'
  BY <1>3 DEF AddSelect, Goto
<1>4. ASSUME NEW a \in Adders, AddInsert(a) PROVE ContactsAreAttested'
  BY <1>4 DEF AddInsert, Goto, TakeLock
<1>5. ASSUME NEW a \in Adders, AddInvalidate(a) PROVE ContactsAreAttested'
  BY <1>5 DEF AddInvalidate, Goto
<1>6. ASSUME NEW a \in Adders, AddCommit(a) PROVE ContactsAreAttested'
  BY <1>6 DEF AddCommit, Goto, FreeLock
<1>7. ASSUME NEW t \in Attesters, AttestRefused(t) PROVE ContactsAreAttested'
  BY <1>7 DEF AttestRefused, Goto
<1>8. ASSUME NEW t \in Attesters, AttestSelect(t) PROVE ContactsAreAttested'
  BY <1>8 DEF AttestSelect, Goto
<1>9. ASSUME NEW t \in Attesters, AttestInsert(t) PROVE ContactsAreAttested'
  BY <1>9 DEF AttestInsert, Goto, TakeLock
<1>10. ASSUME NEW t \in Attesters, AttestCommit(t) PROVE ContactsAreAttested'
  BY <1>10 DEF AttestCommit, Goto, FreeLock
<1>11. ASSUME NEW j \in Jobs, JobReadEntries(j) PROVE ContactsAreAttested'
  BY <1>11 DEF JobReadEntries, Goto
<1>12. ASSUME NEW j \in Jobs, JobReadAttestation(j) PROVE ContactsAreAttested'
  BY <1>12 DEF JobReadAttestation, Goto
<1>13. ASSUME NEW j \in Jobs, JobFlush(j) PROVE ContactsAreAttested'
  BY <1>13 DEF JobFlush, Goto, TakeLock
<1>14. ASSUME NEW j \in Jobs, JobGate(j) PROVE ContactsAreAttested'
  BY <1>14 DEF JobGate, Goto
<1>15. ASSUME NEW j \in Jobs, JobResolve(j) PROVE ContactsAreAttested'
  BY <1>15 DEF JobResolve, Goto
<1>16. ASSUME NEW j \in Jobs, JobContact(j) PROVE ContactsAreAttested'
  <2>1. j \notin posts /\ contacted[j] = {} /\ pc[j] \in Gated
    BY <1>16 DEF JobContact, Goto, Unasked
  <2>2. Attested(Target[j])
    BY <2>1, HeldIsAttested
  <2>3. PICK x \in Aims[j] : /\ first' = [first EXCEPT ![j] = x]
                             /\ contacted' = [contacted EXCEPT ![j] = @ \cup {x}]
    BY <1>16 DEF JobContact, Ask
  <2>4. contacted'[j] \ {first'[j]} = {}
    BY <2>1, <2>3
  <2>5. QED
    BY <1>16, <2>2, <2>3, <2>4 DEF JobContact, Ask
<1>17. ASSUME NEW j \in Jobs, JobFollow(j) PROVE ContactsAreAttested'
  <2>1. PICK x \in Targets : /\ InScope(entries[j], x)
                             /\ contacted' = [contacted EXCEPT ![j] = @ \cup {x}]
    BY <1>17 DEF JobFollow
  <2>2. Attested(x)
    BY <1>17, <2>1, HeldIsAttested DEF JobFollow
  <2>3. contacted[j] # {}
    BY <1>17 DEF JobFollow
  <2>4. QED
    BY <1>17, <2>1, <2>2, <2>3 DEF JobFollow
<1>18. ASSUME NEW j \in Jobs, JobFinish(j) PROVE ContactsAreAttested'
  BY <1>18 DEF JobFinish, Goto
<1>19. ASSUME NEW j \in Jobs, JobCommit(j) PROVE ContactsAreAttested'
  BY <1>19 DEF JobCommit, FreeLock
<1>20. ASSUME NEW j \in Jobs, JobRollback(j) PROVE ContactsAreAttested'
  BY <1>20 DEF JobRollback, FreeLock
<1>21. ASSUME NEW j \in Jobs, PostReadAttestation(j) PROVE ContactsAreAttested'
  BY <1>21 DEF PostReadAttestation, Goto
<1>22. ASSUME NEW j \in Jobs, PostReadEntries(j) PROVE ContactsAreAttested'
  BY <1>22 DEF PostReadEntries, Goto
<1>23. ASSUME NEW j \in Jobs, PostContact(j) PROVE ContactsAreAttested'
  BY <1>23 DEF PostContact, Ask, Goto
<1>24. CASE Crash
  BY <1>24 DEF Crash
<1>25. CASE UNCHANGED vars
  BY <1>25 DEF vars
<1>26. QED
  BY <1>1, <1>2, <1>3, <1>4, <1>5, <1>6, <1>7, <1>8, <1>9, <1>10, <1>11,
     <1>12, <1>13, <1>14, <1>15, <1>16, <1>17, <1>18, <1>19, <1>20, <1>21,
     <1>22, <1>23, <1>24, <1>25
     DEF Next, AddStep, AttestStep, JobStep
--------------------------------------------------------------------------------
(* No request has arrived and nothing is stored. *)
LEMMA InitInv == Init => IInv
BY RequestsAssumption
   DEF Init, IInv, TypeOK, LockInv, RowsInv, FoundInv, AttestationCoversScope,
       JobInv, ContactsAreAttested, Requests, States, Holding, Ended, Running,
       Gated, InModule, Unasked

(* Every step keeps the inductive invariant. *)
LEMMA InvStep == IInv /\ [Next]_vars => IInv'
BY TypeStep, LockStep, RowsStep, FoundStep, CoversStep, JobReadStep, ContactStep
   DEF IInv

(* The inductive invariant holds in every state of every behaviour. *)
THEOREM Inductive == Spec => []IInv
BY InitInv, InvStep, PTL DEF Spec

(* The types are right in every state. *)
THEOREM TypeCorrect == Spec => []TypeOK
<1>1. IInv => TypeOK
  BY DEF IInv
<1>2. QED
  BY <1>1, Inductive, PTL

(* For any number of concurrent add_scope and attest requests, with lock    *)
(* timeouts and crashes: a current record covers every enabled entry.       *)
THEOREM CurrentRecordsCoverScope == Spec => []AttestationCoversScope
<1>1. IInv => AttestationCoversScope
  BY DEF IInv
<1>2. QED
  BY <1>1, Inductive, PTL

(* A job past the gate relies only on entries its attestation covered. *)
THEOREM GatedJobsAreAttested == Spec => []GatedEntriesAreAttested
<1>1. IInv => GatedEntriesAreAttested
  BY DEF IInv, JobInv, Authorized, GatedEntriesAreAttested, Running
<1>2. QED
  BY <1>1, Inductive, PTL

(* For any entries, config and redirects: a job sends nothing unless its    *)
(* target was attested, and follows no redirect to a host that was not.     *)
THEOREM EveryContactIsAttested == Spec => []ContactsAreAttested
<1>1. IInv => ContactsAreAttested
  BY DEF IInv
<1>2. QED
  BY <1>1, Inductive, PTL

(* A commit of add_scope or attest needs the lock that a running job holds. *)
THEOREM FrozenWhileRunning == Spec => AuthorizationFrozenWhileRunning
<1>1. ASSUME IInv, [Next]_vars, NEW j \in Jobs, pc[j] \in Running
      PROVE  UNCHANGED db
  <2>1. writer = j
    BY <1>1 DEF IInv, LockInv, Holding, Requests
  <2>2. \A a \in Adders : ~AddCommit(a)
    BY <2>1, RequestsAssumption DEF AddCommit, FreeLock
  <2>3. \A t \in Attesters : ~AttestCommit(t)
    BY <2>1, RequestsAssumption DEF AttestCommit, FreeLock
  <2>4. QED
    BY <1>1, <2>2, <2>3
       DEF Next, vars, db, AddRefused, AddSelect, AddStep, AddInsert,
           AddInvalidate, AttestRefused, AttestSelect, AttestStep, AttestInsert,
           LockTimeout, JobReadEntries, PostReadAttestation, PostReadEntries,
           PostContact, Ask, JobStep, JobReadAttestation, JobFlush,
           JobGate, JobResolve, JobContact, JobFollow, JobFinish, JobCommit,
           JobRollback, Crash
<1>2. IInv /\ [Next]_vars => [\A j \in Jobs : pc[j] \in Running => UNCHANGED db]_vars
  BY <1>1
<1>3. QED
  BY <1>2, Inductive, PTL DEF Spec, AuthorizationFrozenWhileRunning
--------------------------------------------------------------------------------
(* Only three kinds of step change what the ledger shows, each as one of its *)
(* atomic requests; every other step leaves the tables and contacts alone.   *)
LEMMA LedgerStep ==
    ASSUME IInv, [Next]_vars
    PROVE  [Ledger!Next]_(Ledger!vars)
<1> USE DEF IInv, TypeOK, Ledger!vars, local, traffic
<1>1. ASSUME NEW a \in Adders, AddCommit(a) PROVE Ledger!Add(a)
  BY <1>1 DEF AddCommit, Goto, Ledger!Add, RowsInv, FoundInv, ActiveContacts
<1>2. ASSUME NEW t \in Attesters, AttestCommit(t) PROVE Ledger!Attest(t)
  BY <1>2 DEF AttestCommit, Goto, Ledger!Attest, RowsInv, ActiveContacts
<1>3. ASSUME NEW j \in Jobs, JobContact(j)
      PROVE  \E x \in Targets : Ledger!Ask(j, x)
  <2>1. PICK x \in Aims[j] : contacted' = [contacted EXCEPT ![j] = @ \cup {x}]
    BY <1>3 DEF JobContact, Ask
  <2>2. j \notin posts /\ contacted[j] = {} /\ pc[j] \in Gated
    BY <1>3 DEF JobContact, Goto, JobInv, Gated, Unasked
  <2>3. Attested(Target[j])
    BY <2>2, HeldIsAttested, DataAssumption DEF JobInv, Authorized
  <2>4. Ledger!Attested(Target[j])
    BY <2>3, DataAssumption DEF Attested, Ledger!Attested, InScope, AllowingRows
  <2>5. ActiveContacts' = [ActiveContacts EXCEPT ![j] = @ \cup {x}]
    BY <1>3, <2>1, <2>2 DEF JobContact, Ask, ActiveContacts
  <2>6. Ledger!Contact(j, x)
    BY <1>3, <2>5 DEF JobContact, Ask, db, Ledger!Contact
  <2>7. x \in Targets
    BY DataAssumption
  <2>8. QED
    BY <2>2, <2>4, <2>6, <2>7 DEF Ledger!Ask, ActiveContacts
<1>4. ASSUME NEW j \in Jobs, JobFollow(j)
      PROVE  \E x \in Targets : Ledger!Follow(j, x)
  <2>1. PICK x \in Targets : /\ InScope(entries[j], x)
                             /\ contacted' = [contacted EXCEPT ![j] = @ \cup {x}]
    BY <1>4 DEF JobFollow
  <2>2. j \notin posts /\ contacted[j] # {} /\ pc[j] \in Gated
    BY <1>4 DEF JobFollow, JobInv, Gated, InModule
  <2>3. Attested(x)
    BY <2>1, <2>2, HeldIsAttested
  <2>4. Ledger!Attested(x)
    BY <2>3, DataAssumption DEF Attested, Ledger!Attested, InScope, AllowingRows
  <2>5. ActiveContacts' = [ActiveContacts EXCEPT ![j] = @ \cup {x}]
    BY <1>4, <2>1, <2>2 DEF JobFollow, ActiveContacts
  <2>6. Ledger!Contact(j, x)
    BY <1>4, <2>5 DEF JobFollow, db, Ledger!Contact
  <2>7. QED
    BY <2>2, <2>4, <2>6 DEF Ledger!Follow, ActiveContacts
<1>5. ASSUME NEW j \in Jobs, PostReadAttestation(j) \/ PostContact(j)
      PROVE  UNCHANGED Ledger!vars
  <2>1. ActiveContacts' = ActiveContacts
    BY <1>5
       DEF PostReadAttestation, PostContact, Ask, Goto, JobInv, Unasked, ActiveContacts
  <2>2. QED
    BY <1>5, <2>1 DEF PostReadAttestation, PostContact, Ask, db
<1>6. \/ \E a \in Adders : AddCommit(a)
      \/ \E t \in Attesters : AttestCommit(t)
      \/ \E j \in Jobs : \/ JobContact(j) \/ JobFollow(j)
                         \/ PostReadAttestation(j) \/ PostContact(j)
      \/ UNCHANGED <<scope, current, covers, posts, contacted>>
  BY DEF Next, vars, db, AddRefused, AddSelect, AddStep, AddInsert,
         AddInvalidate, AttestRefused, AttestSelect, AttestStep, AttestInsert,
         LockTimeout, JobReadEntries, JobStep, JobReadAttestation, PostReadEntries,
         JobFlush, JobGate, JobResolve, JobFinish, JobCommit, JobRollback, Crash
<1>7. QED
  BY <1>1, <1>2, <1>3, <1>4, <1>5, <1>6, DataAssumption
     DEF Ledger!Next, ActiveContacts

(* The interleaved requests implement the atomic ones. *)
THEOREM ImplementsTheLedger == Spec => ImplementsLedger
<1>1. Init => Ledger!Init
  BY DEF Init, Ledger!Init, ActiveContacts
<1>2. QED
  BY <1>1, LedgerStep, Inductive, PTL DEF Spec, ImplementsLedger, Ledger!Spec
================================================================================
