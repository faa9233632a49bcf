----------------------------- MODULE AttestedScope -----------------------------
(***************************************************************************)
(* The authorization path of an active job: the requests that add scope    *)
(* entries, the requests that record an attestation, and the active jobs   *)
(* that read both, pass the gate and contact a host: those of the active   *)
(* runner, and those of POST .../jobs, which is meant for passive modules  *)
(* but takes active ones.  They run in separate threads, each with its own *)
(* session on one SQLite database.                                         *)
(*                                                                         *)
(* SQLite as the code uses it (WAL, pysqlite's legacy transactions): a     *)
(* SELECT outside a transaction sees the latest commit; the first INSERT   *)
(* or UPDATE of a session opens its transaction and takes the one write    *)
(* lock, which COMMIT or ROLLBACK releases; a session that waits for the   *)
(* lock longer than the driver's timeout fails with "database is locked".  *)
(*                                                                         *)
(* A row is identified with the request that inserts it.  One project.     *)
(***************************************************************************)
CONSTANTS
    Adders,      \* POST .../scope requests
    Attesters,   \* POST .../attestation requests
    Jobs,        \* active jobs
    Values,      \* canonical scope values
    Targets,     \* hosts
    Posted,      \* Posted[a]: the canonical value that request a adds
    Target,      \* Target[j]: the host job j was started against
    Aims,        \* Aims[j]: the hosts that job j's first request may go to
    Accepted,    \* hosts of a type the job's module accepts
    Allowed,     \* Allowed[x]: the values that allow host x (scope.service.evaluate)
    Nobody       \* no request and no host

Requests == Adders \cup Attesters \cup Jobs

ASSUME RequestsAssumption ==
    /\ Adders \cap Attesters = {}
    /\ Adders \cap Jobs = {}
    /\ Attesters \cap Jobs = {}
    /\ Nobody \notin Requests \cup Targets

ASSUME DataAssumption ==
    /\ Posted \in [Adders -> Values]
    /\ Target \in [Jobs -> Targets]
    /\ Aims \in [Jobs -> SUBSET Targets]
    /\ Accepted \subseteq Targets
    /\ Allowed \in [Targets -> SUBSET Values]

VARIABLES
    pc,          \* where each request is
    writer,      \* the request whose transaction holds the write lock
    scope,       \* committed, enabled scope entry rows
    current,     \* committed authorization records with invalidated_at NULL
    covers,      \* history: the rows enabled when a record was committed
    found,       \* records an add_scope read to invalidate them
    entries,     \* rows a job read for its gate and its redirect checks
    basis,       \* current records a job's attestation SELECT returned
    posts,       \* the jobs that POST .../jobs runs
    first,       \* history: the host that a job's first request went to
    contacted    \* history: hosts a job sent traffic to

vars == <<pc, writer, scope, current, covers, found, entries, basis, posts, first, contacted>>
db == <<scope, current, covers>>
local == <<found, entries, basis, posts>>
traffic == <<first, contacted>>

Ended == {"idle", "done", "failed"}
InModule == {"contacting", "finished"}
Gated == {"allowed", "resolved"} \cup InModule
Running == {"flushed", "refused"} \cup Gated
States == Ended \cup Running \cup
          {"checked", "inserted", "selected", "entriesRead", "attestationRead", "authzRead"}

(* Some row of es has a value that allows host x. *)
InScope(es, x) == \E e \in es : Posted[e] \in Allowed[x]

Init ==
    /\ pc = [p \in Requests |-> "idle"]
    /\ writer = Nobody
    /\ scope = {}
    /\ current = {}
    /\ covers = [t \in Attesters |-> {}]
    /\ found = [a \in Adders |-> {}]
    /\ entries = [j \in Jobs |-> {}]
    /\ basis = [j \in Jobs |-> {}]
    /\ posts = {}
    /\ first = [j \in Jobs |-> Nobody]
    /\ contacted = [j \in Jobs |-> {}]

Goto(p, from, to) ==
    /\ pc[p] = from
    /\ pc' = [pc EXCEPT ![p] = to]

(* The session's first write: the transaction begins. *)
TakeLock(p) ==
    /\ writer = Nobody
    /\ writer' = p

(* COMMIT or ROLLBACK. *)
FreeLock(p) ==
    /\ writer = p
    /\ writer' = Nobody

(* Waited for the write lock beyond the timeout: the exception unwinds to   *)
(* get_session or to the job thread, which roll back.                       *)
LockTimeout(p) ==
    /\ pc[p] \in {"checked", "authzRead"}
    /\ writer # Nobody
    /\ pc' = [pc EXCEPT ![p] = "failed"]
    /\ UNCHANGED <<writer, db, local, traffic>>

--------------------------------------------------------------------------------
(* add_scope *)

AddRefused(a) ==
    /\ \E e \in scope : Posted[e] = Posted[a]
    /\ Goto(a, "idle", "failed")
    /\ UNCHANGED <<writer, db, local, traffic>>

AddSelect(a) ==
    /\ \A e \in scope : Posted[e] # Posted[a]
    /\ Goto(a, "idle", "checked")
    /\ UNCHANGED <<writer, db, local, traffic>>

(* The SELECT of _invalidate_attestation autoflushes the new row first, so  *)
(* the lock is taken before the records are read.                           *)
AddInsert(a) ==
    /\ Goto(a, "checked", "inserted")
    /\ TakeLock(a)
    /\ UNCHANGED <<db, local, traffic>>

(* Broken variant: only the first current record is invalidated. *)
AddInvalidateFirst(a) ==
    /\ Goto(a, "inserted", "selected")
    /\ found' = [found EXCEPT ![a] =
                    IF current = {} THEN {} ELSE {CHOOSE t \in current : TRUE}]
    /\ UNCHANGED <<writer, db, entries, basis, posts, traffic>>

AddInvalidate(a) ==
    /\ Goto(a, "inserted", "selected")
    /\ found' = [found EXCEPT ![a] = current]
    /\ UNCHANGED <<writer, db, entries, basis, posts, traffic>>

(* Broken variant: the row is keyed by its value. *)
AddCommitByValue(a) ==
    /\ Goto(a, "selected", "done")
    /\ FreeLock(a)
    /\ scope' = scope \cup {Posted[a]}
    /\ current' = current \ found[a]
    /\ UNCHANGED <<covers, local, traffic>>

AddCommit(a) ==
    /\ Goto(a, "selected", "done")
    /\ FreeLock(a)
    /\ scope' = scope \cup {a}
    /\ current' = current \ found[a]
    /\ UNCHANGED <<covers, local, traffic>>

--------------------------------------------------------------------------------
(* attest *)

AttestRefused(t) ==
    /\ scope = {}
    /\ Goto(t, "idle", "failed")
    /\ UNCHANGED <<writer, db, local, traffic>>

(* Broken variant: an empty scope is not refused. *)
AttestSelectUnchecked(t) ==
    /\ Goto(t, "idle", "checked")
    /\ UNCHANGED <<writer, db, local, traffic>>

AttestSelect(t) ==
    /\ scope # {}
    /\ Goto(t, "idle", "checked")
    /\ UNCHANGED <<writer, db, local, traffic>>

AttestInsert(t) ==
    /\ Goto(t, "checked", "inserted")
    /\ TakeLock(t)
    /\ UNCHANGED <<db, local, traffic>>

AttestCommit(t) ==
    /\ Goto(t, "inserted", "done")
    /\ FreeLock(t)
    /\ current' = current \cup {t}
    /\ covers' = [covers EXCEPT ![t] = scope]
    /\ UNCHANGED <<scope, local, traffic>>

--------------------------------------------------------------------------------
(* an active job: run_active_job or the manager's thread, then the runner; *)
(* run_job reads in the other order.                                       *)

JobReadEntries(j) ==
    /\ Goto(j, "idle", "entriesRead")
    /\ entries' = [entries EXCEPT ![j] = scope]
    /\ UNCHANGED <<writer, db, found, basis, posts, traffic>>

JobReadAttestation(j) ==
    /\ Goto(j, "entriesRead", "authzRead")
    /\ basis' = [basis EXCEPT ![j] = current]
    /\ UNCHANGED <<writer, db, found, entries, posts, traffic>>

PostReadAttestation(j) ==
    /\ Goto(j, "idle", "attestationRead")
    /\ posts' = posts \cup {j}
    /\ basis' = [basis EXCEPT ![j] = current]
    /\ UNCHANGED <<writer, db, found, entries, traffic>>

PostReadEntries(j) ==
    /\ Goto(j, "attestationRead", "authzRead")
    /\ entries' = [entries EXCEPT ![j] = scope]
    /\ UNCHANGED <<writer, db, found, basis, posts, traffic>>

(* Broken variant: the entries are read again when the job starts. *)
JobFlushRereads(j) ==
    /\ Goto(j, "authzRead", "flushed")
    /\ TakeLock(j)
    /\ entries' = [entries EXCEPT ![j] = scope]
    /\ UNCHANGED <<db, found, basis, posts, traffic>>

(* The flush of the job row takes the write lock until the job's commit. *)
JobFlush(j) ==
    /\ Goto(j, "authzRead", "flushed")
    /\ TakeLock(j)
    /\ UNCHANGED <<db, local, traffic>>

(* authorize_job on what the job read. *)
Authorized(j) ==
    /\ Target[j] \in Accepted
    /\ basis[j] # {}
    /\ InScope(entries[j], Target[j])

JobGate(j) ==
    /\ Goto(j, "flushed", IF Authorized(j) THEN "allowed" ELSE "refused")
    /\ UNCHANGED <<writer, db, local, traffic>>

(* Resolution can fail, which ends the job without a contact. *)
JobResolve(j) ==
    /\ j \notin posts
    /\ \E outcome \in {"resolved", "refused"} : Goto(j, "allowed", outcome)
    /\ UNCHANGED <<writer, db, local, traffic>>

(* module.run's first request.  It goes to the authorized host, except that *)
(* http_overview puts scheme, host and port together to a URL, the first    *)
(* and the last from the job's config as they are, and asks whichever host  *)
(* the URL then names.                                                      *)
Ask(j) ==
    /\ \E x \in Aims[j] :
          /\ first' = [first EXCEPT ![j] = x]
          /\ contacted' = [contacted EXCEPT ![j] = @ \cup {x}]
    /\ UNCHANGED <<writer, db, local>>

JobContact(j) == Goto(j, "resolved", "contacting") /\ Ask(j)

(* PassiveJobRunner neither resolves nor pins the target. *)
PostContact(j) == j \in posts /\ Goto(j, "allowed", "contacting") /\ Ask(j)

(* http_overview follows a redirect to a host its scope entries allow; run  *)
(* by POST .../jobs it is given none.                                      *)
JobFollow(j) ==
    /\ j \notin posts
    /\ pc[j] = "contacting"
    /\ \E x \in Targets :
          /\ InScope(entries[j], x)
          /\ contacted' = [contacted EXCEPT ![j] = @ \cup {x}]
    /\ UNCHANGED <<pc, writer, db, local, first>>

(* The module returns or raises; its results and the job row are flushed. *)
JobFinish(j) ==
    /\ Goto(j, "contacting", "finished")
    /\ UNCHANGED <<writer, db, local, traffic>>

JobCommit(j) ==
    /\ pc[j] \in {"finished", "refused"}
    /\ pc' = [pc EXCEPT ![j] = "done"]
    /\ FreeLock(j)
    /\ UNCHANGED <<db, local, traffic>>

(* Broken variant: the session is neither rolled back nor closed. *)
JobRollbackForgotten(j) ==
    /\ pc[j] \in Running
    /\ pc' = [pc EXCEPT ![j] = "failed"]
    /\ UNCHANGED <<writer, db, local, traffic>>

(* An exception after the flush (storing evidence, committing): rollback. *)
JobRollback(j) ==
    /\ pc[j] \in Running
    /\ pc' = [pc EXCEPT ![j] = "failed"]
    /\ FreeLock(j)
    /\ UNCHANGED <<db, local, traffic>>

--------------------------------------------------------------------------------
(* The app is killed and started again: open transactions are lost. *)
Crash ==
    /\ \E p \in Requests : pc[p] \notin Ended
    /\ pc' = [p \in Requests |-> IF pc[p] \in Ended THEN pc[p] ELSE "failed"]
    /\ writer' = Nobody
    /\ UNCHANGED <<db, local, traffic>>

AddStep(a) == AddInsert(a) \/ AddInvalidate(a) \/ AddCommit(a) \/ LockTimeout(a)
AttestStep(t) == AttestInsert(t) \/ AttestCommit(t) \/ LockTimeout(t)
JobStep(j) ==
    \/ JobReadAttestation(j) \/ PostReadEntries(j) \/ JobFlush(j) \/ LockTimeout(j)
    \/ JobGate(j) \/ JobResolve(j) \/ JobContact(j) \/ PostContact(j) \/ JobFollow(j)
    \/ JobFinish(j) \/ JobCommit(j) \/ JobRollback(j)

Next ==
    \/ \E a \in Adders : AddRefused(a) \/ AddSelect(a) \/ AddStep(a)
    \/ \E t \in Attesters : AttestRefused(t) \/ AttestSelect(t) \/ AttestStep(t)
    \/ \E j \in Jobs : JobReadEntries(j) \/ PostReadAttestation(j) \/ JobStep(j)
    \/ Crash

(* A request that has arrived goes on: the waits for the lock, for DNS and  *)
(* for processes are bounded.  A response is not (ModuleRuns); that every   *)
(* server ends the responses it sends is assumed here.                      *)
Fairness ==
    /\ \A a \in Adders : WF_vars(AddStep(a))
    /\ \A t \in Attesters : WF_vars(AttestStep(t))
    /\ \A j \in Jobs : WF_vars(JobStep(j))

Spec == Init /\ [][Next]_vars
FairSpec == Spec /\ Fairness

--------------------------------------------------------------------------------
(* Type invariant. *)
TypeOK ==
    /\ pc \in [Requests -> States]
    /\ writer \in Requests \cup {Nobody}
    /\ scope \subseteq Adders
    /\ current \subseteq Attesters
    /\ covers \in [Attesters -> SUBSET Adders]
    /\ found \in [Adders -> SUBSET Attesters]
    /\ entries \in [Jobs -> SUBSET Adders]
    /\ basis \in [Jobs -> SUBSET Attesters]
    /\ posts \subseteq Jobs
    /\ first \in [Jobs -> Targets \cup {Nobody}]
    /\ contacted \in [Jobs -> SUBSET Targets]

(* "Adding/expanding scope invalidates any current attestation": whatever   *)
(* the order of concurrent add_scope and attest requests, a record that is  *)
(* still current covers every enabled entry.                                *)
AttestationCoversScope ==
    \A t \in current : scope \subseteq covers[t]

(* A job of the active runner that passed the gate holds only entries that  *)
(* every attestation it found current had covered, although it read the two *)
(* tables with two separate SELECTs: entries are read first.                *)
GatedEntriesAreAttested ==
    \A j \in Jobs \ posts : pc[j] \in Gated =>
        /\ basis[j] # {}
        /\ \A t \in basis[j] : entries[j] \subseteq covers[t]

(* An attestation was recorded while an entry that allows x was enabled. *)
Attested(x) == \E t \in Attesters : InScope(covers[t], x)

(* No such job sends traffic to anyone unless its target was attested, and  *)
(* beyond the host that its first request goes to, which is its target      *)
(* unless its config makes another URL of it, every host it reaches by a    *)
(* redirect was attested too.                                               *)
ContactsAreAttested ==
    \A j \in Jobs \ posts :
        /\ contacted[j] # {} => Attested(Target[j])
        /\ \A x \in contacted[j] \ {first[j]} : Attested(x)

(* README: "you can only actively probe targets you have declared and       *)
(* attested".  Violated: the first URL of http_overview is not checked      *)
(* again once the config has gone into it.                                  *)
ContactsAreInScope ==
    \A j \in Jobs \ posts : \A x \in contacted[j] : Attested(x)

(* From the flush of its row to its end a running job excludes every change *)
(* of the tables it was authorized from.                                    *)
AuthorizationFrozenWhileRunning ==
    [][\A j \in Jobs : pc[j] \in Running => UNCHANGED db]_vars

(* Every request ends with a system where the lock is free again: a job     *)
(* that fails in any way does not leave the database locked.                *)
LockIsFreed == (writer # Nobody) ~> (writer = Nobody)

(* README: active modules are refused unless a "Current authorization       *)
(* attestation exists".  Violated: the attestation is read before the job   *)
(* row is flushed, and an add_scope can commit in between; POST .../jobs    *)
(* then takes the new entry too, which nobody has attested.                 *)
ContactUnderCurrentAttestation ==
    \A j \in Jobs : pc[j] \in InModule => current # {}

(* The contacts of the active runner's jobs. *)
ActiveContacts == [j \in Jobs |-> IF j \in posts THEN {} ELSE contacted[j]]

AllowingRows == [x \in Targets |-> {a \in Adders : Posted[a] \in Allowed[x]}]

(* The tables, as the atomic requests of ScopeLedger change them. *)
Ledger == INSTANCE ScopeLedger WITH
    Entries <- Adders,
    Records <- Attesters,
    Allowing <- AllowingRows,
    contacted <- ActiveContacts

(* Every interleaving of the requests, with timeouts and crashes, is one in *)
(* which they change the tables one at a time, and a job's first request is *)
(* made on the strength of an attestation of its target, each later one on  *)
(* that of an attestation of the host it goes to.                           *)
ImplementsLedger == Ledger!Spec
================================================================================
