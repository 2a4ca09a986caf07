----------------------------- MODULE AuditChain -----------------------------
(***************************************************************************)
(* The hash chain of the audit log: AuditLog of enterprise/audit.py (a     *)
(* SQLite file that the daemon and the commands of the CLI append to, each *)
(* with its own object) and PostgresAuditLog of                            *)
(* enterprise/postgres_audit.py (one table for all replicas), with record, *)
(* verify, and the retention prune that re-anchors the chain.              *)
(*                                                                         *)
(* What a row says is abstracted to the time it was stamped with, which    *)
(* tells records apart; a hash is the chain of rows it commits to. The     *)
(* clocks of the replicas are taken to agree: stamps that do not advance   *)
(* with time would act as those out of order do ("stamp" in overlap), also *)
(* where no two calls overlap.                                             *)
(***************************************************************************)
EXTENDS Naturals, Sequences, FiniteSets

CONSTANTS
    Writers,     \* AuditLog objects: none shares its lock with another
    Nobody,      \* the advisory lock is free
    NoHash,      \* prev_hash and row_hash NULL: a row from before the chain
    MaxLegacy,   \* bound on such rows
    MaxRecords,  \* bound on records
    MaxPrunes,   \* bound on prunes
    MaxFails,    \* bound on writes that raise
    MaxTampers   \* bound on rows changed or removed by hand

ASSUME AuditAssumption ==
    /\ Nobody \notin Writers /\ NoHash \notin Seq(Nat \X Nat)
    /\ MaxLegacy \in Nat /\ MaxRecords \in Nat /\ MaxPrunes \in Nat
    /\ MaxFails \in Nat /\ MaxTampers \in Nat

VARIABLES
    backend,   \* enterprise.audit_backend: "sqlite" or "postgres"
    log,       \* the rows, each with its seq
    clock,     \* time, which advances with every stamp
    at,        \* where each writer is in record
    stamp,     \* the ts it has taken
    tip,       \* the row_hash it has read
    next_seq,  \* the seq it has computed
    holder,    \* who has pg_advisory_xact_lock
    pruning,   \* Postgres prune between its SELECT and its commit: its cutoff
    scanned,   \* the rows that SELECT has returned
    gone,      \* history: stamps of pruned rows
    overlap,   \* history: which calls have overlapped
    tampered,  \* history: a row was changed or removed by hand
    prunes, fails

auditVars == <<backend, log, clock, at, stamp, tip, next_seq, holder, pruning,
          scanned, gone, overlap, tampered, prunes, fails>>

Genesis == <<>>
Hashes == Seq(Nat \X Nat)

\* compute_row_hash: two rows have one hash only if they agree in everything.
compute_row_hash(seq, ts, prev) == Append(prev, <<seq, ts>>)

Row(seq, ts, prev) ==
    [seq |-> seq, ts |-> ts, prev |-> prev, hash |-> compute_row_hash(seq, ts, prev)]

Hashed(rows) == {r \in rows : r.hash # NoHash}

Last(rows) == CHOOSE r \in rows : \A q \in rows : q.seq <= r.seq

\* SELECT row_hash ... ORDER BY seq DESC LIMIT 1, or GENESIS_HASH.
Tip(rows) == IF Hashed(rows) = {} THEN Genesis ELSE Last(Hashed(rows)).hash

\* COALESCE(MAX(seq), 0) + 1
NextSeq(rows) == IF rows = {} THEN 1 ELSE Last(rows).seq + 1

-----------------------------------------------------------------------------
Before(r, rows) == {q \in rows : q.seq < r.seq}

Gap(r, rows) == Before(r, rows) # {} /\ \A q \in rows : q.seq + 1 # r.seq

\* Mutation: the stored hash is trusted.
BugMismatch(r, rows) == r.hash # NoHash /\ r.prev # Tip(Before(r, rows))

\* prev_hash != expected_prev, or recomputed != row_hash.
Mismatch(r, rows) ==
    /\ r.hash # NoHash
    /\ \/ r.prev # Tip(Before(r, rows))
       \/ r.hash # compute_row_hash(r.seq, r.ts, r.prev)

\* verify: the reason at the first row that breaks the chain.
verify(rows) ==
    LET broken == {r \in rows : Gap(r, rows) \/ Mismatch(r, rows)}
        first == CHOOSE r \in broken : \A q \in broken : r.seq <= q.seq
    IN  CASE broken = {} -> "ok"
          [] broken # {} /\ Gap(first, rows) -> "seq_gap"
          [] OTHER -> "hash_mismatch"

\* Mutation: the rows that are left keep their hashes.
Bug_reanchor_chain(rows) == rows

\* The row that n others precede.
After(n, rows) == CHOOSE r \in rows : Cardinality(Before(r, rows)) = n

\* A chain over these rows in order of seq: what the hash of the last commits to.
Chain(rows) ==
    [i \in 1..Cardinality(rows) |-> <<After(i - 1, rows).seq, After(i - 1, rows).ts>>]

\* _reanchor_chain: the hashes of these rows are computed again from GENESIS.
_reanchor_chain(rows) ==
    (rows \ Hashed(rows))
      \cup {Row(r.seq, r.ts, Chain(Before(r, Hashed(rows)))) : r \in Hashed(rows)}

-----------------------------------------------------------------------------
Goto(w, p) == at' = [at EXCEPT ![w] = p]

\* Writers whose reads another commit can make stale.
Reading(w) == {v \in Writers \ {w} : at[v] \in {"max", "insert"}}

Note(kinds) == overlap' = overlap \cup kinds

\* The writer is out of record. Its connection is closed, and with it the lock.
Return(w) ==
    /\ Goto(w, "idle")
    /\ stamp' = [stamp EXCEPT ![w] = 0]
    /\ tip' = [tip EXCEPT ![w] = Genesis]
    /\ next_seq' = [next_seq EXCEPT ![w] = 0]
    /\ holder' = IF holder = w THEN Nobody ELSE holder

Stamp(w) == clock' = clock + 1 /\ stamp' = [stamp EXCEPT ![w] = clock + 1]

\* Postgres: ts is taken first, before the wait for the lock.
Begin(w) ==
    /\ backend = "postgres" /\ at[w] = "idle" /\ clock < MaxRecords
    /\ Stamp(w)
    /\ Goto(w, "lock")
    /\ Note(IF \E v \in Writers : stamp[v] > 0 THEN {"stamp"} ELSE {})
    /\ UNCHANGED <<backend, log, tip, next_seq, holder, pruning, scanned, gone,
                   tampered, prunes, fails>>

\* Mutation: the advisory lock is not taken.
BugFree(w) == TRUE

Free(w) == holder = Nobody

\* pg_advisory_xact_lock, held until the commit.
Lock(w) ==
    /\ at[w] = "lock" /\ Free(w)
    /\ holder' = w
    /\ Goto(w, "tip")
    /\ UNCHANGED <<backend, log, clock, stamp, tip, next_seq, pruning, scanned,
                   gone, overlap, tampered, prunes, fails>>

\* The first SELECT. In SQLite it is a transaction of its own.
ReadTip(w) ==
    /\ \/ at[w] = "tip"
       \/ backend = "sqlite" /\ at[w] = "idle" /\ clock < MaxRecords
    /\ tip' = [tip EXCEPT ![w] = Tip(log)]
    /\ Goto(w, "max")
    /\ UNCHANGED <<backend, log, clock, stamp, next_seq, holder, pruning,
                   scanned, gone, overlap, tampered, prunes, fails>>

\* The second one; SQLite takes ts after it.
ReadMax(w) ==
    /\ at[w] = "max"
    /\ next_seq' = [next_seq EXCEPT ![w] = NextSeq(log)]
    /\ IF backend = "sqlite" THEN clock < MaxRecords /\ Stamp(w) ELSE UNCHANGED <<clock, stamp>>
    /\ Goto(w, "insert")
    /\ UNCHANGED <<backend, log, tip, holder, pruning, scanned, gone, overlap,
                   tampered, prunes, fails>>

\* INSERT and commit. A seq that is taken violates the primary key, and a write
\* may fail (busy, connection): record swallows the error.
Insert(w) ==
    /\ at[w] = "insert"
    /\ \/ /\ \A r \in log : r.seq # next_seq[w]
          /\ log' = log \cup {Row(next_seq[w], stamp[w], tip[w])}
          /\ Note((IF Reading(w) # {} THEN {"append"} ELSE {})
                    \cup (IF pruning > 0 THEN {"prune"} ELSE {}))
          /\ UNCHANGED fails
       \/ /\ \E r \in log : r.seq = next_seq[w]
          /\ UNCHANGED <<log, overlap, fails>>
       \/ /\ fails < MaxFails
          /\ fails' = fails + 1
          /\ UNCHANGED <<log, overlap>>
    /\ Return(w)
    /\ UNCHANGED <<backend, clock, pruning, scanned, gone, tampered, prunes>>

\* The rows ts < cutoff. A cutoff lies days back: no row is written that late.
Doomed(rows, cutoff) == {r \in rows : r.ts < cutoff}

Cutoffs ==
    {c \in 2..(clock + 1) : /\ \A w \in Writers : stamp[w] > 0 => c <= stamp[w]
                            /\ Doomed(log, c) # {}}

PruneDone(rows, cutoff) ==
    /\ gone' = gone \cup {r.ts : r \in Doomed(rows, cutoff)}
    /\ prunes' = prunes + 1
    /\ Note(IF \E w \in Writers : at[w] \in {"max", "insert"} THEN {"prune"} ELSE {})

\* prune_before in SQLite: from its DELETE on it holds the write lock.
Prune ==
    /\ backend = "sqlite" /\ prunes < MaxPrunes
    /\ \E c \in Cutoffs :
         /\ log' = _reanchor_chain(log \ Doomed(log, c))
         /\ PruneDone(log, c)
    /\ UNCHANGED <<backend, clock, at, stamp, tip, next_seq, holder, pruning,
                   scanned, tampered, fails>>

\* prune_before in Postgres does not take the advisory lock. It reads the rows
\* it will hash again ...
PruneScan ==
    /\ backend = "postgres" /\ pruning = 0 /\ prunes < MaxPrunes
    /\ \E c \in Cutoffs : pruning' = c /\ scanned' = log
    /\ UNCHANGED <<backend, log, clock, at, stamp, tip, next_seq, holder, gone,
                   overlap, tampered, prunes, fails>>

\* ... and commits: until then appends read the old rows, and those they have
\* added since are not hashed again.
PruneCommit ==
    /\ pruning > 0
    /\ log' = _reanchor_chain(scanned \ Doomed(scanned, pruning)) \cup (log \ scanned)
    /\ PruneDone(scanned, pruning)
    /\ pruning' = 0 /\ scanned' = {}
    /\ UNCHANGED <<backend, clock, at, stamp, tip, next_seq, holder, tampered, fails>>

\* Somebody removes a hashed row that others follow, or changes what one says.
Tamper ==
    /\ ~tampered /\ MaxTampers > 0 /\ pruning = 0
    /\ tampered' = TRUE
    /\ \E r \in Hashed(log) :
         \/ r # Last(log) /\ log' = log \ {r}
         \/ log' = (log \ {r}) \cup {[r EXCEPT !.ts = 0]}
    /\ UNCHANGED <<backend, clock, at, stamp, tip, next_seq, holder, pruning,
                   scanned, gone, overlap, prunes, fails>>

-----------------------------------------------------------------------------
\* An old file or table may hold rows without hashes, the oldest ones.
AuditInit ==
    /\ backend \in {"sqlite", "postgres"}
    /\ \E n \in 0..MaxLegacy :
         /\ log = {[seq |-> i, ts |-> i, prev |-> NoHash, hash |-> NoHash] : i \in 1..n}
         /\ clock = n
    /\ at = [w \in Writers |-> "idle"]
    /\ stamp = [w \in Writers |-> 0]
    /\ tip = [w \in Writers |-> Genesis]
    /\ next_seq = [w \in Writers |-> 0]
    /\ holder = Nobody
    /\ pruning = 0 /\ scanned = {}
    /\ gone = {} /\ overlap = {} /\ tampered = FALSE
    /\ prunes = 0 /\ fails = 0

record(w) == Begin(w) \/ Lock(w) \/ ReadTip(w) \/ ReadMax(w) \/ Insert(w)

AuditNext ==
    \/ \E w \in Writers : record(w)
    \/ Prune \/ PruneScan \/ PruneCommit \/ Tamper

AuditSpec == AuditInit /\ [][AuditNext]_auditVars

-----------------------------------------------------------------------------
Rows == [seq : Nat, ts : Nat, prev : Hashes \cup {NoHash}, hash : Hashes \cup {NoHash}]

AuditTypeOK ==
    /\ backend \in {"sqlite", "postgres"}
    /\ log \in SUBSET Rows /\ scanned \in SUBSET Rows
    /\ clock \in Nat /\ pruning \in Nat /\ prunes \in Nat /\ fails \in Nat
    /\ at \in [Writers -> {"idle", "lock", "tip", "max", "insert"}]
    /\ stamp \in [Writers -> Nat] /\ next_seq \in [Writers -> Nat]
    /\ tip \in [Writers -> Hashes]
    /\ holder \in Writers \cup {Nobody}
    /\ gone \in SUBSET Nat
    /\ overlap \in SUBSET {"append", "prune", "stamp"}
    /\ tampered \in BOOLEAN

\* The log verifies: in Postgres however the appends of the replicas interleave,
\* as long as nothing is pruned; in both as long as no call overlaps another
\* (in SQLite an append from another process, a prune during an append; in
\* Postgres a prune during an append, or appends stamped out of order).
ChainIntact ==
    /\ ~tampered /\ overlap = {} => verify(log) = "ok"
    /\ ~tampered /\ backend = "postgres" /\ gone = {} => verify(log) = "ok"

\* The records that have returned and left no row behind, then or now.
Lost == {t \in 1..clock : /\ t \notin gone
                          /\ \A r \in log : r.ts # t
                          /\ \A w \in Writers : stamp[w] # t}

\* In Postgres no audit row is lost, whatever overlaps; in SQLite only when two
\* processes append at once: then one INSERT fails on the seq of the other.
NothingLost ==
    ~tampered /\ fails = 0 /\ (backend = "sqlite" => "append" \notin overlap) => Lost = {}

\* "Retention prune re-anchors the chain head so truncated logs still verify":
\* after a prune all hashes match again, those of rows that a race had broken
\* included, unless Postgres appended a row during it.
PruneRepairs ==
    [][/\ gone' # gone
       /\ backend = "postgres" => log \subseteq scanned
       => verify(log') # "hash_mismatch"]_auditVars

\* verify finds a row that was changed, or removed from among the others, also
\* when records follow: until a prune hashes the chain again, or a race has
\* broken the chain at that place already.
TamperFound == tampered /\ gone = {} /\ overlap = {} => verify(log) # "ok"

=============================================================================
