------------------------------ MODULE EventLog ------------------------------
(***************************************************************************)
(* The append-only, hash-chained event log of storage/events.py, as        *)
(* several sessions of one SQLite database use it at once.                 *)
(*                                                                         *)
(* A session is a unit of work: it reads from the snapshot its transaction *)
(* began with, gathers business rows (ledger transactions, fills, bundles, *)
(* ...), and calls EventStore.append, whose commit is the only thing that  *)
(* makes those rows durable.  append reads the head of the chain, writes   *)
(* its successor, and retries after a constraint violation; an event that  *)
(* is already in the log is returned without any commit.                   *)
(*                                                                         *)
(* Hashes are modelled by what they commit to: the hash of an entry is the *)
(* sequence of event ids up to and including it, so two entries have one   *)
(* hash exactly when they have one history.                                *)
(***************************************************************************)
EXTENDS Naturals, Sequences, FiniteSets

CONSTANTS
  Writer,           (* database sessions, one per process                   *)
  EventId,          (* the events they may append                           *)
  Key, Body,        (* business rows: a unique key and the rest of the row  *)
  APPEND_ATTEMPTS,  (* _APPEND_ATTEMPTS                                     *)
  StaleWrite,       (* what a write on an outdated snapshot gets, see below *)
  None

(***************************************************************************)
(* The docstring of storage/database.py assumes that a write whose         *)
(* snapshot has been overtaken reaches the table and meets the primary key *)
(* ("constraint").  SQLite in WAL mode refuses it earlier: a transaction   *)
(* that has read cannot become a writer once another connection has        *)
(* committed or holds the write lock, and the statement fails with         *)
(* SQLITE_BUSY, an OperationalError that append does not catch ("locked"). *)
(* StaleWrite says which of the two may happen.                            *)
(***************************************************************************)
ASSUME StaleWriteAssumption == StaleWrite \subseteq {"constraint", "locked"}
ASSUME AttemptsAssumption == APPEND_ATTEMPTS \in Nat \ {0}
ASSUME NoneAssumption == None \notin EventId

VARIABLES
  log,      (* seq -> entry: the events table, keyed by its primary key     *)
  table,    (* the committed business rows                                  *)
  version,  (* commits so far: which snapshot is the current one            *)
  session   (* each writer's transaction and where its append stands        *)

vars == <<log, table, version, session>>

Row == Key \X Body
Entry == [id : EventId, prev : Seq(EventId)]
GENESISNull == None
GENESIS == << >>

HashOf(entry) == Append(entry.prev, entry.id)

\* One unique constraint per table: a row clashes with any row of its key.
Clashes(rows) == \E r \in rows, t \in table : r[1] = t[1]

Phase == {"idle", "open", "append", "commit"}
Outcome == {"none", "returned", "locked", "exhausted"}

Session == [phase    : Phase,                \* where in the unit of work
            snapshot : Nat,                  \* version the transaction reads
            seen     : Nat,                  \* chain length in that snapshot
            rows     : SUBSET Row,           \* table as that snapshot shows it
            pending  : SUBSET Row,           \* added or flushed, not committed
            writing  : BOOLEAN,              \* flushed: holds the write lock
            event    : EventId \cup {None},  \* the event being appended
            staged   : SUBSET Row,           \* pending when append was called
            attempt  : Nat,                  \* tries of this append so far
            rivals   : Nat,                  \* others' commits meanwhile
            outcome  : Outcome]              \* how the last append ended

NoTransaction == [phase |-> "idle", snapshot |-> 0, seen |-> 0, rows |-> {},
                  pending |-> {}, writing |-> FALSE, event |-> None,
                  staged |-> {}, attempt |-> 0, rivals |-> 0, outcome |-> "none"]

Ended(outcome) == [NoTransaction EXCEPT !.outcome = outcome]

\* The first statement after a commit or a rollback opens a transaction and
\* pins the snapshot it reads (a plain deferred BEGIN).
Begun(s) == [s EXCEPT !.snapshot = version, !.seen = Cardinality(DOMAIN log),
                      !.rows = table]

Overtaken(s) == s.snapshot # version

\* A write of w's comes too late: someone committed since its snapshot, or
\* holds the write lock now.
Stale(w) == Overtaken(session[w]) \/ \E v \in Writer \ {w} : session[v].writing

Refused(w) == Stale(w) /\ "locked" \in StaleWrite
Admitted(w) == Stale(w) => "constraint" \in StaleWrite

Init ==
  /\ log = [k \in 1..0 |-> None]
  /\ table = {}
  /\ version = 0
  /\ session = [w \in Writer |-> NoTransaction]

-----------------------------------------------------------------------------
(* The unit of work around an append. *)

Open(w) ==
  /\ session[w].phase = "idle"
  /\ session' = [session EXCEPT ![w] = [Begun(NoTransaction) EXCEPT !.phase = "open"]]
  /\ UNCHANGED <<log, table, version>>

\* session.get(...) is None, then session.add(...): idempotence by derived id.
Stage(w) ==
  /\ session[w].phase = "open"
  /\ \E r \in Row \ (session[w].rows \cup session[w].pending) :
       session' = [session EXCEPT ![w].pending = @ \cup {r}]
  /\ UNCHANGED <<log, table, version>>

\* session.flush(): the rows are written inside the transaction, which makes
\* this session the writer until it ends.
Flush(w) ==
  LET s == session[w] IN
  /\ s.phase = "open" /\ s.pending # {} /\ ~s.writing
  /\ Admitted(w) /\ ~Clashes(s.pending)
  /\ session' = [session EXCEPT ![w].writing = TRUE]
  /\ UNCHANGED <<log, table, version>>

CallAppend(w) ==
  /\ session[w].phase = "open"
  /\ \E e \in EventId :
       session' = [session EXCEPT ![w].phase = "append", ![w].event = e,
                                  ![w].staged = session[w].pending,
                                  ![w].attempt = 0, ![w].rivals = 0]
  /\ UNCHANGED <<log, table, version>>

-----------------------------------------------------------------------------
(* EventStore.append, one attempt at a time. *)

Visible(s) == {log[k].id : k \in 1..s.seen}

\* The event is already there: return it.  Nothing is committed; whatever the
\* caller staged stays pending in the open transaction.
ReturnExisting(w) ==
  LET s == session[w] IN
  /\ s.phase = "append"
  /\ s.event \in Visible(s)
  /\ session' = [session EXCEPT ![w].phase = "open", ![w].event = None,
                                ![w].staged = {}, ![w].outcome = "returned"]
  /\ UNCHANGED <<log, table, version>>

ReadHead(w) ==
  LET s == session[w] IN
  /\ s.phase = "append"
  /\ s.event \notin Visible(s)
  /\ session' = [session EXCEPT ![w].phase = "commit", ![w].attempt = @ + 1]
  /\ UNCHANGED <<log, table, version>>

\* Bugs for the runs to find carry the name of what they break: a sequence
\* number that skips one, an entry that names the hash before the head's.
NextSeqSkips(s) == s.seen + 2
NextSeq(s) == s.seen + 1

NewEntryBehind(s) == [id |-> s.event,
                      prev |-> IF s.seen <= 1 THEN GENESIS ELSE HashOf(log[s.seen - 1])]
NewEntry(s) == [id |-> s.event,
                prev |-> IF s.seen = 0 THEN GENESIS ELSE HashOf(log[s.seen])]

Inserted(seq, entry) ==
  [k \in DOMAIN log \cup {seq} |-> IF k = seq THEN entry ELSE log[k]]

\* The primary key on seq, uq_events_event_id, and the unique keys of the rows.
ViolatesRowsOnly(s) == Clashes(s.pending)
Violates(s) ==
  \/ NextSeq(s) \in DOMAIN log
  \/ \E k \in DOMAIN log : log[k].id = s.event
  \/ Clashes(s.pending)

\* Everyone else inside an append counts the commit that overtakes them.
Overtake(w, mine) ==
  [v \in Writer |->
     IF v = w THEN mine
     ELSE IF session[v].phase \in {"append", "commit"}
          THEN [session[v] EXCEPT !.rivals = @ + 1]
          ELSE session[v]]

Commit(w) ==
  LET s == session[w] IN
  /\ s.phase = "commit"
  /\ Admitted(w) /\ ~Violates(s)
  /\ log' = Inserted(NextSeq(s), NewEntry(s))
  /\ table' = table \cup s.pending
  /\ version' = version + 1
  /\ session' = Overtake(w, Ended("returned"))

\* SqlIntegrityError: roll back, which drops the caller's rows with the event,
\* and go round again on a fresh snapshot.
RolledBackKeepingRows(s) == [Begun(s) EXCEPT !.writing = FALSE, !.phase = "append"]
RolledBack(s) == [Begun(s) EXCEPT !.pending = {}, !.writing = FALSE,
                                  !.phase = "append"]

Retry(w) ==
  LET s == session[w] IN
  /\ s.phase = "commit"
  /\ Admitted(w) /\ Violates(s)
  /\ s.attempt < APPEND_ATTEMPTS
  /\ session' = [session EXCEPT ![w] = RolledBack(s)]
  /\ UNCHANGED <<log, table, version>>

\* The loop is exhausted: IntegrityError to the caller, whose session_scope
\* rolls back.
Exhaust(w) ==
  LET s == session[w] IN
  /\ s.phase = "commit"
  /\ Admitted(w) /\ Violates(s)
  /\ s.attempt >= APPEND_ATTEMPTS
  /\ session' = [session EXCEPT ![w] = Ended("exhausted")]
  /\ UNCHANGED <<log, table, version>>

\* SQLITE_BUSY is not an integrity error: it leaves append at once.
LockedSwallowed(w) ==
  LET s == session[w] IN
  /\ s.phase = "commit"
  /\ Refused(w)
  /\ session' = [session EXCEPT ![w].phase = "append", ![w].attempt = @ - 1]
  /\ UNCHANGED <<log, table, version>>
Locked(w) ==
  LET s == session[w] IN
  /\ s.phase = "commit"
  /\ Refused(w)
  /\ session' = [session EXCEPT ![w] = Ended("locked")]
  /\ UNCHANGED <<log, table, version>>

-----------------------------------------------------------------------------
(* Commits that carry no event, verification, and crashes. *)

\* session.commit() at the end of Study.run, in record_ticker_change and after
\* the metadata of an ingested record.
PlainCommit(w) ==
  LET s == session[w] IN
  /\ s.phase = "open" /\ s.pending # {}
  /\ Admitted(w) /\ ~Clashes(s.pending)
  /\ table' = table \cup s.pending
  /\ version' = version + 1
  /\ session' = Overtake(w, NoTransaction)
  /\ UNCHANGED log

\* verify_chain rolls the session back before it reads; an exception in the
\* caller or a crash of the process does the same to its transaction.
Abandon(w) ==
  /\ session[w].phase # "idle"
  /\ session' = [session EXCEPT ![w] = NoTransaction]
  /\ UNCHANGED <<log, table, version>>

Appending(w) == ReturnExisting(w) \/ ReadHead(w) \/ Commit(w) \/ Retry(w)
                  \/ Exhaust(w) \/ Locked(w)

Next ==
  \E w \in Writer :
    \/ Open(w) \/ Stage(w) \/ Flush(w) \/ CallAppend(w)
    \/ Appending(w)
    \/ PlainCommit(w) \/ Abandon(w)

Spec == Init /\ [][Next]_vars

\* A process that is inside append keeps executing it.
FairSpec == Spec /\ \A w \in Writer : WF_vars(Appending(w))

-----------------------------------------------------------------------------
TypeOK ==
  /\ \A k \in DOMAIN log : k \in Nat \ {0} /\ log[k] \in Entry
  /\ table \subseteq Row
  /\ version \in Nat
  /\ session \in [Writer -> Session]

\* verify_chain: positions run 1, 2, 3, ... without a gap and every entry names
\* the hash of the entry before it.  Two writers that read one head must not
\* both get its successor.
VerifyChain ==
  /\ DOMAIN log = 1..Cardinality(DOMAIN log)
  /\ \A k \in DOMAIN log :
       log[k].prev = IF k = 1 THEN GENESIS ELSE HashOf(log[k - 1])

\* append is idempotent by event_id, however its retries interleave with other
\* appends of the same event.
NoEventTwice ==
  \A j, k \in DOMAIN log : log[j].id = log[k].id => j = k

\* A retried append is only ever sent round again by others' commits, at most
\* once per commit, plus once for a clash of its own rows: what the message of
\* the final IntegrityError says ("the chain head kept moving").
RetriesHaveRivals ==
  \A w \in Writer : LET s == session[w] IN
    s.phase \in {"append", "commit"} => s.attempt <= s.rivals + 2

Abstract == INSTANCE AppendOnlyLog WITH chain <- [k \in DOMAIN log |-> log[k].id]

\* The log implements the one-writer append-only sequence.
ImplementsLog == Abstract!Spec

\* An append that has started comes back to its caller, whatever the others do.
AppendReturns ==
  \A w \in Writer : session[w].phase = "append" ~> session[w].phase \in {"idle", "open"}

-----------------------------------------------------------------------------
(* What the comments promise and the code does not keep. *)

\* accounting/ledger.py: the rows and the event that narrates them "land
\* together or not at all".
LandTogether ==
  [][\A w \in Writer :
       (session[w].phase = "commit" /\ log' # log /\ session'[w].phase = "idle")
         => session[w].staged \subseteq table']_vars
=============================================================================
