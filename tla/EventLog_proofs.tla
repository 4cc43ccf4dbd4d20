-------------------------- MODULE EventLog_proofs --------------------------
(***************************************************************************)
(* For any number of sessions, events and rows, and under either answer of *)
(* the database to an overtaken writer: the chain never forks, never has a *)
(* gap, never holds an event twice, and implements AppendOnlyLog.  The     *)
(* argument is the one of the docstrings: the primary key on seq alone     *)
(* decides who gets the next position.                                     *)
(***************************************************************************)
EXTENDS EventLog, FiniteSetTheorems, TLAPS

N == Cardinality(DOMAIN log)

(* The log is finite: what lets N count it.                                 *)
Contiguous == \E n \in Nat : DOMAIN log = 1..n

(* No session has read further than the chain reaches: what it takes to be   *)
(* the next position is either the next position or already taken.  And one  *)
(* that is appending has an event to append.                                 *)
Fits(s) == /\ s.seen <= N
           /\ s.phase \in {"append", "commit"} => s.event \in EventId

SessionsFit == \A w \in Writer : Fits(session[w])

IInv == TypeOK /\ Contiguous /\ VerifyChain /\ NoEventTwice /\ SessionsFit

LEMMA IntervalCardinality ==
  ASSUME NEW n \in Nat PROVE Cardinality(1..n) = n
BY FS_Interval, SMT

LEMMA LengthIsNat ==
  ASSUME Contiguous PROVE N \in Nat /\ DOMAIN log = 1..N
<1>1. PICK n \in Nat : DOMAIN log = 1..n
  BY DEF Contiguous
<1>2. N = n
  BY <1>1, IntervalCardinality DEF N
<1>3. QED
  BY <1>1, <1>2

LEMMA InitInv == Init => IInv
<1> SUFFICES ASSUME Init PROVE IInv
  OBVIOUS
<1>1. DOMAIN log = 1..0 /\ Cardinality(DOMAIN log) = 0
  BY IntervalCardinality DEF Init
<1>2. NoTransaction \in Session
  BY NoneAssumption DEF NoTransaction, Session, Phase, Outcome
<1>3. TypeOK
  BY <1>1, <1>2 DEF Init, TypeOK
<1>4. SessionsFit
  BY <1>1, <1>2 DEF Init, SessionsFit, Fits, N, NoTransaction
<1>5. VerifyChain /\ NoEventTwice
  BY <1>1 DEF VerifyChain, NoEventTwice
<1>6. Contiguous
  BY <1>1 DEF Contiguous
<1>7. QED
  BY <1>3, <1>4, <1>5, <1>6 DEF IInv

(* A step that leaves log alone and gives every session a well-typed record  *)
(* that has read no further than the chain reaches keeps the invariant.      *)
LEMMA LogUnchanged ==
  ASSUME IInv, UNCHANGED log, version' \in Nat, table' \subseteq Row,
         session' \in [Writer -> Session],
         \A v \in Writer : Fits(session'[v])
  PROVE  IInv'
<1>1. N' = N
  BY DEF N
<1>2. TypeOK'
  BY DEF IInv, TypeOK
<1>3. Contiguous' /\ VerifyChain' /\ NoEventTwice'
  BY DEF IInv, Contiguous, VerifyChain, NoEventTwice
<1>4. SessionsFit'
  BY <1>1 DEF SessionsFit, Fits
<1>5. QED
  BY <1>2, <1>3, <1>4 DEF IInv

(* The same for a step of one session that touches nothing else.             *)
LEMMA SessionStep ==
  ASSUME IInv, UNCHANGED <<log, table, version>>,
         NEW w \in Writer, NEW s \in Session, Fits(s),
         session' = [session EXCEPT ![w] = s]
  PROVE  IInv'
<1>1. session' \in [Writer -> Session] /\ \A v \in Writer : Fits(session'[v])
  BY DEF IInv, TypeOK, SessionsFit
<1>2. QED
  BY <1>1, LogUnchanged DEF IInv, TypeOK

LEMMA NoTransactionFits ==
  ASSUME IInv, NEW o \in Outcome
  PROVE  /\ NoTransaction \in Session /\ Fits(NoTransaction)
         /\ Ended(o) \in Session /\ Fits(Ended(o))
<1>1. N \in Nat
  BY LengthIsNat DEF IInv
<1>2. NoTransaction \in Session /\ NoTransaction.seen = 0 /\ NoTransaction.phase = "idle"
  BY NoneAssumption DEF NoTransaction, Session, Phase, Outcome
<1>3. Ended(o) \in Session /\ Ended(o).seen = 0 /\ Ended(o).phase = "idle"
  BY <1>2 DEF Ended, Session
<1>4. QED
  BY <1>1, <1>2, <1>3 DEF Fits

LEMMA BegunFits ==
  ASSUME IInv, NEW s \in Session
  PROVE  Begun(s) \in Session /\ Begun(s).seen = N
<1>1. N \in Nat
  BY LengthIsNat DEF IInv
<1>2. QED
  BY <1>1 DEF Begun, N, Session, IInv, TypeOK

(* The steps of a unit of work that only move its own session.               *)
LEMMA OpenInv == ASSUME IInv, NEW w \in Writer, Open(w) PROVE IInv'
<1> DEFINE s == [Begun(NoTransaction) EXCEPT !.phase = "open"]
<1>1. NoTransaction \in Session
  BY NoTransactionFits DEF Outcome
<1>2. Begun(NoTransaction) \in Session /\ Begun(NoTransaction).seen = N
  BY <1>1, BegunFits
<1>3. s \in Session /\ Fits(s)
  BY <1>2, LengthIsNat DEF Session, Phase, IInv, Fits
<1>4. session' = [session EXCEPT ![w] = s] /\ UNCHANGED <<log, table, version>>
  BY DEF Open
<1>5. QED
  BY <1>3, <1>4, SessionStep

LEMMA LocalInv ==
  ASSUME IInv, NEW w \in Writer,
         Stage(w) \/ Flush(w) \/ CallAppend(w) \/ ReturnExisting(w) \/ ReadHead(w)
  PROVE  IInv'
<1> DEFINE s == session'[w]
<1>1. session[w] \in Session /\ Fits(session[w])
  BY DEF IInv, TypeOK, SessionsFit
<1>2. /\ UNCHANGED <<log, table, version>>
      /\ session' = [session EXCEPT ![w] = s]
      /\ s \in Session /\ Fits(s)
  <2>1. CASE Stage(w)
    <3>1. PICK r \in Row : session' = [session EXCEPT ![w].pending = @ \cup {r}]
      BY <2>1 DEF Stage
    <3>2. QED
      BY <1>1, <2>1, <3>1 DEF Stage, Fits, Session, IInv, TypeOK
  <2>2. CASE Flush(w)
    BY <1>1, <2>2 DEF Flush, Fits, Session, IInv, TypeOK
  <2>3. CASE CallAppend(w)
    <3>1. PICK e \in EventId :
            session' = [session EXCEPT ![w].phase = "append", ![w].event = e,
                                       ![w].staged = session[w].pending,
                                       ![w].attempt = 0, ![w].rivals = 0]
      BY <2>3 DEF CallAppend
    <3>2. s = [session[w] EXCEPT !.phase = "append", !.event = e,
                                 !.staged = session[w].pending,
                                 !.attempt = 0, !.rivals = 0]
      BY <3>1 DEF IInv, TypeOK
    <3>3. \A b \in Session :
            LET c == [b EXCEPT !.phase = "append", !.event = e,
                               !.staged = b.pending, !.attempt = 0, !.rivals = 0]
            IN  c \in Session /\ c.seen = b.seen /\ c.event = e
      BY DEF Session, Phase
    <3>4. s \in Session /\ Fits(s)
      BY <1>1, <3>2, <3>3 DEF Fits
    <3>5. QED
      BY <1>1, <2>3, <3>1, <3>4 DEF CallAppend, IInv, TypeOK
  <2>4. CASE ReturnExisting(w)
    BY <1>1, <2>4 DEF ReturnExisting, Fits, Session, Phase, Outcome, IInv, TypeOK
  <2>5. CASE ReadHead(w)
    BY <1>1, <2>5 DEF ReadHead, Fits, Session, Phase, IInv, TypeOK
  <2>6. QED
    BY <2>1, <2>2, <2>3, <2>4, <2>5
<1>3. QED
  BY <1>2, SessionStep

(* The steps that end or restart a transaction without a commit.             *)
LEMMA RollbackInv ==
  ASSUME IInv, NEW w \in Writer,
         Retry(w) \/ Exhaust(w) \/ Locked(w) \/ Abandon(w)
  PROVE  IInv'
<1>1. CASE Retry(w)
  <2> DEFINE s == RolledBack(session[w])
  <2>1. session[w] \in Session /\ session[w].event \in EventId
    BY <1>1 DEF Retry, IInv, TypeOK, SessionsFit, Fits
  <2>2. Begun(session[w]) \in Session /\ Begun(session[w]).seen = N
    BY <2>1, BegunFits
  <2>3. s \in Session /\ Fits(s)
    <3>1. \A b \in Session :
            [b EXCEPT !.pending = {}, !.writing = FALSE, !.phase = "append"] \in Session
      BY DEF Session, Phase
    <3>2. s.seen = N /\ s.event = session[w].event
      BY <2>1, <2>2 DEF RolledBack, Begun, Session
    <3>3. s \in Session
      BY <2>2, <3>1 DEF RolledBack
    <3>4. N \in Nat
      BY LengthIsNat DEF IInv
    <3>5. QED
      BY <2>1, <3>2, <3>3, <3>4 DEF Fits
  <2>4. session' = [session EXCEPT ![w] = s] /\ UNCHANGED <<log, table, version>>
    BY <1>1 DEF Retry
  <2>5. QED
    BY <2>3, <2>4, SessionStep
<1>2. CASE Exhaust(w) \/ Locked(w) \/ Abandon(w)
  <2>1. PICK s \in {Ended("exhausted"), Ended("locked"), NoTransaction} :
          session' = [session EXCEPT ![w] = s] /\ UNCHANGED <<log, table, version>>
    BY <1>2 DEF Exhaust, Locked, Abandon
  <2>2. s \in Session /\ Fits(s)
    BY NoTransactionFits DEF Outcome
  <2>3. QED
    BY <2>1, <2>2, SessionStep
<1>3. QED
  BY <1>1, <1>2

(* A commit, with or without an event, only counts itself in the others'     *)
(* sessions.                                                                *)
LEMMA OvertakeFits ==
  ASSUME IInv, NEW w \in Writer, NEW mine \in Session, Fits(mine)
  PROVE  /\ Overtake(w, mine) \in [Writer -> Session]
         /\ \A v \in Writer : Fits(Overtake(w, mine)[v])
<1>1. \A v \in Writer : session[v] \in Session /\ Fits(session[v])
  BY DEF IInv, TypeOK, SessionsFit
<1>2. \A b \in Session : LET c == [b EXCEPT !.rivals = @ + 1]
                         IN  /\ c \in Session
                             /\ c.seen = b.seen /\ c.phase = b.phase /\ c.event = b.event
  BY DEF Session
<1>3. \A v \in Writer : /\ Overtake(w, mine)[v] \in Session
                        /\ Fits(Overtake(w, mine)[v])
  BY <1>1, <1>2 DEF Overtake, Fits
<1>4. QED
  BY <1>3 DEF Overtake

LEMMA PlainCommitInv == ASSUME IInv, NEW w \in Writer, PlainCommit(w) PROVE IInv'
<1>1. session' = Overtake(w, NoTransaction) /\ UNCHANGED log
  BY DEF PlainCommit
<1>2. session' \in [Writer -> Session] /\ \A v \in Writer : Fits(session'[v])
  BY <1>1, OvertakeFits, NoTransactionFits DEF Outcome
<1>3. session[w].pending \subseteq Row /\ version \in Nat /\ table \subseteq Row
  BY DEF IInv, TypeOK, Session
<1>4. version' \in Nat /\ table' \subseteq Row
  BY <1>3 DEF PlainCommit
<1>5. QED
  BY <1>1, <1>2, <1>4, LogUnchanged

(* What a commit inserts: because the session's next position is free, the   *)
(* session had read the whole chain, and the entry extends it.               *)
LEMMA CommitExtends ==
  ASSUME IInv, NEW w \in Writer, Commit(w)
  PROVE  /\ session[w].seen = N
         /\ session[w].event \in EventId
         /\ DOMAIN log' = 1..(N + 1)
         /\ \A k \in 1..N : log'[k] = log[k]
         /\ log'[N + 1].id = session[w].event
         /\ log'[N + 1].prev = IF N = 0 THEN GENESIS ELSE HashOf(log[N])
         /\ \A k \in 1..N : log[k].id # session[w].event
<1> DEFINE s == session[w]
<1>1. N \in Nat /\ DOMAIN log = 1..N
  BY LengthIsNat DEF IInv
<1>2. s \in Session /\ s.seen <= N /\ s.seen \in Nat /\ s.event \in EventId
  BY DEF IInv, TypeOK, SessionsFit, Fits, Session, Commit
<1>3. NextSeq(s) \notin DOMAIN log /\ \A k \in DOMAIN log : log[k].id # s.event
  BY DEF Commit, Violates
<1>4. s.seen = N
  BY <1>1, <1>2, <1>3 DEF NextSeq
<1>5. log' = Inserted(N + 1, NewEntry(s))
  BY <1>4 DEF Commit, NextSeq
<1>6. 1..N \cup {N + 1} = 1..(N + 1) /\ N + 1 \notin 1..N
  BY <1>1
<1>7. /\ DOMAIN log' = 1..(N + 1)
      /\ \A k \in 1..N : log'[k] = log[k]
      /\ log'[N + 1] = NewEntry(s)
  BY <1>1, <1>5, <1>6 DEF Inserted
<1>8. QED
  BY <1>1, <1>2, <1>3, <1>4, <1>7 DEF NewEntry

LEMMA CommitInv == ASSUME IInv, NEW w \in Writer, Commit(w) PROVE IInv'
<1> DEFINE e == session[w].event
<1>1. N \in Nat /\ DOMAIN log = 1..N /\ N + 1 \in Nat
  BY LengthIsNat DEF IInv
<1>2. /\ session[w].seen = N
      /\ e \in EventId
      /\ DOMAIN log' = 1..(N + 1)
      /\ \A k \in 1..N : log'[k] = log[k]
      /\ log'[N + 1].id = e
      /\ log'[N + 1].prev = IF N = 0 THEN GENESIS ELSE HashOf(log[N])
      /\ \A k \in 1..N : log[k].id # e
  BY CommitExtends
<1>3. N' = N + 1
  BY <1>1, <1>2, IntervalCardinality DEF N
<1>4. \A k \in 1..(N + 1) : k \in 1..N \/ k = N + 1
  BY <1>1
<1>5. \A k \in 1..N : log[k] \in Entry
  BY <1>1 DEF IInv, TypeOK
<1>6. TypeOK'
  <2>1. log'[N + 1] \in Entry
    <3>1. N # 0 => HashOf(log[N]) \in Seq(EventId)
      BY <1>1, <1>5 DEF HashOf, Entry
    <3>2. GENESIS \in Seq(EventId)
      BY DEF GENESIS
    <3>3. log'[N + 1] = NewEntry(session[w])
      BY <1>1, <1>2 DEF Commit, Inserted, NextSeq
    <3>4. QED
      BY <1>2, <3>1, <3>2, <3>3 DEF NewEntry, Entry
  <2>2. \A k \in DOMAIN log' : k \in Nat \ {0} /\ log'[k] \in Entry
    BY <1>1, <1>2, <1>4, <1>5, <2>1
  <2>3. session' \in [Writer -> Session]
    BY OvertakeFits, NoTransactionFits DEF Commit, Outcome
  <2>4. table \subseteq Row /\ version \in Nat /\ session[w].pending \subseteq Row
    BY DEF IInv, TypeOK, Session
  <2>5. table' \subseteq Row /\ version' \in Nat
    BY <2>4 DEF Commit
  <2>6. QED
    BY <2>2, <2>3, <2>5 DEF TypeOK
<1>7. Contiguous'
  BY <1>1, <1>2 DEF Contiguous
<1>8. VerifyChain'
  <2>1. \A k \in 1..N : log[k].prev = IF k = 1 THEN GENESIS ELSE HashOf(log[k - 1])
    BY <1>1 DEF IInv, VerifyChain
  <2>2. \A k \in 1..N : log'[k].prev = IF k = 1 THEN GENESIS ELSE HashOf(log'[k - 1])
    BY <1>1, <1>2, <2>1 DEF HashOf
  <2>3. log'[N + 1].prev = IF N + 1 = 1 THEN GENESIS ELSE HashOf(log'[(N + 1) - 1])
    BY <1>1, <1>2 DEF HashOf
  <2>4. DOMAIN log' = 1..Cardinality(DOMAIN log')
    BY <1>2, <1>3 DEF N
  <2>5. QED
    BY <1>2, <1>4, <2>2, <2>3, <2>4 DEF VerifyChain
<1>9. NoEventTwice'
  BY <1>1, <1>2, <1>4 DEF IInv, NoEventTwice
<1>10. SessionsFit'
  <2>1. \A v \in Writer : Fits(session'[v])
    BY OvertakeFits, NoTransactionFits DEF Commit, Outcome
  <2>2. \A v \in Writer : session'[v].seen \in Nat
    BY <1>6 DEF TypeOK, Session
  <2>3. QED
    BY <1>1, <1>3, <2>1, <2>2 DEF SessionsFit, Fits
<1>11. QED
  BY <1>6, <1>7, <1>8, <1>9, <1>10 DEF IInv

LEMMA NextInv == IInv /\ [Next]_vars => IInv'
<1> SUFFICES ASSUME IInv, [Next]_vars PROVE IInv'
  OBVIOUS
<1>1. CASE UNCHANGED vars
  BY <1>1 DEF vars, IInv, TypeOK, Contiguous, VerifyChain, NoEventTwice,
              SessionsFit, Fits, N
<1>2. ASSUME NEW w \in Writer,
             \/ Open(w) \/ Stage(w) \/ Flush(w) \/ CallAppend(w)
             \/ Appending(w)
             \/ PlainCommit(w) \/ Abandon(w)
      PROVE  IInv'
  BY <1>2, OpenInv, LocalInv, RollbackInv, PlainCommitInv, CommitInv DEF Appending
<1>3. QED
  BY <1>1, <1>2 DEF Next

LEMMA Invariant == Spec => []IInv
BY InitInv, NextInv, PTL DEF Spec

(* Every variable keeps its type, whatever the sessions do.                  *)
THEOREM TypeCorrect == Spec => []TypeOK
BY Invariant, PTL DEF IInv

(* EventStore.verify_chain succeeds after every interleaving of appends,     *)
(* retries, lock failures, rollbacks and crashes of any number of sessions.  *)
THEOREM ChainVerifies == Spec => []VerifyChain
BY Invariant, PTL DEF IInv

(* append is idempotent by event_id under any interleaving.                  *)
THEOREM EventsAreUnique == Spec => []NoEventTwice
BY Invariant, PTL DEF IInv

(* EventLog implements AppendOnlyLog: a commit that carries an event is      *)
(* Record, and every other step of every session is invisible.               *)
THEOREM Implements == Spec => ImplementsLog
<1> DEFINE chain == [k \in DOMAIN log |-> log[k].id]
<1>1. Init => Abstract!Init
  BY DEF Init, Abstract!Init
<1>2. IInv /\ [Next]_vars => [Abstract!Next]_chain
  <2> SUFFICES ASSUME IInv, [Next]_vars PROVE [Abstract!Next]_chain
    OBVIOUS
  <2>1. CASE UNCHANGED log
    BY <2>1
  <2>2. ASSUME NEW w \in Writer, Commit(w) PROVE Abstract!Next
    <3> DEFINE e == session[w].event
    <3>1. N \in Nat /\ DOMAIN log = 1..N
      BY LengthIsNat DEF IInv
    <3>2. /\ e \in EventId
          /\ DOMAIN log' = 1..(N + 1)
          /\ \A k \in 1..N : log'[k] = log[k]
          /\ log'[N + 1].id = e
          /\ \A k \in 1..N : log[k].id # e
      BY <2>2, CommitExtends
    <3>3. chain \in Seq(EventId) /\ Len(chain) = N
      BY <3>1 DEF IInv, TypeOK, Entry
    <3>4. chain' = Append(chain, e)
      BY <3>1, <3>2, <3>3
    <3>5. e \notin Abstract!Recorded
      BY <3>1, <3>2 DEF Abstract!Recorded
    <3>6. QED
      BY <3>2, <3>4, <3>5 DEF Abstract!Next, Abstract!Record
  <2>3. [Next]_vars => UNCHANGED log \/ \E w \in Writer : Commit(w)
    BY DEF Next, vars, Open, Stage, Flush, CallAppend, Appending, ReturnExisting,
           ReadHead, Retry, Exhaust, Locked, PlainCommit, Abandon
  <2>4. QED
    BY <2>1, <2>2, <2>3
<1>3. QED
  BY <1>1, <1>2, Invariant, PTL DEF Spec, ImplementsLog, Abstract!Spec

-----------------------------------------------------------------------------
(* Why a retry has a rival.                                                  *)

Behind(s) == IF s.seen < N THEN 1 ELSE 0

(* An append that is about to read the head has been sent round at most once *)
(* per commit of another session, one less while it has not met the newest   *)
(* of them, and once more; rows of its own are pending only at the first     *)
(* try.  While it waits to commit, the event it carries is not among those   *)
(* its snapshot shows, so that meeting that event takes a newer entry.       *)
Rivalled(s) ==
  /\ s.phase = "append" =>
       /\ s.attempt = 0 \/ s.pending = {}
       /\ s.attempt + Behind(s) <= s.rivals + 1
  /\ s.phase = "commit" =>
       /\ s.attempt = 1 \/ s.pending = {}
       /\ s.attempt + Behind(s) <= s.rivals + 2
       /\ s.event \notin Visible(s)

RivalsInv == IInv /\ \A w \in Writer : Rivalled(session[w])

LEMMA BehindBounds == ASSUME NEW s PROVE Behind(s) \in 0..1
BY DEF Behind

(* A step of one session that leaves the log alone disturbs only its own     *)
(* count.                                                                    *)
LEMMA RivalledElsewhere ==
  ASSUME RivalsInv, UNCHANGED log, NEW w \in Writer, NEW s, Rivalled(s),
         session' = [session EXCEPT ![w] = s]
  PROVE  \A v \in Writer : Rivalled(session[v])'
<1>1. \A v \in Writer : Rivalled(session'[v])
  BY DEF RivalsInv, IInv, TypeOK
<1>2. N' = N
  BY DEF N
<1>3. QED
  BY <1>1, <1>2 DEF Rivalled, Behind, Visible

(* A retry: either its own rows clashed, which is the first try, or an entry *)
(* newer than its snapshot stands in its way.                                *)
LEMMA RetryRivalled ==
  ASSUME RivalsInv, NEW w \in Writer, Retry(w)
  PROVE  Rivalled(RolledBack(session[w]))
<1> DEFINE s == session[w]
           r == RolledBack(s)
<1>1. N \in Nat /\ DOMAIN log = 1..N
  BY LengthIsNat DEF RivalsInv, IInv
<1>2. s \in Session /\ s.seen <= N /\ s.phase = "commit" /\ Rivalled(s) /\ Violates(s)
  BY DEF RivalsInv, IInv, TypeOK, SessionsFit, Fits, Retry
<1>3. s.seen \in Nat /\ s.attempt \in Nat /\ s.rivals \in Nat
  BY <1>2 DEF Session
<1>4. /\ r.phase = "append" /\ r.pending = {} /\ r.seen = N
      /\ r.attempt = s.attempt /\ r.rivals = s.rivals
  BY <1>2 DEF RolledBack, Begun, Session, N
<1>5. s.pending = {} => s.seen < N
  <2>1. ASSUME s.pending = {}, NextSeq(s) \in DOMAIN log PROVE s.seen < N
    BY <1>1, <1>3, <2>1 DEF NextSeq
  <2>2. ASSUME NEW k \in DOMAIN log, log[k].id = s.event PROVE s.seen < N
    BY <1>1, <1>2, <1>3, <2>2 DEF Rivalled, Visible
  <2>3. QED
    BY <1>2, <2>1, <2>2 DEF Violates, Clashes
<1>6. Behind(r) = 0
  BY <1>1, <1>4 DEF Behind
<1>7. s.attempt <= s.rivals + 1
  <2>1. CASE s.attempt = 1
    BY <1>3, <2>1
  <2>2. CASE s.pending = {}
    BY <1>2, <1>3, <1>5, <2>2 DEF Rivalled, Behind
  <2>3. QED
    BY <1>2, <2>1, <2>2 DEF Rivalled
<1>8. QED
  BY <1>3, <1>4, <1>6, <1>7 DEF Rivalled

(* What a commit does to the sessions it overtakes: their view may fall      *)
(* behind by the entry it adds, and their count of rivals rises by one.      *)
LEMMA OvertakeRivalled ==
  ASSUME RivalsInv, NEW w \in Writer, NEW mine, mine.phase = "idle",
         session' = Overtake(w, mine),
         N' \in Nat, N <= N',
         \A k \in 1..N : log'[k] = log[k]
  PROVE  \A v \in Writer : Rivalled(session[v])'
<1>1. SUFFICES ASSUME NEW v \in Writer PROVE Rivalled(session[v])'
  OBVIOUS
<1> DEFINE s == session[v]
           t == session'[v]
<1>2. N \in Nat /\ s \in Session /\ s.seen <= N /\ Rivalled(s)
  BY LengthIsNat DEF RivalsInv, IInv, TypeOK, SessionsFit, Fits
<1>3. CASE t.phase \notin {"append", "commit"}
  BY <1>3 DEF Rivalled
<1>4. CASE t.phase \in {"append", "commit"}
  <2>1. /\ t.phase = s.phase /\ t.seen = s.seen /\ t.pending = s.pending
        /\ t.attempt = s.attempt /\ t.event = s.event /\ t.rivals = s.rivals + 1
    BY <1>2, <1>4 DEF Overtake, Session
  <2>2. Visible(session[v])' = Visible(s)
    BY <1>2, <2>1 DEF Visible, Session
  <2>3. Behind(s) \in 0..1 /\ Behind(session[v])' \in 0..1
    BY DEF Behind
  <2>4. s.attempt \in Nat /\ s.rivals \in Nat
    BY <1>2 DEF Session
  <2>5. QED
    BY <1>2, <2>1, <2>2, <2>3, <2>4 DEF Rivalled
<1>5. QED
  BY <1>3, <1>4

LEMMA RivalsStep == RivalsInv /\ [Next]_vars => RivalsInv'
<1> SUFFICES ASSUME RivalsInv, [Next]_vars PROVE RivalsInv'
  OBVIOUS
<1>1. IInv'
  BY NextInv DEF RivalsInv
<1>2. \A v \in Writer : session[v] \in Session /\ Rivalled(session[v])
  BY DEF RivalsInv, IInv, TypeOK
<1>3. CASE UNCHANGED vars
  BY <1>1, <1>3 DEF vars, RivalsInv, Rivalled, Behind, Visible, N
<1>4. ASSUME NEW w \in Writer, NEW s, Rivalled(s), UNCHANGED log,
             session' = [session EXCEPT ![w] = s]
      PROVE  RivalsInv'
  BY <1>1, <1>4, RivalledElsewhere DEF RivalsInv
<1>5. ASSUME NEW w \in Writer, Open(w) \/ Stage(w) \/ Flush(w) \/ ReturnExisting(w)
      PROVE  RivalsInv'
  <2>1. session'[w].phase = "open"
    <3>1. session \in [Writer -> Session]
      BY DEF RivalsInv, IInv, TypeOK
    <3>2. CASE Open(w)
      BY <3>1, <3>2 DEF Open, Begun, NoTransaction
    <3>3. CASE Stage(w) \/ Flush(w)
      BY <3>1, <3>3 DEF Stage, Flush, Session
    <3>4. CASE ReturnExisting(w)
      BY <3>1, <3>4 DEF ReturnExisting, Session
    <3>5. QED
      BY <1>5, <3>2, <3>3, <3>4
  <2>2. Rivalled(session'[w])
    BY <2>1 DEF Rivalled
  <2>3. UNCHANGED log /\ session' = [session EXCEPT ![w] = session'[w]]
    BY <1>5 DEF Open, Stage, Flush, ReturnExisting, RivalsInv, IInv, TypeOK
  <2>4. QED
    BY <1>4, <2>2, <2>3
<1>6. ASSUME NEW w \in Writer, CallAppend(w) PROVE RivalsInv'
  <2>1. /\ session'[w].phase = "append" /\ session'[w].attempt = 0
        /\ session'[w].rivals = 0
    BY <1>2, <1>6 DEF CallAppend, RivalsInv, IInv, TypeOK, Session
  <2>2. Rivalled(session'[w])
    BY <2>1, BehindBounds DEF Rivalled
  <2>3. UNCHANGED log /\ session' = [session EXCEPT ![w] = session'[w]]
    BY <1>6 DEF CallAppend, RivalsInv, IInv, TypeOK
  <2>4. QED
    BY <1>4, <2>2, <2>3
<1>7. ASSUME NEW w \in Writer, ReadHead(w) PROVE RivalsInv'
  <2> DEFINE s == session[w]
             t == [s EXCEPT !.phase = "commit", !.attempt = @ + 1]
  <2>1. /\ s \in Session /\ s.phase = "append" /\ Rivalled(s)
        /\ s.event \notin Visible(s)
    BY <1>2, <1>7 DEF ReadHead
  <2>2. /\ t.phase = "commit" /\ t.attempt = s.attempt + 1 /\ t.rivals = s.rivals
        /\ t.pending = s.pending /\ t.seen = s.seen /\ t.event = s.event
        /\ s.attempt \in Nat /\ s.rivals \in Nat
    BY <2>1 DEF Session
  <2>3. Rivalled(t)
    BY <2>1, <2>2, BehindBounds DEF Rivalled, Behind, Visible
  <2>4. UNCHANGED log /\ session' = [session EXCEPT ![w] = t]
    BY <1>7 DEF ReadHead
  <2>5. QED
    BY <1>4, <2>3, <2>4
<1>8. ASSUME NEW w \in Writer, Retry(w) PROVE RivalsInv'
  BY <1>4, <1>8, RetryRivalled DEF Retry
<1>9. ASSUME NEW w \in Writer, Exhaust(w) \/ Locked(w) \/ Abandon(w) PROVE RivalsInv'
  <2>1. PICK s \in {Ended("exhausted"), Ended("locked"), NoTransaction} :
          session' = [session EXCEPT ![w] = s] /\ UNCHANGED log
    BY <1>9 DEF Exhaust, Locked, Abandon
  <2>2. s.phase = "idle"
    BY <2>1 DEF Ended, NoTransaction
  <2>3. Rivalled(s)
    BY <2>2 DEF Rivalled
  <2>4. QED
    BY <1>4, <2>1, <2>3
<1>10. ASSUME NEW w \in Writer, PlainCommit(w) PROVE RivalsInv'
  <2>1. N \in Nat /\ N' = N
    BY <1>10, LengthIsNat DEF PlainCommit, N, RivalsInv, IInv
  <2>2. \A k \in 1..N : log'[k] = log[k]
    BY <1>10 DEF PlainCommit
  <2>3. session' = Overtake(w, NoTransaction) /\ NoTransaction.phase = "idle"
    BY <1>10 DEF PlainCommit, NoTransaction
  <2>4. \A v \in Writer : Rivalled(session[v])'
    BY <2>1, <2>2, <2>3, OvertakeRivalled
  <2>5. QED
    BY <1>1, <2>4 DEF RivalsInv
<1>11. ASSUME NEW w \in Writer, Commit(w) PROVE RivalsInv'
  <2>1. N \in Nat
    BY LengthIsNat DEF RivalsInv, IInv
  <2>2. DOMAIN log' = 1..(N + 1) /\ \A k \in 1..N : log'[k] = log[k]
    BY <1>11, CommitExtends DEF RivalsInv
  <2>3. N' = N + 1
    BY <2>1, <2>2, IntervalCardinality DEF N
  <2>4. Ended("returned").phase = "idle"
    BY DEF Ended, NoTransaction
  <2>5. session' = Overtake(w, Ended("returned"))
    BY <1>11 DEF Commit
  <2>6. \A v \in Writer : Rivalled(session[v])'
    BY <2>1, <2>2, <2>3, <2>4, <2>5, OvertakeRivalled
  <2>7. QED
    BY <1>1, <2>6 DEF RivalsInv
<1>12. QED
  BY <1>3, <1>5, <1>6, <1>7, <1>8, <1>9, <1>10, <1>11 DEF Next, Appending

(* A retried append is sent round by other sessions' commits, at most once   *)
(* per commit and once more for its own rows, whatever the interleaving:     *)
(* what the final IntegrityError of append says is all that can bring it.    *)
THEOREM RetriesAlwaysHaveRivals == Spec => []RetriesHaveRivals
<1>1. Init => RivalsInv
  BY InitInv DEF Init, RivalsInv, Rivalled, NoTransaction
<1>2. RivalsInv => RetriesHaveRivals
  <2> SUFFICES ASSUME RivalsInv, NEW w \in Writer,
                      session[w].phase \in {"append", "commit"}
               PROVE  session[w].attempt <= session[w].rivals + 2
    BY DEF RetriesHaveRivals
  <2>1. session[w] \in Session /\ Rivalled(session[w])
    BY DEF RivalsInv, IInv, TypeOK
  <2>2. session[w].attempt \in Nat /\ session[w].rivals \in Nat
    BY <2>1 DEF Session
  <2>3. QED
    BY <2>1, <2>2, BehindBounds DEF Rivalled
<1>3. QED
  BY <1>1, <1>2, RivalsStep, PTL DEF Spec
=============================================================================
