---------------------------- MODULE AppendOnlyLog ----------------------------
(***************************************************************************)
(* What storage/events.py promises its callers: one sequence of events     *)
(* that only ever grows at its end, one event at a time, and holds no      *)
(* event twice.  How several sessions of one database race for the next    *)
(* position, lose, roll back and crash is EventLog's business; this is the *)
(* specification EventLog implements.                                      *)
(***************************************************************************)
EXTENDS Sequences

CONSTANT EventId    (* content-derived identities of events *)

VARIABLE chain      (* the event ids, in chain order *)

Recorded == {chain[k] : k \in DOMAIN chain}

Init == chain = << >>

Record(e) == e \notin Recorded /\ chain' = Append(chain, e)

Next == \E e \in EventId : Record(e)

Spec == Init /\ [][Next]_chain
=============================================================================
