---------------------------- MODULE BillingLedger ----------------------------
(***************************************************************************)
(* What the billing inbox promises, whatever it does inside: an append-only *)
(* list of records with one entry per event id, promises that are only     *)
(* made about listed contents, and a collector that is handed the list     *)
(* from its start, in order.                                               *)
(***************************************************************************)
EXTENDS Integers, Sequences

CONSTANTS Ids, Contents, Hosts

VARIABLES
    entries,   \* the records, by commit sequence
    promised,  \* contents a producer was told are stored
    delivered  \* the records the collector has taken over

LedgerInit ==
    /\ entries = <<>>
    /\ promised = {}
    /\ delivered = <<>>

Listed == {<<entries[k].event.id, entries[k].event.content>> : k \in 1..Len(entries)}

Commit ==
    \E e \in [id : Ids, content : Contents, host : Hosts] :
        /\ \A k \in 1..Len(entries) : entries[k].event.id # e.id
        /\ entries' = Append(entries, [sequence |-> Len(entries) + 1, event |-> e])
        /\ promised' \in {promised, promised \cup {<<e.id, e.content>>}}
        /\ UNCHANGED delivered

Promise ==
    /\ \E d \in Listed : promised' = promised \cup {d}
    /\ UNCHANGED <<entries, delivered>>

Deliver ==
    /\ \E n \in (Len(delivered) + 1)..Len(entries) :
          delivered' = SubSeq(entries, 1, n)
    /\ UNCHANGED <<entries, promised>>

LedgerNext == Commit \/ Promise \/ Deliver

LedgerSpec == LedgerInit /\ [][LedgerNext]_<<entries, promised, delivered>>
=============================================================================
