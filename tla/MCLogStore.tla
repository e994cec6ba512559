----------------------------- MODULE MCLogStore -----------------------------
(***************************************************************************)
(* Six events for TLC: two of one stream, the second late; one of another  *)
(* stream with the time of the first; one of billing usage; one that only  *)
(* half claims to be; one, in the second stream, that cannot be pushed.    *)
(***************************************************************************)
EXTENDS LogStore

MCCatalogue ==
    << [time |-> 2, label |-> "a", trace |-> "x", kind |-> "operational"],
       [time |-> 1, label |-> "a", trace |-> "y", kind |-> "operational"],
       [time |-> 2, label |-> "b", trace |-> "x", kind |-> "operational"],
       [time |-> 1, label |-> "b", trace |-> "x", kind |-> "billing"],
       [time |-> 2, label |-> "b", trace |-> "y", kind |-> "half"],
       [time |-> 2, label |-> "b", trace |-> "x", kind |-> "operational"] >>
=============================================================================
