------------------------------ MODULE MCListings ------------------------------
(* Small instances of Listings for TLC. *)
EXTENDS Listings, TLC

CONSTANTS feed, manual, w1, w2, c1, p, q

Rules == feed :> [active |-> TRUE, timed |-> TRUE,
                  mode |-> "COMPLIANT_AUTOMATED", inside |-> {p}]
         @@ manual :> [active |-> TRUE, timed |-> FALSE,
                       mode |-> "MANUAL_ONLY", inside |-> {p, q}]
Shown == feed :> {1} @@ manual :> {2}
Intakes == {<<manual, "MANUAL_URL_SNAPSHOT">>, <<feed, "CSV_IMPORT_SNAPSHOT">>,
            <<feed, "LISTING_SOURCE_RUN">>}
Says == [place : {p, q}, open : {TRUE}, free : {FALSE}]
          \cup [place : {p}, open : {FALSE}, free : {TRUE}]
Interchangeable == Permutations(Workers)
===============================================================================
