------------------------------ MODULE MCRails ------------------------------
(***************************************************************************)
(* The AI payment rails on a small instance: the gateway authorizes two    *)
(* units and keeps none, one or both; a fallback costs two as well; both   *)
(* are one more than the reserve; the budget pays for one review, so that  *)
(* two that overlap exceed it; and two settlement pages overlap.           *)
(***************************************************************************)
EXTENDS Rails, TLC

One == {1}
Two == {2}

(* The rows and channels used, and the payers and pages at work. *)
Used == Cardinality({i \in Rows : micropay[i].at # "free"})
          + Cardinality({c \in Channels : channel[c].at # "free"})
Busy == Cardinality({h \in Payers : rail[h].at # "idle"})
          + Cardinality({g \in Pages : page[g].at # "idle"})

(* Three rows or two channels, but not all of them at once: enough for two *)
(* of the payers and pages to be at work on two channels, for all three    *)
(* payers on three rows without one.                                       *)
Small == Used <= 4 /\ Used + Busy <= 6

Interchangeable == Permutations(Reviewers) \cup Permutations(Pages)
=============================================================================
