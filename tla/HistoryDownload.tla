---------------------------- MODULE HistoryDownload ----------------------------
(***************************************************************************)
(* What a download promises its application, with no driver, no packets    *)
(* and no clock: the records come in the order they were recorded, each at *)
(* most once, and a download that ends well leaves no record unaccounted   *)
(* for: each was handed over or is among those lost on the way.  An        *)
(* application that asks again is promised only that nothing comes before  *)
(* it asks or after the download has ended.                                *)
(***************************************************************************)
EXTENDS Naturals, Sequences

CONSTANT Stored   \* number of records the device holds

VARIABLES
  status,   \* "idle", "running", "done" or "error"
  got,      \* the records handed to the application, in order
  missed,   \* records that will not arrive
  first     \* nobody has asked for the records a second time

hdVars == <<status, got, missed, first>>

History == 0 .. Stored - 1
Handed == {got[i] : i \in DOMAIN got}

HDInit == status = "idle" /\ got = <<>> /\ missed = {} /\ first = TRUE

Start ==
  /\ status = "idle"
  /\ status' \in {"running", "error"}
  /\ UNCHANGED <<got, missed, first>>

\* Records asked for again may be mixed with those still on their way.
Restart ==
  /\ status # "idle"
  /\ status' \in {"running", "error"}
  /\ got' = <<>>
  /\ first' = FALSE
  /\ UNCHANGED missed

Deliver(r) ==
  /\ status = "running"
  /\ first => \A i \in DOMAIN got : got[i] < r
  /\ got' = Append(got, r)
  /\ UNCHANGED <<status, missed, first>>

Miss(some) ==
  /\ some # {}
  /\ missed' = missed \cup some
  /\ UNCHANGED <<status, got, first>>

Succeed ==
  /\ status = "running"
  /\ first => Handed \cup missed = History
  /\ status' = "done"
  /\ UNCHANGED <<got, missed, first>>

Fail ==
  /\ status = "running"
  /\ status' = "error"
  /\ UNCHANGED <<got, missed, first>>

HDNext ==
  \/ Start \/ Restart \/ Succeed \/ Fail
  \/ \E r \in History : Deliver(r)
  \/ \E some \in SUBSET History : Miss(some)

HDSpec == HDInit /\ [][HDNext]_hdVars
==============================================================================
