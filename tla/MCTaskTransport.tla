--------------------------- MODULE MCTaskTransport ---------------------------
(***************************************************************************)
(* Five instances of the transport in one run: crashes at any point of two *)
(* transmissions and two execution epochs; crashes with a cancel;          *)
(* executions that fail and are tried again; a clock that runs out among   *)
(* failed sends and missing connections; and one that does among full      *)
(* stores, which refuse a request or drop a record.                        *)
(***************************************************************************)
EXTENDS TaskTransport

VARIABLE focus  \* the instance this behaviour exercises

Canceling == INSTANCE TaskTransport
  WITH MaxCopies <- 1, MaxEpoch <- 1, Faults <- {"crash", "cancel"},
       Results <- {"completed", "canceled"}

Failing == INSTANCE TaskTransport
  WITH MaxCopies <- 1, MaxFailures <- 0, Faults <- {}, Results <- {"failed"}

Expiry == INSTANCE TaskTransport
  WITH MaxCopies <- 1, MaxEpoch <- 1, Faults <- {"throw", "expire", "offline"}, Results <- {"completed"}

Full == INSTANCE TaskTransport
  WITH MaxCopies <- 1, MaxEpoch <- 1, Faults <- {"expire", "evict", "refuse", "offline"}, Results <- {"completed"}

TransportInit ==
  \/ focus = "crash"   /\ Init
  \/ focus = "cancel"  /\ Canceling!Init
  \/ focus = "failing" /\ Failing!Init
  \/ focus = "expiry"  /\ Expiry!Init
  \/ focus = "full"    /\ Full!Init

Focus(instance) == focus = instance /\ UNCHANGED focus

TransportNext ==
  \/ Focus("crash")   /\ Next
  \/ Focus("cancel")  /\ Canceling!Next
  \/ Focus("failing") /\ Failing!Next
  \/ Focus("expiry")  /\ Expiry!Next
  \/ Focus("full")    /\ Full!Next

TransportSpec == TransportInit /\ [][TransportNext]_<<focus, vars>>

\* What the liveness runs check: the instance of their cfg alone, under the
\* fairness of TaskTransport.
FocusedFairSpec ==
  /\ focus = "fair" /\ Init
  /\ [][Focus("fair") /\ Next]_<<focus, vars>>
  /\ Fairness
=============================================================================
