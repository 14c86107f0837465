---------------------------- MODULE MCUmPubSub ----------------------------
(* Command lines for UmPubSub. *)
EXTENDS UmPubSub

Pub(thrds, msgs, options) == [thrds |-> thrds, msgs |-> msgs, opts |-> options]
Sub(n, options) == [callers |-> n, opts |-> options]
Net(misses, breaks) == [misses |-> misses, breaks |-> breaks]
Alone == Sub(1, {"absent"})

(* Two sending threads, several stores, or the metrics timer, with nobody   *)
(* listening; one thread, and a subscriber of each kind.                    *)
MCSetups ==
  { [pub |-> Pub(2, 4, {"stability"}), sub |-> Alone, net |-> Net(0, 0)],
    [pub |-> Pub(1, 2, {"stability", "stores"}), sub |-> Alone, net |-> Net(0, 0)],
    [pub |-> Pub(1, 3, {"stability", "metrics", "deregister"}), sub |-> Alone, net |-> Net(0, 0)],
    [pub |-> Pub(1, 2, {"rtt"}), sub |-> Sub(1, {"exit", "roundtrip", "sigint"}), net |-> Net(0, 0)],
    [pub |-> Pub(1, 1, {}), sub |-> Sub(2, {"exit"}), net |-> Net(2, 1)],
    [pub |-> Pub(1, 2, {}), sub |-> Sub(2, {"eventq", "endflag"}), net |-> Net(0, 0)] }

=============================================================================
