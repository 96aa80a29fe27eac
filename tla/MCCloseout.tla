----------------------------- MODULE MCCloseout -----------------------------
(* A small instance of Closeout: a slice whose QA packet waits.         *)
EXTENDS Closeout

CONSTANTS s1

OneWaiting == <<s1>>
Options == {[mode |-> "proof_only", send |-> TRUE, ack |-> TRUE],
            [mode |-> "live_delivery", send |-> FALSE, ack |-> TRUE],
            [mode |-> "proof_only", send |-> FALSE, ack |-> FALSE]}

=============================================================================
