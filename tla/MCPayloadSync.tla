--------------------------- MODULE MCPayloadSync ---------------------------
\* Two nodes; a builds.  Payload 1 is within the limit on gas, 2 leaves a pool
\* transaction out, 3 has a sequencer transaction above it, 4 is no_tx_pool.
EXTENDS PayloadSync, TLC

CONSTANTS a, b

MCKnownPeers == (a :> {b}) @@ (b :> {})

MCBody == << [forced |-> {1}, pool |-> {2}, no_tx_pool |-> FALSE],
             [forced |-> {1}, pool |-> {2, 3}, no_tx_pool |-> FALSE],
             [forced |-> {3}, pool |-> {2}, no_tx_pool |-> FALSE],
             [forced |-> {1}, pool |-> {}, no_tx_pool |-> TRUE] >>

MCMessages == {a} \X (1..4)
=============================================================================
