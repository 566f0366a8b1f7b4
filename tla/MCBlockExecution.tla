-------------------------- MODULE MCBlockExecution --------------------------
\* Two pool senders, one with a bundle for the first flashblock only, and a
\* sidecar that also returns a transaction the pool holds.
EXTENDS BlockExecution

Tx(sender, nonce, gasLimit, size, min, max) ==
    [sender |-> sender, nonce |-> nonce, gas |-> gasLimit, da |-> size,
     min |-> min, max |-> max]

MCInfo ==
    [t \in Txs |->
        CASE t = "a0" -> Tx("A", 0, 3, 1, 0, 9)
          [] t = "a1" -> Tx("A", 1, 4, 2, 2, 9)
          [] t = "b0" -> Tx("B", 0, 2, 2, 0, 1)
          [] t = "x0" -> Tx("X", 0, 3, 1, 0, 9)]
=============================================================================
