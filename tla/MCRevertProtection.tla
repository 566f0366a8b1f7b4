------------------------- MODULE MCRevertProtection -------------------------
(* RevertProtection with two bundles and ranges of at most two blocks. *)
EXTENDS RevertProtection

Any == [txs |-> 1, reverting |-> FALSE,
        block_number_min |-> NONE, block_number_max |-> NONE,
        flashblock_number_min |-> NONE, flashblock_number_max |-> NONE,
        min_timestamp |-> NONE, max_timestamp |-> NONE]

\* No range at all; the next block only; a range of blocks, of timestamps and of
\* flashblocks for a transaction that may revert; and some that are refused.
MCRequests ==
    {Any,
     [Any EXCEPT !.block_number_max = 1, !.flashblock_number_max = 1],
     [Any EXCEPT !.block_number_min = 2, !.max_timestamp = 2, !.reverting = TRUE,
                 !.flashblock_number_min = 2],
     [Any EXCEPT !.txs = 2],
     [Any EXCEPT !.block_number_min = 3, !.block_number_max = 2],
     [Any EXCEPT !.block_number_min = 5],
     [Any EXCEPT !.block_number_max = 5],
     [Any EXCEPT !.flashblock_number_min = 2, !.flashblock_number_max = 1]}
=============================================================================
