-------------------------- MODULE MCBuilderChain ---------------------------
EXTENDS BuilderChain, TLC

CONSTANTS k1, k2

MCGas == [k \in Kinds |-> CASE k \in {"admit", "expel", "revoke"} -> 5
                            [] k \in {"register", "rpc"} -> 2
                            [] OTHER -> 1]

MCPoolTxs == {Tx("admit", 0, << >>, "registry"), Tx("revoke", 0, k1, << >>)}

MCGenesis == {Contracts, Contracts \ {"registry", "number"}, Contracts \ {"funds"},
              Contracts \ {"policy"}}
=============================================================================
