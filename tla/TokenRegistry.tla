---------------------------- MODULE TokenRegistry ----------------------------
(***************************************************************************)
(* The process-wide table of payment assets, x402's evm.NetworkConfigs, as *)
(* registerTokenAsset of tunnel/cmd/main.go overrides and restores it each *)
(* time setupRouter builds a router.                                       *)
(***************************************************************************)
EXTENDS Naturals

CONSTANTS
    Networks,   \* CAIP-2 network ids
    Eip155,     \* the ones ChainID() can parse
    Builtin,    \* the ones x402 ships an asset for
    Addresses,  \* token contract addresses
    Decimals,   \* values of token_decimals
    Shipped,    \* the asset x402 ships for a network
    Unset       \* no network registered, no token address, no entry in the table

\* The part of a Config that registerTokenAsset reads.  Validate refuses a token
\* address on a network without chain id; registerTokenAsset does not rely on it.
Configs == [network : Networks, address : Addresses \cup {Unset}, decimals : Decimals,
            permit2 : BOOLEAN, eip2612 : BOOLEAN]

\* evm.AssetInfo: EIP-2612 support is only copied for a permit2 token.
Asset(cfg) == [address |-> cfg.address, decimals |-> cfg.decimals,
               permit2 |-> cfg.permit2, eip2612 |-> cfg.permit2 /\ cfg.eip2612]

Assets == [address : Addresses, decimals : Decimals, permit2 : BOOLEAN, eip2612 : BOOLEAN]

ASSUME RegistryAssumption ==
    /\ Eip155 \subseteq Networks /\ Builtin \subseteq Networks
    /\ Unset \notin Networks \cup Addresses \cup Assets \cup Configs \cup {Shipped}
    /\ Shipped \notin Assets

VARIABLES
    table,       \* evm.NetworkConfigs: network -> asset, Shipped or Unset
    registered,  \* registeredNetwork
    config       \* the config of the router that is being served, Unset before any

vars == <<table, registered, config>>

\* pristineNetworkConfigs, captured before anything overrides the table.
Pristine == [n \in Networks |-> IF n \in Builtin THEN Shipped ELSE Unset]

TypeOK ==
    /\ table \in [Networks -> Assets \cup {Shipped, Unset}]
    /\ registered \in Networks \cup {Unset}
    /\ config \in Configs \cup {Unset}

Init == table = Pristine /\ registered = Unset /\ config = Unset

\* restoreNetworkDefault: put the shipped asset back, or delete the entry.
Restored(t, n) == [t EXCEPT ![n] = Pristine[n]]

\* MUTANT: the override of the previous network is left behind.
KeepPrevious(cfg) == table

\* The first if: switching networks restores the one that was overridden.
SwitchedTable(cfg) ==
    IF registered # Unset /\ registered # cfg.network THEN Restored(table, registered) ELSE table

\* ... and forgets that it was.
SwitchedNetwork(cfg) == IF registered # cfg.network THEN Unset ELSE registered

\* MUTANT: an empty token_address does not return early.
RegisterEmpty(cfg) ==
    /\ cfg.address = Unset
    /\ table' = [SwitchedTable(cfg) EXCEPT ![cfg.network] = Asset(cfg)]
    /\ registered' = cfg.network

\* No token_address: the network's default asset applies again.
RegisterNone(cfg) ==
    /\ cfg.address = Unset
    /\ table' = Restored(SwitchedTable(cfg), cfg.network)
    /\ registered' = Unset

\* ChainID failed: only a warning.
RegisterSkipped(cfg) ==
    /\ cfg.address # Unset /\ cfg.network \notin Eip155
    /\ table' = SwitchedTable(cfg) /\ registered' = SwitchedNetwork(cfg)

RegisterOverride(cfg) ==
    /\ cfg.address # Unset /\ cfg.network \in Eip155
    /\ table' = [SwitchedTable(cfg) EXCEPT ![cfg.network] = Asset(cfg)]
    /\ registered' = cfg.network

SetupRouter(cfg) ==
    /\ RegisterNone(cfg) \/ RegisterSkipped(cfg) \/ RegisterOverride(cfg)
    /\ config' = cfg

Next == \E cfg \in Configs : SetupRouter(cfg)

Spec == Init /\ [][Next]_vars

-----------------------------------------------------------------------------
\* What the table should be when cfg is served, whatever was served before it.
Expected(cfg) ==
    [n \in Networks |->
        IF n = cfg.network /\ n \in Eip155 /\ cfg.address # Unset THEN Asset(cfg) ELSE Pristine[n]]

\* registerTokenAsset "has to undo whatever the previous config registered"
\* (main.go:126-127): no sequence of configs, whichever networks it visits and
\* leaves, strands a stale asset in the table or loses a shipped one.
Memoryless == config # Unset => table = Expected(config)

\* registeredNetwork is exactly the network whose entry is not the shipped one
\* ("so switching networks does not strand the previous one", main.go:113-115).
RegisteredIsOverridden ==
    \A n \in Networks : table[n] # Pristine[n] <=> n = registered

\* What makes both inductive: only the registered network is overridden, with an asset.
RegistryInv ==
    /\ TypeOK /\ Memoryless
    /\ \A n \in Networks : n # registered => table[n] = Pristine[n]
    /\ registered # Unset => registered \in Eip155 /\ table[registered] \in Assets
=============================================================================
