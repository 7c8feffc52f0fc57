------------------------------- MODULE Config -------------------------------
(***************************************************************************)
(* tunnel/config/config.go: what LoadConfig makes of config.json and the   *)
(* environment, and Validate, which checks and completes a Config.         *)
(*                                                                         *)
(* A value is itself, Unset (absent, empty) or Bad (its format check, or   *)
(* the parser, refuses it).  A key is the address it derives.              *)
(***************************************************************************)
EXTENDS Integers

CONSTANTS
    Unset, Bad,
    Ids, FreshIds,                     \* robot ids, and those uuid.NewString may draw
    Addresses,                         \* of accounts and of tokens
    Networks,                          \* CAIP-2 ids
    Eip155, Narrow,                    \* the ones with a chain id, and with one of 64 bits
    Presets,                           \* the ones that CHAIN selects
    Tempo,                             \* the ones isKnownTempoChain has an endpoint for
    DefaultNetwork, DefaultMPPNetwork,
    Decimals                           \* values of the decimals, 0 is also an absent one

Words == {"set", "eip3009", "permit2"}

ASSUME ConfigAssumption ==
    /\ Unset \notin Ids \cup FreshIds \cup Addresses \cup Networks \cup {Bad}
    /\ Bad \notin Ids \cup FreshIds \cup Addresses \cup Networks
    /\ \A v \in {Unset, Bad} : v \notin Decimals /\ v \notin BOOLEAN /\ v \notin Words
    /\ FreshIds # {} /\ FreshIds \cap Ids = {}
    /\ Eip155 \subseteq Networks /\ Narrow \cup Presets \subseteq Eip155 /\ Tempo \subseteq Narrow
    /\ DefaultNetwork \in Eip155 /\ DefaultMPPNetwork \in Tempo
    /\ Decimals \subseteq Int /\ {0, 6} \subseteq Decimals

Address == Addresses \cup {Unset, Bad}
Network == Networks \cup {Unset, Bad}

\* What config.json may say.  A Bad robot_id stands for a file that cannot be read or
\* does not unmarshal.
FileValues ==
    [robotID |-> Ids \cup {Unset, Bad}, price |-> {"set", Unset, Bad},
     network |-> Network, payee |-> Address, staking |-> Address,
     token |-> Address, tokenName |-> {"set", Unset}, tokenVersion |-> {"set", Unset},
     decimals |-> Decimals, method |-> {"eip3009", "permit2", Unset, Bad}, eip2612 |-> BOOLEAN,
     mppEnabled |-> BOOLEAN, mppNetwork |-> Network, mppPayee |-> Address,
     mppCurrency |-> Address, mppDecimals |-> Decimals, mppRealm |-> Ids \cup {Unset}]

\* What the environment may say.  "network" is CHAIN, by the network of its preset.
EnvValues ==
    [network |-> Presets \cup {Unset, Bad},
     mppEnabled |-> BOOLEAN \cup {Unset, Bad}, mppNetwork |-> Network, mppPayee |-> Address,
     mppCurrency |-> Address, mppDecimals |-> Decimals \cup {Unset, Bad},
     mppRealm |-> Ids \cup {Unset},
     key |-> Address, rpcURL |-> {"set", Unset}, secret |-> {"long", "short"},
     aipEnabled |-> BOOLEAN \cup {Unset, Bad}, aipToken |-> {"set", Unset},
     aipUser |-> Addresses \cup {Unset}, aipPort |-> {"set", Unset, Bad}]

Fields == DOMAIN FileValues \cup DOMAIN EnvValues

Values == Int \cup Words \cup {"long", "short"} \cup BOOLEAN
          \cup {Unset, Bad} \cup Ids \cup FreshIds \cup Addresses \cup Networks

\* An error is told from a Config.
ASSUME UnsetAssumption == Unset \notin [Fields -> Values]

\* Which variables override the file; a MPP_ENABLED that is no boolean does not.
Overrides(env) ==
    {f \in DOMAIN EnvValues : env[f] # Unset /\ ~(f = "mppEnabled" /\ env[f] = Bad)}

Overlaid(file, env) ==
    [f \in Fields |->
        IF f \in DOMAIN FileValues \ Overrides(env) THEN file[f] ELSE env[f]]

-----------------------------------------------------------------------------
(* Validate, which draws the robot id of a Config without one *)

Or(value, default) == IF value = Unset THEN default ELSE value
NonZero(decimals) == IF decimals = 0 THEN 6 ELSE decimals

NeedsEIP712Domain(c) == c.method # "permit2" \/ c.eip2612

Method(c) == Or(c.method, "eip3009")

\* The defaults that validateToken fills in, if there is a token.
FilledToken(c) ==
    IF c.token = Unset THEN c
    ELSE [c EXCEPT !.method = Method(c), !.tokenVersion = Or(@, "set"), !.decimals = NonZero(@)]

\* MUTANT: the default network of MPP is the one of x402.
MPPNetworkShared(c) == Or(c.mppNetwork, c.network)

MPPNetwork(c) == Or(c.mppNetwork, DefaultMPPNetwork)

\* The defaults that validateMPP fills in, if MPP is on.
FilledMPP(c) ==
    IF ~c.mppEnabled THEN c
    ELSE [c EXCEPT !.mppNetwork = MPPNetwork(c), !.mppPayee = Or(@, c.payee),
                   !.mppDecimals = NonZero(@), !.mppRealm = Or(@, c.robotID)]

\* MUTANT: MPP's defaults are derived before the others are filled in.
FilledMPPFirst(c, id) ==
    FilledToken([FilledMPP(c) EXCEPT !.robotID = Or(@, id), !.price = Or(@, "set"),
                                     !.network = Or(@, DefaultNetwork)])

Filled(c, id) ==
    FilledMPP(FilledToken([c EXCEPT !.robotID = Or(@, id), !.price = Or(@, "set"),
                                    !.network = Or(@, DefaultNetwork)]))

\* MUTANT: the chain id of the token's network is not asked for.
TokenOkAnywhere(c) ==
    /\ c.token # Bad /\ c.decimals \in 0..36 /\ c.method # Bad
    /\ c.eip2612 => c.method = "permit2"
    /\ NeedsEIP712Domain(c) => c.tokenName # Unset

\* ChainID takes a chain id of any size, MPPChainID one of 64 bits.
TokenOk(c) ==
    /\ c.token # Bad /\ c.network \in Eip155 /\ c.decimals \in 0..36 /\ c.method # Bad
    /\ c.eip2612 => c.method = "permit2"
    /\ NeedsEIP712Domain(c) => c.tokenName # Unset

MPPOk(c) ==
    /\ c.mppNetwork \in Narrow
    /\ c.rpcURL = Unset => c.mppNetwork \in Tempo
    /\ c.mppPayee # Bad /\ c.mppCurrency # Bad /\ c.mppDecimals \in 0..36
    /\ c.secret = "long"

\* The checks, on the completed Config: each default is filled in before its check,
\* or, for the decimals and the version, passes it as the empty value does.
Acceptable(c) ==
    /\ c.price # Bad /\ c.network # Bad
    /\ c.payee \notin {Unset, Bad} /\ c.staking \notin {Unset, Bad}
    /\ c.key = c.staking
    /\ c.token # Unset => TokenOk(c)
    /\ c.mppEnabled => MPPOk(c)

\* The validated Config, or Unset for an error.
Validate(c, id) == IF Acceptable(Filled(c, id)) THEN Filled(c, id) ELSE Unset

\* Errors of LoadConfig and loadAIPConfig outside Validate.
LoadFails(file, env) ==
    \/ file.robotID = Bad
    \/ env.mppDecimals = Bad \/ env.network = Bad \/ env.aipPort = Bad

\* MUTANT: the error of Validate is dropped.
LoadUnvalidated(file, env, id) ==
    IF LoadFails(file, env) THEN Unset ELSE Filled(Overlaid(file, env), id)

LoadConfig(file, env, id) ==
    IF LoadFails(file, env) THEN Unset ELSE Validate(Overlaid(file, env), id)
=============================================================================
