------------------------------ MODULE MCStartup -----------------------------
(* Startup for TLC: the written configurations to begin with.                *)
EXTENDS Startup

CONSTANTS id, payee, staked, coin, base, tempo, chain

Empty == [f \in DOMAIN FileValues |->
            IF f \in {"eip2612", "mppEnabled"} THEN FALSE
            ELSE IF f \in {"decimals", "mppDecimals"} THEN 0 ELSE Unset]
Bare == [f \in DOMAIN EnvValues |-> IF f = "secret" THEN "short" ELSE Unset]

\* tunnel/config.json, which lacks the staking address.
Shortest == [Empty EXCEPT !.robotID = id, !.payee = payee, !.price = "set", !.network = base]
\* tunnel/config.example.json and tunnel/.env.example, filled in.
Example == [Shortest EXCEPT !.staking = staked, !.network = chain, !.token = coin,
                !.decimals = 18, !.method = "permit2", !.mppEnabled = TRUE, !.mppNetwork = tempo]
ExampleEnv == [Bare EXCEPT !.key = staked, !.secret = "long"]
\* A token with its own EIP-712 domain, and AIP.
Domain == [Shortest EXCEPT !.staking = staked, !.token = coin, !.tokenName = "set"]
DomainEnv == [ExampleEnv EXCEPT !.aipEnabled = TRUE]
\* Everything at once: a token, MPP with an RPC and defaults to fill in, AIP with a token.
Full == [Domain EXCEPT !.mppEnabled = TRUE, !.mppCurrency = coin]
FullEnv == [DomainEnv EXCEPT !.rpcURL = "set", !.mppDecimals = 18, !.aipToken = "set"]

MCSamples == {<<Shortest, ExampleEnv>>, <<Example, ExampleEnv>>, <<Domain, DomainEnv>>,
              <<Full, FullEnv>>}
=============================================================================
