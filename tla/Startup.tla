------------------------------ MODULE Startup -------------------------------
(***************************************************************************)
(* The process around the tunnel client: main of tunnel/cmd/main.go from   *)
(* LoadConfig to the first router, its exits, and the container that       *)
(* starts it again, while an operator edits config.json, or makes a new    *)
(* container for another environment.  The asset table is TokenRegistry's. *)
(*                                                                         *)
(* External: the operator, the SDK's authorization, and whether mpp-go can *)
(* build its charge method, which it decides from the configuration alone. *)
(***************************************************************************)
EXTENDS Config

CONSTANTS
    Builtin, Shipped,   \* see TokenRegistry
    NoCurrency,         \* MPP networks mpp-go has no default currency for
    Samples,            \* pairs of a file and an environment to begin with
    MaxEdits,           \* BOUND: changes of a field, or of a variable, by the operator
    MaxFaults           \* BOUND: exits of a process for another reason than its configuration

Typed(values, types) ==
    DOMAIN values = DOMAIN types /\ \A f \in DOMAIN types : values[f] \in types[f]

ASSUME StartupAssumption ==
    /\ MaxEdits \in Nat /\ MaxFaults \in Nat
    /\ \A s \in Samples : Typed(s[1], FileValues) /\ Typed(s[2], EnvValues)

VARIABLES
    file, env,          \* config.json now, and the environment the container was made with
    edits, faults,      \* what is left of the bounds
    edited,             \* file changed since the process loaded it
    phase,              \* where main is
    cfg,                \* main's *config.Config, Unset before it is loaded
    gate,               \* the router has the MPP gate
    table, registered, config  \* of TokenRegistry

router == <<gate, table, registered, config>>
vars == <<file, env, edits, faults, edited, phase, cfg, router>>

Registry == INSTANCE TokenRegistry

Phases == {"exited", "loading", "authorizing", "checking", "building", "serving"}

Loaded == phase \notin {"exited", "loading"}

TypeOK ==
    /\ Typed(file, FileValues) /\ Typed(env, EnvValues)
    /\ edits \in 0..MaxEdits /\ faults \in 0..MaxFaults /\ edited \in BOOLEAN
    /\ phase \in Phases /\ gate \in BOOLEAN
    /\ IF Loaded THEN DOMAIN cfg = Fields /\ Acceptable(cfg) ELSE cfg = Unset
    /\ Registry!TypeOK

\* A process that has not started: its globals are fresh.
Fresh ==
    /\ cfg = Unset /\ gate = FALSE
    /\ Registry!Init

Init ==
    /\ \E s \in Samples : file = s[1] /\ env = s[2]
    /\ edits = MaxEdits /\ faults = MaxFaults /\ edited = FALSE
    /\ phase = "exited" /\ Fresh

written == <<file, env, edits>>

\* Only config.json is mounted.
Edit ==
    /\ edits > 0 /\ edits' = edits - 1 /\ edited' = TRUE
    /\ \E f \in DOMAIN FileValues : \E v \in FileValues[f] : file' = [file EXCEPT ![f] = v]
    /\ UNCHANGED <<env, faults, phase, cfg, router>>

Exit == phase' = "exited" /\ cfg' = Unset /\ gate' = FALSE
        /\ table' = Registry!Pristine /\ registered' = Unset /\ config' = Unset

\* A new container, for a changed environment: a restart of the old one keeps its own.
Recreate ==
    /\ edits > 0 /\ edits' = edits - 1
    /\ \E f \in DOMAIN EnvValues : \E v \in EnvValues[f] : env' = [env EXCEPT ![f] = v]
    /\ Exit /\ UNCHANGED <<file, edited, faults>>

\* MUTANT: no restart policy, the container is started before the operator edits.
StartFirst ==
    /\ phase = "exited" /\ edits = MaxEdits /\ phase' = "loading"
    /\ UNCHANGED <<written, faults, edited, cfg, router>>

Start ==
    /\ phase = "exited" /\ phase' = "loading"
    /\ UNCHANGED <<written, faults, edited, cfg, router>>

\* "configuration error"
Refuse ==
    /\ phase = "loading"
    /\ \E id \in FreshIds : LoadConfig(file, env, id) = Unset
    /\ Exit /\ UNCHANGED <<written, faults, edited>>

Unauthorized(c) == c.aipEnabled = TRUE /\ c.aipToken = Unset

Load ==
    /\ phase = "loading" /\ edited' = FALSE
    /\ \E id \in FreshIds : cfg' = LoadConfig(file, env, id)
    /\ cfg' # Unset
    /\ phase' = IF Unauthorized(cfg') THEN "authorizing" ELSE "checking"
    /\ UNCHANGED <<written, faults, router>>

\* EnsureAuth: cached credentials, or the operator at a browser.
Authorize(wallet) ==
    /\ phase = "authorizing" /\ phase' = "checking"
    /\ cfg' = [cfg EXCEPT !.aipToken = "set", !.aipUser = Or(@, wallet)]
    /\ UNCHANGED <<written, faults, edited, router>>

\* mppay.New: no chain id, or the charge method cannot be built.
GateFails(c) ==
    /\ c.mppEnabled
    /\ c.mppNetwork \in Narrow => c.mppCurrency = Unset /\ c.mppNetwork \in NoCurrency

\* The first mppay.New, which may be fatal, and StakingSigner.
Check ==
    /\ phase = "checking"
    /\ IF GateFails(cfg) \/ cfg.key \in {Unset, Bad} THEN Exit
       ELSE phase' = "building" /\ UNCHANGED <<cfg, router>>
    /\ UNCHANGED <<written, faults, edited>>

\* The fields that registerTokenAsset reads.
Registered(c) == [network |-> c.network, address |-> c.token, decimals |-> c.decimals,
                  permit2 |-> c.method = "permit2", eip2612 |-> c.eip2612]

\* setupRouter: an error of the second mppay.New only leaves the gate out.
BuildRouter ==
    /\ phase = "building" /\ phase' = "serving"
    /\ Registry!SetupRouter(Registered(cfg))
    /\ gate' = (cfg.mppEnabled /\ ~GateFails(cfg))
    /\ UNCHANGED <<written, faults, edited, cfg>>

\* Failed authorization, crash, or the end of the client.
Fail ==
    /\ phase # "exited" /\ faults > 0 /\ faults' = faults - 1
    /\ Exit /\ UNCHANGED <<written, edited>>

Main == Refuse \/ Load \/ Check \/ BuildRouter

Next ==
    \/ Edit \/ Recreate \/ Start \/ Main \/ Fail
    \/ \E wallet \in Addresses : Authorize(wallet)

Spec == Init /\ [][Next]_vars

\* main runs, and the container starts it again (restart: unless-stopped).  Nothing
\* is assumed of an authorization, which may wait for its operator for ever.
FairSpec == Spec /\ WF_vars(Main) /\ WF_vars(Start)

-----------------------------------------------------------------------------
(* Properties *)

Serving == phase = "serving" /\ ~edited

\* README.md:84-109, 250-270, 360: which asset a fresh router registers and whether it
\* offers MPP, read off the file and the environment.  What LoadConfig checks and fills
\* in, what mppay.New and registerTokenAsset check again, and their silent fall-backs
\* (main.go:142, 235) never lose a token or the gate of an accepted configuration.
\* With CHAIN the token goes to the preset's network, whichever it was meant for.
ServesWhatIsWritten ==
    Serving =>
        LET network == IF env.network # Unset THEN env.network
                       ELSE IF file.network # Unset THEN file.network ELSE DefaultNetwork
            enabled == IF env.mppEnabled \in BOOLEAN THEN env.mppEnabled ELSE file.mppEnabled
            asset == [address |-> file.token,
                      decimals |-> IF file.decimals = 0 THEN 6 ELSE file.decimals,
                      permit2 |-> file.method = "permit2", eip2612 |-> file.eip2612]
        IN  /\ gate = enabled
            /\ table = IF file.token = Unset THEN Registry!Pristine
                       ELSE [Registry!Pristine EXCEPT ![network] = asset]

\* config.go:130-131.  Validate is "safe to call on a candidate copy": the copy of a
\* Config it has completed is accepted, and not changed again, whatever id it would draw.
Revalidates == Loaded => \A id \in FreshIds : Validate(cfg, id) = cfg

\* The fields whose default outlives a change of f: what validateToken and validateMPP
\* derived from it, and what they had filled in before they were switched off.
Lasting(f) ==
    CASE f = "payee" -> {"mppPayee"}
      [] f = "robotID" -> {"mppRealm"}
      [] f = "token" -> {"method", "tokenVersion", "decimals"}
      [] f = "mppEnabled" -> {"mppNetwork", "mppPayee", "mppDecimals", "mppRealm"}
      [] OTHER -> {}

\* The fields of c that hold an id drawn at its start.
Drawn(c) ==
    IF c.robotID # Unset THEN {}
    ELSE {"robotID"} \cup IF c.mppEnabled /\ c.mppRealm = Unset THEN {"mppRealm"} ELSE {}

\* What a candidate may put in f: a Bad robot_id is a file without a candidate.
Candidates(f) == IF f = "robotID" THEN FileValues[f] \ {Bad} ELSE FileValues[f]

\* config.go:130-131.  Vetting a changed copy of the live Config gives the verdict that a
\* restart with the changed file would give, and its Config but for two things: the lasting
\* defaults (after a new payee, MPP would go on paying the old one), and the ids drawn (a
\* robot without a robot_id keeps the one it drew, and its realm; a restart draws another).
VettedLikeRestart ==
    Serving =>
        \A f \in DOMAIN FileValues \ Overrides(env) : \A v \in Candidates(f) :
        \A id, anew \in FreshIds :
            LET changed == [file EXCEPT ![f] = v]
                vetted == Validate([cfg EXCEPT ![f] = v], id)
                fresh == LoadConfig(changed, env, anew)
            IN  /\ vetted = Unset <=> fresh = Unset
                /\ vetted # Unset =>
                    \A g \in DOMAIN FileValues \ (Lasting(f) \cup Drawn(Overlaid(changed, env))) :
                        vetted[g] = fresh[g]

\* A configuration main can start with, without an authorization.
Startable ==
    \A id \in FreshIds :
        LET c == LoadConfig(file, env, id)
        IN  c # Unset /\ ~Unauthorized(c) /\ ~GateFails(c)

\* docker-compose.yml:8-14.  A container that exits for a bad configuration serves once the
\* operator has corrected the file, or has made it anew for a corrected environment, whatever
\* else failed before.  Only a process that waits for an authorization no longer needed does
\* not notice the correction.
ServesOnceCorrected ==
    <>[]Startable => <>[](phase = "serving") \/ <>[](phase = "authorizing")
=============================================================================
