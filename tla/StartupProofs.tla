---------------------------- MODULE StartupProofs ---------------------------
(* Theorems about Config and Startup, for any networks, addresses and samples *)
(* and any number of edits and failures.                                      *)
EXTENDS Startup, TLAPS

LEMMA FieldNames ==
    /\ DOMAIN FileValues =
          {"robotID", "price", "network", "payee", "staking", "token", "tokenName", "tokenVersion",
           "decimals", "method", "eip2612", "mppEnabled", "mppNetwork", "mppPayee", "mppCurrency",
           "mppDecimals", "mppRealm"}
    /\ DOMAIN EnvValues =
          {"network", "mppEnabled", "mppNetwork", "mppPayee", "mppCurrency", "mppDecimals",
           "mppRealm", "key", "rpcURL", "secret", "aipEnabled", "aipToken", "aipUser", "aipPort"}
BY DEF FileValues, EnvValues

LEMMA AllFields ==
    Fields = {"robotID", "price", "network", "payee", "staking", "token", "tokenName", "tokenVersion",
              "decimals", "method", "eip2612", "mppEnabled", "mppNetwork", "mppPayee", "mppCurrency",
              "mppDecimals", "mppRealm", "key", "rpcURL", "secret", "aipEnabled", "aipToken",
              "aipUser", "aipPort"}
BY FieldNames DEF Fields

\* A Config every default of which is filled in.
Completed(c) ==
    /\ c = [f \in Fields |-> c[f]]
    /\ c.robotID # Unset /\ c.price # Unset /\ c.network # Unset
    /\ c.token # Unset => c.method # Unset /\ c.tokenVersion # Unset /\ c.decimals # 0
    /\ c.mppEnabled =>
          /\ c.mppNetwork # Unset /\ c.mppDecimals # 0 /\ c.mppRealm # Unset
          /\ c.mppPayee # Unset \/ c.payee = Unset

LEMMA Defaults == /\ Unset # "set" /\ Unset # "eip3009" /\ Unset # "permit2" /\ Unset \notin FreshIds
                  /\ Unset # DefaultNetwork /\ Unset # DefaultMPPNetwork
                  /\ Bad # "permit2" /\ Bad # "eip3009"
BY ConfigAssumption DEF Words

\* Validate's first defaults, before those of the token and of MPP.
First(c, id) == [c EXCEPT !.robotID = Or(@, id), !.price = Or(@, "set"),
                          !.network = Or(@, DefaultNetwork)]

LEMMA FirstFields == ASSUME NEW c, NEW id, c = [f \in Fields |-> c[f]]
                     PROVE  /\ First(c, id) = [f \in Fields |-> First(c, id)[f]]
                            /\ First(c, id).robotID = Or(c.robotID, id)
                            /\ First(c, id).price = Or(c.price, "set")
                            /\ First(c, id).network = Or(c.network, DefaultNetwork)
                            /\ \A f \in Fields \ {"robotID", "price", "network"} : First(c, id)[f] = c[f]
BY AllFields DEF First

LEMMA TokenFields == ASSUME NEW c, c = [f \in Fields |-> c[f]]
                     PROVE  /\ FilledToken(c) = [f \in Fields |-> FilledToken(c)[f]]
                            /\ c.token # Unset =>
                                 /\ FilledToken(c).method = Method(c)
                                 /\ FilledToken(c).tokenVersion = Or(c.tokenVersion, "set")
                                 /\ FilledToken(c).decimals = NonZero(c.decimals)
                            /\ \A f \in Fields \ {"method", "tokenVersion", "decimals"} :
                                 FilledToken(c)[f] = c[f]
<1>1. CASE c.token = Unset
  BY <1>1 DEF FilledToken
<1>2. CASE c.token # Unset
  BY <1>2, AllFields DEF FilledToken
<1> QED BY <1>1, <1>2

LEMMA MPPFields == ASSUME NEW c, c = [f \in Fields |-> c[f]]
                   PROVE  /\ FilledMPP(c) = [f \in Fields |-> FilledMPP(c)[f]]
                          /\ c.mppEnabled =>
                               /\ FilledMPP(c).mppNetwork = MPPNetwork(c)
                               /\ FilledMPP(c).mppPayee = Or(c.mppPayee, c.payee)
                               /\ FilledMPP(c).mppDecimals = NonZero(c.mppDecimals)
                               /\ FilledMPP(c).mppRealm = Or(c.mppRealm, c.robotID)
                          /\ \A f \in Fields \ {"mppNetwork", "mppPayee", "mppDecimals", "mppRealm"} :
                               FilledMPP(c)[f] = c[f]
<1>1. CASE ~c.mppEnabled
  BY <1>1 DEF FilledMPP
<1>2. CASE c.mppEnabled
  BY <1>2, AllFields DEF FilledMPP
<1> QED BY <1>1, <1>2

\* The fields that Validate copies, and those that the authorization sets.
Copied == {"payee", "staking", "token", "tokenName", "eip2612", "mppEnabled", "mppCurrency",
           "key", "rpcURL", "secret", "aipEnabled", "aipPort"}
Credentials == {"aipToken", "aipUser"}

\* Every field that Validate fills in, as a function of the Config it is given and the id drawn.
FilledForm(c, id, d) ==
    /\ d = [f \in Fields |-> d[f]]
    /\ \A f \in Copied \cup Credentials : d[f] = c[f]
    /\ d.robotID = Or(c.robotID, id)
    /\ d.price = Or(c.price, "set")
    /\ d.network = Or(c.network, DefaultNetwork)
    /\ d.method = IF c.token = Unset THEN c.method ELSE Method(c)
    /\ d.tokenVersion = IF c.token = Unset THEN c.tokenVersion ELSE Or(c.tokenVersion, "set")
    /\ d.decimals = IF c.token = Unset THEN c.decimals ELSE NonZero(c.decimals)
    /\ d.mppNetwork = IF c.mppEnabled THEN MPPNetwork(c) ELSE c.mppNetwork
    /\ d.mppPayee = IF c.mppEnabled THEN Or(c.mppPayee, c.payee) ELSE c.mppPayee
    /\ d.mppDecimals = IF c.mppEnabled THEN NonZero(c.mppDecimals) ELSE c.mppDecimals
    /\ d.mppRealm = IF c.mppEnabled THEN Or(c.mppRealm, Or(c.robotID, id)) ELSE c.mppRealm

LEMMA FilledHasForm == ASSUME NEW c, NEW id, c = [f \in Fields |-> c[f]]
                       PROVE  FilledForm(c, id, Filled(c, id))
<1> DEFINE a == First(c, id)
           b == FilledToken(a)
           d == FilledMPP(b)
<1>1. Filled(c, id) = d
  BY Zenon DEF Filled, First
<1>2. /\ a = [f \in Fields |-> a[f]]
      /\ a.robotID = Or(c.robotID, id) /\ a.price = Or(c.price, "set")
      /\ a.network = Or(c.network, DefaultNetwork)
      /\ \A f \in Fields \ {"robotID", "price", "network"} : a[f] = c[f]
  BY FirstFields
<1> HIDE DEF a
<1>3. /\ b = [f \in Fields |-> b[f]]
      /\ a.token # Unset => /\ b.method = Method(a) /\ b.tokenVersion = Or(a.tokenVersion, "set")
                            /\ b.decimals = NonZero(a.decimals)
      /\ \A f \in Fields \ {"method", "tokenVersion", "decimals"} : b[f] = a[f]
  BY <1>2, TokenFields
<1>4. a.token = Unset => b = a
  BY DEF FilledToken
<1> HIDE DEF b
<1>5. /\ d = [f \in Fields |-> d[f]]
      /\ b.mppEnabled => /\ d.mppNetwork = MPPNetwork(b) /\ d.mppPayee = Or(b.mppPayee, b.payee)
                         /\ d.mppDecimals = NonZero(b.mppDecimals)
                         /\ d.mppRealm = Or(b.mppRealm, b.robotID)
      /\ \A f \in Fields \ {"mppNetwork", "mppPayee", "mppDecimals", "mppRealm"} : d[f] = b[f]
  BY <1>3, MPPFields
<1>6. ~b.mppEnabled => d = b
  BY DEF FilledMPP
<1> HIDE DEF d
<1>7. \A f \in Copied \cup Credentials : d[f] = c[f]
  BY <1>2, <1>3, <1>5, AllFields DEF Copied, Credentials
<1>8. d.robotID = b.robotID /\ d.price = a.price /\ d.network = a.network /\ b.robotID = a.robotID
  BY <1>3, <1>5, AllFields
<1>9. /\ a.token = c.token /\ a.method = c.method
      /\ a.tokenVersion = c.tokenVersion /\ a.decimals = c.decimals
  BY <1>2, AllFields
<1>10. d.method = b.method /\ d.tokenVersion = b.tokenVersion /\ d.decimals = b.decimals
  BY <1>5, AllFields
<1>11. /\ b.mppEnabled = c.mppEnabled /\ b.mppNetwork = c.mppNetwork /\ b.mppPayee = c.mppPayee
       /\ b.payee = c.payee /\ b.mppDecimals = c.mppDecimals /\ b.mppRealm = c.mppRealm
  BY <1>2, <1>3, AllFields
<1>12. /\ d.method = IF c.token = Unset THEN c.method ELSE Method(c)
       /\ d.tokenVersion = IF c.token = Unset THEN c.tokenVersion ELSE Or(c.tokenVersion, "set")
       /\ d.decimals = IF c.token = Unset THEN c.decimals ELSE NonZero(c.decimals)
  BY <1>3, <1>4, <1>9, <1>10 DEF Method
<1>13. CASE c.mppEnabled
  BY <1>1, <1>2, <1>5, <1>7, <1>8, <1>11, <1>12, <1>13 DEF FilledForm, MPPNetwork
<1>14. CASE ~c.mppEnabled
  BY <1>1, <1>2, <1>5, <1>6, <1>7, <1>8, <1>11, <1>12, <1>14 DEF FilledForm
<1> QED BY <1>13, <1>14

LEMMA FilledCompleted == ASSUME NEW c, NEW id \in FreshIds, c = [f \in Fields |-> c[f]]
                         PROVE  Completed(Filled(c, id))
<1> DEFINE d == Filled(c, id)
<1>1. FilledForm(c, id, d)
  BY FilledHasForm
<1> HIDE DEF d
<1>2. d.token = c.token /\ d.mppEnabled = c.mppEnabled /\ d.payee = c.payee
  BY <1>1 DEF FilledForm, Copied
<1>3. d.robotID # Unset /\ d.price # Unset /\ d.network # Unset
  BY <1>1, Defaults DEF FilledForm, Or
<1>4. d.token # Unset => d.method # Unset /\ d.tokenVersion # Unset /\ d.decimals # 0
  BY <1>1, <1>2, Defaults DEF FilledForm, Or, Method, NonZero
<1>5. d.mppEnabled => /\ d.mppNetwork # Unset /\ d.mppDecimals # 0 /\ d.mppRealm # Unset
                      /\ d.mppPayee # Unset \/ d.payee = Unset
  BY <1>1, <1>2, Defaults DEF FilledForm, Or, MPPNetwork, NonZero
<1> QED BY <1>1, <1>3, <1>4, <1>5 DEF Completed, FilledForm, d

\* Filling in twice changes nothing.
LEMMA CompletedFilled == ASSUME NEW c, NEW id, Completed(c) PROVE Filled(c, id) = c
<1>1. c = [f \in Fields |-> c[f]]
  BY DEF Completed
<1>2. First(c, id) = c
  <2>1. \A f \in Fields : First(c, id)[f] = c[f]
    BY <1>1, FirstFields DEF Completed, Or
  <2> QED BY <1>1, <2>1, FirstFields
<1>3. FilledToken(c) = c
  <2>1. CASE c.token = Unset
    BY <2>1 DEF FilledToken
  <2>2. CASE c.token # Unset
    <3>1. \A f \in Fields : FilledToken(c)[f] = c[f]
      BY <1>1, <2>2, TokenFields DEF Completed, Or, NonZero, Method
    <3> QED BY <1>1, <3>1, TokenFields
  <2> QED BY <2>1, <2>2
<1>4. FilledMPP(c) = c
  <2>1. CASE ~c.mppEnabled
    BY <2>1 DEF FilledMPP
  <2>2. CASE c.mppEnabled
    <3>1. \A f \in Fields : FilledMPP(c)[f] = c[f]
      BY <1>1, <2>2, MPPFields DEF Completed, Or, NonZero, MPPNetwork
    <3> QED BY <1>1, <3>1, MPPFields
  <2> QED BY <2>1, <2>2
<1>5. Filled(c, id) = FilledMPP(FilledToken(First(c, id)))
  BY Zenon DEF Filled, First
<1> QED BY <1>2, <1>3, <1>4, <1>5

-----------------------------------------------------------------------------
\* What a Config has of the file and the environment it was loaded from.
WrittenNetwork == IF env.network # Unset THEN env.network
            ELSE IF file.network # Unset THEN file.network ELSE DefaultNetwork

FromWritten(c) ==
    /\ c.network = WrittenNetwork
    /\ c.mppEnabled = IF env.mppEnabled \in BOOLEAN THEN env.mppEnabled ELSE file.mppEnabled
    /\ c.token = file.token /\ c.eip2612 = file.eip2612
    /\ c.token # Unset =>
          /\ c.decimals = NonZero(file.decimals)
          /\ c.method = "permit2" <=> file.method = "permit2"

\* The types of the fields that the router depends on.
RouterFields(c) ==
    /\ c.network \in Networks /\ c.token \in Addresses \cup {Unset} /\ c.decimals \in Decimals
    /\ c.eip2612 \in BOOLEAN /\ c.mppEnabled \in BOOLEAN

ServedTable(c) == IF c.token = Unset THEN Registry!Pristine
                  ELSE [Registry!Pristine EXCEPT ![c.network] = Registry!Asset(Registered(c))]

StartupInv ==
    /\ TypeOK
    /\ Loaded => Completed(cfg) /\ RouterFields(cfg) /\ (~edited => FromWritten(cfg))
    /\ phase # "serving" =>
          gate = FALSE /\ table = Registry!Pristine /\ registered = Unset /\ config = Unset
    /\ phase \in {"building", "serving"} => ~GateFails(cfg)
    /\ phase = "serving" => gate = cfg.mppEnabled /\ table = ServedTable(cfg)

LEMMA LoadedConfig ==
    ASSUME Typed(file, FileValues), Typed(env, EnvValues), NEW id \in FreshIds,
           LoadConfig(file, env, id) # Unset
    PROVE  LET c == LoadConfig(file, env, id)
           IN  Completed(c) /\ Acceptable(c) /\ RouterFields(c) /\ FromWritten(c)
<1> DEFINE o == Overlaid(file, env)
           c == Filled(o, id)
<1>1. LoadConfig(file, env, id) = c /\ Acceptable(c)
  BY DEF LoadConfig, Validate
<1>2. o = [f \in Fields |-> o[f]]
  BY DEF Overlaid
<1>3. Completed(c)
  BY <1>2, FilledCompleted
<1>4. /\ file.network \in Network /\ file.token \in Address /\ file.decimals \in Decimals
      /\ file.eip2612 \in BOOLEAN /\ file.mppEnabled \in BOOLEAN
      /\ env.network \in Presets \cup {Unset, Bad}
      /\ env.mppEnabled \in BOOLEAN \cup {Unset, Bad}
  BY FieldNames DEF Typed, FileValues, EnvValues
<1>5. /\ o.network = IF env.network # Unset THEN env.network ELSE file.network
      /\ o.token = file.token /\ o.eip2612 = file.eip2612 /\ o.decimals = file.decimals
      /\ o.method = file.method
  BY FieldNames, AllFields DEF Overlaid, Overrides
<1>6. o.mppEnabled = IF env.mppEnabled \in BOOLEAN THEN env.mppEnabled ELSE file.mppEnabled
  <2>1. "mppEnabled" \in Overrides(env) <=> env.mppEnabled # Unset /\ env.mppEnabled # Bad
    BY FieldNames DEF Overrides
  <2>2. env.mppEnabled \in BOOLEAN <=> env.mppEnabled # Unset /\ env.mppEnabled # Bad
    BY Zenon, <1>4, ConfigAssumption
  <2>3. o.mppEnabled = IF "mppEnabled" \in Overrides(env) THEN env.mppEnabled ELSE file.mppEnabled
    BY FieldNames, AllFields DEF Overlaid
  <2> QED BY <2>1, <2>2, <2>3
<1> HIDE DEF o
<1>7. /\ c.network = Or(o.network, DefaultNetwork) /\ c.token = o.token /\ c.eip2612 = o.eip2612
      /\ c.mppEnabled = o.mppEnabled
      /\ c.decimals = IF o.token = Unset THEN o.decimals ELSE NonZero(o.decimals)
      /\ o.token # Unset => c.method = Method(o)
  BY <1>2, FilledHasForm DEF FilledForm, Copied
<1> HIDE DEF c
<1>8. FromWritten(c)
  BY <1>5, <1>6, <1>7, Defaults DEF FromWritten, WrittenNetwork, Or, Method
<1>9. RouterFields(c)
  <2>1. c.network \in Networks
    BY <1>1, <1>4, <1>5, <1>7, ConfigAssumption DEF Acceptable, Network, Or
  <2>2. c.token \in Addresses \cup {Unset}
    BY <1>1, <1>4, <1>5, <1>7, ConfigAssumption DEF Acceptable, TokenOk, Address
  <2>3. c.decimals \in Decimals
    BY <1>4, <1>5, <1>7, ConfigAssumption DEF NonZero
  <2>4. c.eip2612 \in BOOLEAN
    BY Zenon, <1>4, <1>5, <1>7
  <2>5. c.mppEnabled \in BOOLEAN
    BY Zenon, <1>4, <1>6, <1>7
  <2> QED BY <2>1, <2>2, <2>3, <2>4, <2>5 DEF RouterFields
<1> QED BY <1>1, <1>3, <1>8, <1>9

-----------------------------------------------------------------------------
LEMMA StartupInit == Init => StartupInv
<1> SUFFICES ASSUME Init PROVE StartupInv
  OBVIOUS
<1>1. Typed(file, FileValues) /\ Typed(env, EnvValues)
  BY StartupAssumption DEF Init
<1>2. /\ edits \in 0..MaxEdits /\ faults \in 0..MaxFaults /\ edited = FALSE
      /\ phase = "exited" /\ ~Loaded /\ cfg = Unset
  BY StartupAssumption DEF Init, Fresh, Loaded
<1>3. gate = FALSE /\ table = Registry!Pristine /\ registered = Unset /\ config = Unset
  BY DEF Init, Fresh, Registry!Init
<1>4. Registry!TypeOK
  BY <1>3 DEF Registry!TypeOK, Registry!Pristine
<1>5. gate \in BOOLEAN /\ edited \in BOOLEAN
  BY Zenon, <1>2, <1>3
<1> QED BY <1>1, <1>2, <1>3, <1>4, <1>5 DEF StartupInv, TypeOK, Phases

\* The end of a process leaves nothing behind, whatever it leaves written.
LEMMA ExitStep == ASSUME StartupInv, Exit, edited' = edited, faults' \in 0..MaxFaults,
                         edits' \in 0..MaxEdits, Typed(file', FileValues), Typed(env', EnvValues)
                  PROVE  StartupInv'
<1>1. /\ phase' = "exited" /\ ~Loaded' /\ cfg' = Unset /\ gate' = FALSE
      /\ table' = Registry!Pristine /\ registered' = Unset /\ config' = Unset
  BY DEF Exit, Loaded
<1>2. Registry!TypeOK'
  BY <1>1 DEF Registry!TypeOK, Registry!Pristine
<1>3. gate' \in BOOLEAN
  BY Zenon, <1>1
<1>4. TypeOK'
  BY <1>1, <1>2, <1>3 DEF StartupInv, TypeOK, Phases, Typed
<1> QED BY <1>1, <1>4 DEF StartupInv

\* The end of a process that leaves the written configuration alone.
LEMMA EndStep == ASSUME StartupInv, Exit, UNCHANGED <<written, edited>>, faults' \in 0..MaxFaults
                 PROVE  StartupInv'
<1>1. /\ file' = file /\ env' = env /\ edits' = edits /\ edited' = edited
  BY DEF written
<1>2. edits' \in 0..MaxEdits /\ Typed(file', FileValues) /\ Typed(env', EnvValues)
  BY <1>1 DEF Typed, StartupInv, TypeOK
<1> QED BY <1>1, <1>2, ExitStep

\* A step that changes nothing but the phase, between two that serve no router.
LEMMA PhaseStep == ASSUME StartupInv, UNCHANGED <<written, faults, edited, cfg, router>>,
                          phase' \in Phases, phase # "serving", phase' # "serving",
                          Loaded' = Loaded, phase' = "building" => ~GateFails(cfg)
                   PROVE  StartupInv'
<1>1. /\ file' = file /\ env' = env /\ edits' = edits /\ edited' = edited /\ faults' = faults
      /\ cfg' = cfg /\ gate' = gate /\ table' = table /\ registered' = registered
      /\ config' = config
  BY DEF written, router
<1>2. Registry!TypeOK'
  BY <1>1 DEF StartupInv, TypeOK, Registry!TypeOK
<1>3. TypeOK'
  BY <1>1, <1>2 DEF StartupInv, TypeOK, Typed
<1> QED BY <1>1, <1>3 DEF StartupInv, FromWritten, WrittenNetwork

LEMMA LoadStep == StartupInv /\ Load => StartupInv'
<1> SUFFICES ASSUME StartupInv, Load PROVE StartupInv'
  OBVIOUS
<1> PICK id \in FreshIds : cfg' = LoadConfig(file, env, id)
  BY DEF Load
<1>1. /\ phase = "loading" /\ phase' \in {"authorizing", "checking"} /\ edited' = FALSE
      /\ cfg' = LoadConfig(file, env, id) /\ LoadConfig(file, env, id) # Unset
      /\ file' = file /\ env' = env /\ edits' = edits /\ faults' = faults
      /\ gate' = gate /\ table' = table /\ registered' = registered /\ config' = config
  BY DEF Load, written, router
<1>2. /\ Completed(cfg') /\ Acceptable(cfg') /\ RouterFields(cfg') /\ FromWritten(cfg')
  BY <1>1, LoadedConfig DEF StartupInv, TypeOK
<1>3. Loaded' /\ DOMAIN cfg' = Fields /\ phase' \in Phases
  BY <1>1, <1>2 DEF Loaded, Completed, Phases
<1>4. Registry!TypeOK'
  BY <1>1 DEF StartupInv, TypeOK, Registry!TypeOK
<1>5. edited' \in BOOLEAN
  BY Zenon, <1>1
<1>6. TypeOK'
  BY <1>1, <1>2, <1>3, <1>4, <1>5 DEF StartupInv, TypeOK, Typed
<1> QED BY <1>1, <1>2, <1>3, <1>6 DEF StartupInv, FromWritten, WrittenNetwork

\* The authorization adds credentials only.
LEMMA AuthorizeStep == ASSUME StartupInv, NEW wallet \in Addresses, Authorize(wallet)
                       PROVE  StartupInv'
<1>1. /\ phase = "authorizing" /\ phase' = "checking" /\ edited' = edited
      /\ cfg' = [cfg EXCEPT !.aipToken = "set", !.aipUser = Or(@, wallet)]
      /\ file' = file /\ env' = env /\ edits' = edits /\ faults' = faults
      /\ gate' = gate /\ table' = table /\ registered' = registered /\ config' = config
  BY DEF Authorize, written, router
<1>2. Loaded /\ Completed(cfg) /\ Acceptable(cfg) /\ RouterFields(cfg)
  BY <1>1 DEF StartupInv, Loaded, TypeOK
<1>3. /\ cfg' = [f \in Fields |-> cfg'[f]]
      /\ \A f \in Fields \ {"aipToken", "aipUser"} : cfg'[f] = cfg[f]
  <2>1. cfg = [f \in Fields |-> cfg[f]]
    BY <1>2 DEF Completed
  <2> QED BY <1>1, <2>1, AllFields
<1>4. /\ cfg'.robotID = cfg.robotID /\ cfg'.price = cfg.price /\ cfg'.network = cfg.network
      /\ cfg'.payee = cfg.payee /\ cfg'.staking = cfg.staking /\ cfg'.token = cfg.token
      /\ cfg'.tokenName = cfg.tokenName /\ cfg'.tokenVersion = cfg.tokenVersion
      /\ cfg'.decimals = cfg.decimals /\ cfg'.method = cfg.method /\ cfg'.eip2612 = cfg.eip2612
      /\ cfg'.mppEnabled = cfg.mppEnabled /\ cfg'.mppNetwork = cfg.mppNetwork
      /\ cfg'.mppPayee = cfg.mppPayee /\ cfg'.mppCurrency = cfg.mppCurrency
      /\ cfg'.mppDecimals = cfg.mppDecimals /\ cfg'.mppRealm = cfg.mppRealm
      /\ cfg'.key = cfg.key /\ cfg'.rpcURL = cfg.rpcURL /\ cfg'.secret = cfg.secret
  BY <1>3, AllFields
<1>5. Completed(cfg')
  BY <1>2, <1>3, <1>4 DEF Completed
<1>6. Acceptable(cfg')
  BY <1>2, <1>4 DEF Acceptable, TokenOk, MPPOk, NeedsEIP712Domain
<1>7. RouterFields(cfg')
  BY <1>2, <1>4 DEF RouterFields
<1>8. ~edited => FromWritten(cfg)'
  BY <1>1, <1>2, <1>4 DEF StartupInv, FromWritten, WrittenNetwork
<1>9. Registry!TypeOK'
  BY <1>1 DEF StartupInv, TypeOK, Registry!TypeOK
<1>10. TypeOK' /\ Loaded'
  BY <1>1, <1>3, <1>6, <1>9 DEF StartupInv, TypeOK, Typed, Loaded, Phases
<1> QED BY <1>1, <1>5, <1>7, <1>8, <1>10 DEF StartupInv

\* registerTokenAsset on the shipped table overrides one entry at most.
LEMMA BuildStep == StartupInv /\ BuildRouter => StartupInv'
<1> SUFFICES ASSUME StartupInv, BuildRouter PROVE StartupInv'
  OBVIOUS
<1> DEFINE reg == Registered(cfg)
<1>1. /\ phase = "building" /\ phase' = "serving" /\ edited' = edited /\ cfg' = cfg
      /\ gate' = (cfg.mppEnabled /\ ~GateFails(cfg)) /\ Registry!SetupRouter(reg)
      /\ file' = file /\ env' = env /\ edits' = edits /\ faults' = faults
  BY DEF BuildRouter, written
<1>2. /\ Loaded /\ Completed(cfg) /\ Acceptable(cfg) /\ RouterFields(cfg) /\ ~GateFails(cfg)
      /\ DOMAIN cfg = Fields
      /\ table = Registry!Pristine /\ registered = Unset
  BY <1>1 DEF StartupInv, Loaded, TypeOK
<1>3. /\ reg.network = cfg.network /\ reg.address = cfg.token /\ reg.network \in Networks
      /\ reg.address \in Addresses \cup {Unset}
  BY <1>2 DEF Registered, RouterFields
<1>4. reg \in Registry!Configs
  <2>1. (cfg.method = "permit2") \in BOOLEAN
    OBVIOUS
  <2> QED BY <1>2, <2>1 DEF Registered, RouterFields, Registry!Configs
<1>5. cfg.token # Unset => reg.network \in Eip155
  BY <1>2, <1>3 DEF Acceptable, TokenOk
<1> HIDE DEF reg
<1>6. /\ table' = ServedTable(cfg)
      /\ registered' \in Networks \cup {Unset} /\ config' = reg
  <2>1. Registry!SwitchedTable(reg) = Registry!Pristine
    BY <1>2 DEF Registry!SwitchedTable
  <2>2. CASE Registry!RegisterNone(reg)
    <3>1. table' = Registry!Restored(Registry!Pristine, reg.network) /\ cfg.token = Unset
      BY <1>3, <2>1, <2>2 DEF Registry!RegisterNone
    <3>2. table' = Registry!Pristine
      BY <3>1 DEF Registry!Restored, Registry!Pristine
    <3> QED BY <1>1, <2>2, <3>1, <3>2 DEF Registry!RegisterNone, ServedTable, Registry!SetupRouter
  <2>3. CASE Registry!RegisterSkipped(reg)
    BY <1>3, <1>5, <2>3 DEF Registry!RegisterSkipped
  <2>4. CASE Registry!RegisterOverride(reg)
    <3>1. /\ table' = [Registry!Pristine EXCEPT ![cfg.network] = Registry!Asset(reg)]
          /\ cfg.token # Unset /\ registered' = reg.network
      BY <1>3, <2>1, <2>4 DEF Registry!RegisterOverride
    <3> QED BY <1>1, <1>3, <3>1 DEF ServedTable, Registry!SetupRouter, reg
  <2> QED BY <1>1, <2>2, <2>3, <2>4 DEF Registry!SetupRouter
<1>7. table' \in [Networks -> Registry!Assets \cup {Shipped, Unset}]
  <2>1. Registry!Pristine \in [Networks -> Registry!Assets \cup {Shipped, Unset}]
    BY DEF Registry!Pristine
  <2>2. cfg.token # Unset => Registry!Asset(Registered(cfg)) \in Registry!Assets
    <3>1. /\ reg.decimals \in Decimals /\ reg.permit2 \in BOOLEAN /\ reg.eip2612 \in BOOLEAN
      BY <1>4 DEF Registry!Configs
    <3>2. cfg.token # Unset => reg.address \in Addresses
      BY <1>3
    <3>3. (reg.permit2 /\ reg.eip2612) \in BOOLEAN
      OBVIOUS
    <3>4. cfg.token # Unset => Registry!Asset(reg) \in Registry!Assets
      BY <3>1, <3>2, <3>3 DEF Registry!Asset, Registry!Assets
    <3> QED BY <3>4 DEF reg
  <2> QED BY <1>2, <1>6, <2>1, <2>2 DEF ServedTable, RouterFields
<1>8. Registry!TypeOK'
  BY <1>4, <1>6, <1>7 DEF Registry!TypeOK
<1>9. gate' = cfg.mppEnabled /\ gate' \in BOOLEAN
  <2>1. cfg.mppEnabled \in BOOLEAN
    BY <1>2 DEF RouterFields
  <2> QED BY Zenon, <1>1, <1>2, <2>1
<1>10. Loaded' /\ phase' \in Phases
  BY <1>1 DEF Loaded, Phases
<1>11. TypeOK'
  BY <1>1, <1>2, <1>8, <1>9, <1>10 DEF StartupInv, TypeOK, Typed
<1>12. RouterFields(cfg') /\ Completed(cfg') /\ (~edited' => FromWritten(cfg)')
  BY <1>1, <1>2 DEF StartupInv, FromWritten, WrittenNetwork
<1>13. gate' = cfg'.mppEnabled /\ table' = ServedTable(cfg')
  BY Zenon, <1>1, <1>6, <1>9
<1> QED BY <1>1, <1>2, <1>11, <1>12, <1>13 DEF StartupInv

\* The edits of the file only leave the loaded Config behind.
LEMMA EditStep == StartupInv /\ Edit => StartupInv'
<1> SUFFICES ASSUME StartupInv, Edit PROVE StartupInv'
  OBVIOUS
<1>1. /\ edited' = TRUE /\ edits' = edits - 1 /\ edits > 0 /\ phase' = phase /\ cfg' = cfg
      /\ faults' = faults /\ gate' = gate /\ table' = table /\ registered' = registered
      /\ config' = config
  BY DEF Edit, router
<1>2. Typed(file, FileValues)' /\ Typed(env, EnvValues)'
  BY DEF Edit, Typed, StartupInv, TypeOK
<1>3. edits' \in 0..MaxEdits
  BY <1>1, StartupAssumption DEF StartupInv, TypeOK
<1>4. edited' \in BOOLEAN
  BY Zenon, <1>1
<1>5. Registry!TypeOK'
  BY <1>1 DEF StartupInv, TypeOK, Registry!TypeOK
<1>6. TypeOK'
  BY <1>1, <1>2, <1>3, <1>4, <1>5 DEF StartupInv, TypeOK, Loaded
<1> QED BY <1>1, <1>6 DEF StartupInv, Loaded

LEMMA RecreateStep == StartupInv /\ Recreate => StartupInv'
<1> SUFFICES ASSUME StartupInv, Recreate PROVE StartupInv'
  OBVIOUS
<1>1. Typed(file', FileValues) /\ Typed(env', EnvValues)
  BY DEF Recreate, Typed, StartupInv, TypeOK
<1>2. edits' \in 0..MaxEdits
  BY StartupAssumption DEF Recreate, StartupInv, TypeOK
<1>3. Exit /\ edited' = edited /\ faults' \in 0..MaxFaults
  BY DEF Recreate, StartupInv, TypeOK
<1> QED BY <1>1, <1>2, <1>3, ExitStep

LEMMA StartupStep == StartupInv /\ [Next]_vars => StartupInv'
<1> SUFFICES ASSUME StartupInv, [Next]_vars PROVE StartupInv'
  OBVIOUS
<1>1. CASE Edit
  BY <1>1, EditStep
<1>2. CASE Start
  <2>1. /\ phase = "exited" /\ phase' = "loading"
        /\ UNCHANGED <<written, faults, edited, cfg, router>>
    BY <1>2 DEF Start
  <2> QED BY <2>1, PhaseStep DEF Phases, Loaded
<1>3. CASE Refuse
  <2>1. Exit /\ UNCHANGED <<written, edited>> /\ faults' = faults
    BY <1>3 DEF Refuse
  <2> QED BY <2>1, EndStep DEF StartupInv, TypeOK
<1>4. CASE Load
  BY <1>4, LoadStep
<1>5. CASE Check
  <2>1. phase = "checking" /\ UNCHANGED <<written, faults, edited>>
    BY <1>5 DEF Check
  <2>2. CASE GateFails(cfg) \/ cfg.key \in {Unset, Bad}
    <3>1. Exit /\ UNCHANGED <<written, edited>> /\ faults' = faults
      BY <1>5, <2>2 DEF Check
    <3> QED BY <3>1, EndStep DEF StartupInv, TypeOK
  <2>3. CASE ~(GateFails(cfg) \/ cfg.key \in {Unset, Bad})
    <3>1. phase' = "building" /\ UNCHANGED <<cfg, router>>
      BY <1>5, <2>3 DEF Check
    <3> QED BY <2>1, <2>3, <3>1, PhaseStep DEF Phases, Loaded
  <2> QED BY <2>2, <2>3
<1>6. CASE BuildRouter
  BY <1>6, BuildStep
<1>7. CASE Fail
  <2>1. Exit /\ UNCHANGED <<written, edited>> /\ faults' \in 0..MaxFaults
    BY <1>7, StartupAssumption DEF Fail, StartupInv, TypeOK
  <2> QED BY <2>1, EndStep
<1>8. ASSUME NEW wallet \in Addresses, Authorize(wallet) PROVE StartupInv'
  BY <1>8, AuthorizeStep
<1>9. CASE Recreate
  BY <1>9, RecreateStep
<1>10. CASE UNCHANGED vars
  <2>1. /\ file' = file /\ env' = env /\ edits' = edits /\ faults' = faults /\ edited' = edited
        /\ phase' = phase /\ cfg' = cfg /\ gate' = gate /\ table' = table
        /\ registered' = registered /\ config' = config
    BY <1>10 DEF vars, router
  <2>2. Registry!TypeOK'
    BY <2>1 DEF StartupInv, TypeOK, Registry!TypeOK
  <2>3. TypeOK'
    BY <2>1, <2>2 DEF StartupInv, TypeOK, Typed, Loaded
  <2> QED BY <2>1, <2>3 DEF StartupInv, Loaded, FromWritten, WrittenNetwork
<1> QED BY <1>1, <1>2, <1>3, <1>4, <1>5, <1>6, <1>7, <1>8, <1>9, <1>10 DEF Next, Main

THEOREM StartupInvCorrect == Spec => []StartupInv
BY StartupInit, StartupStep, PTL DEF Spec

\* Every variable keeps its type, and a process that has passed LoadConfig holds a
\* Config that Validate accepts (config.go:130-173, 325-377).
THEOREM StartupTypeCorrect == Spec => []TypeOK
<1>1. StartupInv => TypeOK
  BY DEF StartupInv
<1> QED BY <1>1, StartupInvCorrect, PTL

\* Validating a copy of the loaded Config accepts it and changes nothing
\* (config.go:130-131).
THEOREM ValidateIsStable == Spec => []Revalidates
<1>1. StartupInv => Revalidates
  <2> SUFFICES ASSUME StartupInv, Loaded, NEW id \in FreshIds PROVE Validate(cfg, id) = cfg
    BY DEF Revalidates
  <2>1. Completed(cfg) /\ Acceptable(cfg)
    BY DEF StartupInv, TypeOK
  <2> QED BY <2>1, CompletedFilled DEF Validate
<1> QED BY <1>1, StartupInvCorrect, PTL

\* A fresh router registers the token and offers MPP exactly as the file and the
\* environment say (main.go:47-101, 126-172, 229-241).
THEOREM WrittenIsServed == Spec => []ServesWhatIsWritten
<1>1. StartupInv => ServesWhatIsWritten
  <2> SUFFICES ASSUME StartupInv, phase = "serving", ~edited
               PROVE  ServesWhatIsWritten
    BY DEF ServesWhatIsWritten, Serving
  <2> DEFINE asset == [address |-> file.token,
                       decimals |-> IF file.decimals = 0 THEN 6 ELSE file.decimals,
                       permit2 |-> file.method = "permit2", eip2612 |-> file.eip2612]
  <2>1. /\ Loaded /\ Completed(cfg) /\ RouterFields(cfg) /\ FromWritten(cfg) /\ Acceptable(cfg)
        /\ gate = cfg.mppEnabled /\ table = ServedTable(cfg)
    BY DEF StartupInv, Loaded, TypeOK
  <2>2. gate = IF env.mppEnabled \in BOOLEAN THEN env.mppEnabled ELSE file.mppEnabled
    BY <2>1 DEF FromWritten
  <2>3. cfg.network = WrittenNetwork /\ cfg.token = file.token
    BY <2>1 DEF FromWritten
  <2>4. cfg.token # Unset => Registry!Asset(Registered(cfg)) = asset
    <3> SUFFICES ASSUME cfg.token # Unset PROVE Registry!Asset(Registered(cfg)) = asset
      OBVIOUS
    <3>1. /\ cfg.decimals = NonZero(file.decimals) /\ cfg.eip2612 = file.eip2612
          /\ cfg.method = "permit2" <=> file.method = "permit2"
      BY <2>1 DEF FromWritten
    <3>2. cfg.eip2612 \in BOOLEAN /\ (cfg.eip2612 => cfg.method = "permit2")
      BY <2>1 DEF RouterFields, Acceptable, TokenOk
    <3>3. ((cfg.method = "permit2") /\ cfg.eip2612) = cfg.eip2612
      BY Zenon, <3>2
    <3>4. (cfg.method = "permit2") = (file.method = "permit2")
      BY <3>1
    <3>5. Registry!Asset(Registered(cfg)) =
            [address |-> cfg.token, decimals |-> cfg.decimals, permit2 |-> cfg.method = "permit2",
             eip2612 |-> (cfg.method = "permit2") /\ cfg.eip2612]
      BY DEF Registry!Asset, Registered
    <3> QED BY <2>3, <3>1, <3>3, <3>4, <3>5 DEF NonZero
  <2> HIDE DEF asset
  <2>5. table = IF file.token = Unset THEN Registry!Pristine
                ELSE [Registry!Pristine EXCEPT ![WrittenNetwork] = asset]
    BY <2>1, <2>3, <2>4 DEF ServedTable
  <2> QED BY <2>2, <2>5 DEF ServesWhatIsWritten, WrittenNetwork, asset
<1> QED BY <1>1, StartupInvCorrect, PTL

-----------------------------------------------------------------------------
(* Vetting a changed copy of the live Config *)

\* k is what Validate made of o with the id drawn, and accepted, but for its credentials.
LoadedFrom(o, drawn, k) ==
    /\ o = [g \in Fields |-> o[g]] /\ k = [g \in Fields |-> k[g]]
    /\ Acceptable(Filled(o, drawn)) /\ \A g \in Fields \ Credentials : k[g] = Filled(o, drawn)[g]

SameVerdict(x, id, y, anew, f) ==
    /\ Acceptable(Filled(x, id)) <=> Acceptable(Filled(y, anew))
    /\ \A g \in DOMAIN FileValues \ (Lasting(f) \cup Drawn(y)) :
          Filled(x, id)[g] = Filled(y, anew)[g]

\* Two Configs with one field changed alike: what Validate makes of the completed one and of the
\* written one differs in the lasting defaults and the ids drawn only, and it accepts both or
\* neither.
LEMMA ChangedAlike ==
    ASSUME NEW o, NEW k, NEW drawn \in FreshIds, NEW id \in FreshIds, NEW anew \in FreshIds,
           LoadedFrom(o, drawn, k), NEW f \in DOMAIN FileValues, NEW v
    PROVE  SameVerdict([k EXCEPT ![f] = v], id, [o EXCEPT ![f] = v], anew, f)
<1> USE DEF LoadedFrom
<1> DEFINE c == Filled(o, drawn)
           x == [k EXCEPT ![f] = v]
           y == [o EXCEPT ![f] = v]
           vetted == Filled(x, id)
           fresh == Filled(y, anew)
<1>1. FilledForm(o, drawn, c)
  BY FilledHasForm
<1>2. f \in Fields /\ f \notin Credentials
  BY FieldNames, AllFields DEF Credentials
<1>3. /\ x = [g \in Fields |-> x[g]] /\ y = [g \in Fields |-> y[g]]
      /\ \A g \in Fields \ Credentials : /\ x[g] = IF g = f THEN v ELSE c[g]
                                         /\ y[g] = IF g = f THEN v ELSE o[g]
  BY <1>2
<1> HIDE DEF x, y
<1>4. FilledForm(x, id, vetted) /\ FilledForm(y, anew, fresh)
  BY <1>3, FilledHasForm
<1>5. Acceptable(c)
  OBVIOUS
<1> HIDE DEF c, vetted, fresh
<1>6. \A g \in Copied : vetted[g] = fresh[g] /\ x[g] = y[g] /\ vetted[g] = x[g]
  <2> SUFFICES ASSUME NEW g \in Copied PROVE vetted[g] = fresh[g] /\ x[g] = y[g] /\ vetted[g] = x[g]
    OBVIOUS
  <2>1. g \in Fields \ Credentials
    BY AllFields DEF Copied, Credentials
  <2>2. vetted[g] = x[g] /\ fresh[g] = y[g] /\ c[g] = o[g]
    BY <1>1, <1>4 DEF FilledForm
  <2> QED BY <1>3, <2>1, <2>2
<1>7. /\ x.payee = y.payee /\ x.token = y.token /\ x.mppEnabled = y.mppEnabled
      /\ vetted.payee = fresh.payee /\ vetted.staking = fresh.staking
      /\ vetted.token = fresh.token /\ vetted.tokenName = fresh.tokenName
      /\ vetted.eip2612 = fresh.eip2612 /\ vetted.mppEnabled = fresh.mppEnabled
      /\ vetted.mppCurrency = fresh.mppCurrency
      /\ vetted.key = fresh.key /\ vetted.rpcURL = fresh.rpcURL /\ vetted.secret = fresh.secret
      /\ vetted.token = x.token /\ vetted.mppEnabled = x.mppEnabled
  BY <1>6 DEF Copied
<1>8. y.robotID # Unset => vetted.robotID = fresh.robotID
  <2>1. /\ x.robotID = IF f = "robotID" THEN v ELSE c.robotID
        /\ y.robotID = IF f = "robotID" THEN v ELSE o.robotID
    BY <1>3, AllFields DEF Credentials
  <2> QED BY <1>1, <1>4, <2>1, Defaults DEF FilledForm, Or
<1>9. vetted.price = fresh.price
  <2>1. x.price = (IF f = "price" THEN v ELSE c.price) /\ y.price = IF f = "price" THEN v ELSE o.price
    BY <1>3, AllFields DEF Credentials
  <2> QED BY <1>1, <1>4, <2>1, Defaults DEF FilledForm, Or
<1>10. vetted.network = fresh.network
  <2>1. /\ x.network = IF f = "network" THEN v ELSE c.network
        /\ y.network = IF f = "network" THEN v ELSE o.network
    BY <1>3, AllFields DEF Credentials
  <2> QED BY <1>1, <1>4, <2>1, Defaults DEF FilledForm, Or
<1>11. f # "token" \/ x.token # Unset
         => /\ vetted.method = fresh.method /\ vetted.tokenVersion = fresh.tokenVersion
            /\ vetted.decimals = fresh.decimals
  <2>1. /\ x.method = (IF f = "method" THEN v ELSE c.method)
        /\ y.method = (IF f = "method" THEN v ELSE o.method)
        /\ x.tokenVersion = (IF f = "tokenVersion" THEN v ELSE c.tokenVersion)
        /\ y.tokenVersion = (IF f = "tokenVersion" THEN v ELSE o.tokenVersion)
        /\ x.decimals = (IF f = "decimals" THEN v ELSE c.decimals)
        /\ y.decimals = (IF f = "decimals" THEN v ELSE o.decimals)
        /\ f # "token" => x.token = o.token
    BY <1>1, <1>3, AllFields DEF Credentials, FilledForm, Copied
  <2>2. f # "token" \/ x.token # Unset => vetted.method = fresh.method
    BY <1>1, <1>4, <1>7, <2>1, Defaults DEF FilledForm, Or, Method
  <2>3. f # "token" \/ x.token # Unset => vetted.tokenVersion = fresh.tokenVersion
    BY <1>1, <1>4, <1>7, <2>1, Defaults DEF FilledForm, Or
  <2>4. f # "token" \/ x.token # Unset => vetted.decimals = fresh.decimals
    BY <1>1, <1>4, <1>7, <2>1 DEF FilledForm, NonZero
  <2> QED BY <2>2, <2>3, <2>4
<1>12. f # "mppEnabled" => x.mppEnabled = o.mppEnabled /\ c.mppEnabled = o.mppEnabled
  BY <1>1, <1>3, AllFields DEF Credentials, FilledForm, Copied
<1>13. f # "mppEnabled" \/ x.mppEnabled
         => vetted.mppNetwork = fresh.mppNetwork /\ vetted.mppDecimals = fresh.mppDecimals
  <2>1. /\ x.mppNetwork = (IF f = "mppNetwork" THEN v ELSE c.mppNetwork)
        /\ y.mppNetwork = (IF f = "mppNetwork" THEN v ELSE o.mppNetwork)
        /\ x.mppDecimals = (IF f = "mppDecimals" THEN v ELSE c.mppDecimals)
        /\ y.mppDecimals = (IF f = "mppDecimals" THEN v ELSE o.mppDecimals)
    BY <1>3, AllFields DEF Credentials
  <2>2. f # "mppEnabled" \/ x.mppEnabled => vetted.mppNetwork = fresh.mppNetwork
    BY <1>1, <1>4, <1>7, <1>12, <2>1, Defaults DEF FilledForm, Or, MPPNetwork
  <2>3. f # "mppEnabled" \/ x.mppEnabled => vetted.mppDecimals = fresh.mppDecimals
    BY <1>1, <1>4, <1>7, <1>12, <2>1 DEF FilledForm, NonZero
  <2> QED BY <2>2, <2>3
<1>14. f # "payee" /\ (f # "mppEnabled" \/ x.mppEnabled) => vetted.mppPayee = fresh.mppPayee
  <2>1. /\ x.mppPayee = (IF f = "mppPayee" THEN v ELSE c.mppPayee)
        /\ y.mppPayee = (IF f = "mppPayee" THEN v ELSE o.mppPayee)
        /\ f # "payee" => x.payee = o.payee
    BY <1>1, <1>3, AllFields DEF Credentials, FilledForm, Copied
  <2> QED BY <1>1, <1>4, <1>7, <1>12, <2>1 DEF FilledForm, Or
<1>15. ASSUME f # "robotID", f # "mppEnabled" \/ x.mppEnabled,
              y.robotID # Unset \/ ~y.mppEnabled \/ y.mppRealm # Unset
       PROVE  vetted.mppRealm = fresh.mppRealm
  <2>1. /\ x.mppRealm = (IF f = "mppRealm" THEN v ELSE c.mppRealm)
        /\ y.mppRealm = (IF f = "mppRealm" THEN v ELSE o.mppRealm)
        /\ f # "robotID" => x.robotID = c.robotID /\ y.robotID = o.robotID
    BY <1>3, AllFields DEF Credentials
  <2>2. /\ c.robotID = Or(o.robotID, drawn)
        /\ c.mppRealm = IF c.mppEnabled THEN Or(o.mppRealm, c.robotID) ELSE o.mppRealm
        /\ vetted.mppRealm = IF x.mppEnabled THEN Or(x.mppRealm, Or(x.robotID, id)) ELSE x.mppRealm
        /\ fresh.mppRealm = IF y.mppEnabled THEN Or(y.mppRealm, Or(y.robotID, anew)) ELSE y.mppRealm
    <3>1. c.mppEnabled = o.mppEnabled
      BY <1>1 DEF FilledForm, Copied
    <3>2. /\ c.robotID = Or(o.robotID, drawn)
          /\ c.mppRealm = IF o.mppEnabled THEN Or(o.mppRealm, Or(o.robotID, drawn)) ELSE o.mppRealm
      BY <1>1 DEF FilledForm
    <3>3. vetted.mppRealm = IF x.mppEnabled THEN Or(x.mppRealm, Or(x.robotID, id)) ELSE x.mppRealm
      BY <1>4 DEF FilledForm
    <3>4. fresh.mppRealm = IF y.mppEnabled THEN Or(y.mppRealm, Or(y.robotID, anew)) ELSE y.mppRealm
      BY <1>4 DEF FilledForm
    <3> QED BY <3>1, <3>2, <3>3, <3>4
  <2>3. CASE y.mppRealm # Unset
    <3>1. y.mppRealm = x.mppRealm
      <4>1. CASE f = "mppRealm"
        BY <2>1, <4>1
      <4>2. CASE f # "mppRealm"
        BY <1>15, <2>1, <2>2, <2>3, <4>2 DEF Or
      <4> QED BY <4>1, <4>2
    <3> QED BY <1>7, <2>2, <2>3, <3>1 DEF Or
  <2>4. CASE y.mppRealm = Unset /\ ~y.mppEnabled
    BY <1>7, <1>12, <1>15, <2>1, <2>2, <2>4 DEF Or
  <2>5. CASE y.mppRealm = Unset /\ y.mppEnabled /\ y.robotID # Unset
    BY <1>7, <1>12, <1>15, <2>1, <2>2, <2>5, Defaults DEF Or
  <2> QED BY <1>15, <2>3, <2>4, <2>5
<1>16. Acceptable(vetted) <=> Acceptable(fresh)
  <2>1. vetted.token # Unset => (TokenOk(vetted) <=> TokenOk(fresh))
    BY <1>7, <1>10, <1>11 DEF TokenOk, NeedsEIP712Domain
  <2>2. f = "payee" /\ vetted.mppEnabled /\ vetted.payee # Bad
           => vetted.mppPayee # Bad /\ fresh.mppPayee # Bad
    <3> SUFFICES ASSUME f = "payee", vetted.mppEnabled, vetted.payee # Bad
                 PROVE  vetted.mppPayee # Bad /\ fresh.mppPayee # Bad
      OBVIOUS
    <3>1. /\ x.mppPayee = c.mppPayee /\ y.mppPayee = o.mppPayee /\ x.payee = v /\ y.payee = v
          /\ v # Bad
      BY <1>3, <1>6, AllFields DEF Credentials, Copied
    <3>2. o.mppEnabled /\ c.mppEnabled /\ c.mppPayee # Bad
      BY <1>5, <1>7, <1>12 DEF Acceptable, MPPOk
    <3>3. c.mppPayee = Or(o.mppPayee, o.payee) /\ x.mppEnabled /\ y.mppEnabled
      BY <1>1, <1>7, <3>2 DEF FilledForm
    <3>4. vetted.mppPayee = Or(c.mppPayee, v) /\ fresh.mppPayee = Or(o.mppPayee, v)
      BY <1>4, <3>1, <3>3 DEF FilledForm
    <3> QED BY <3>1, <3>2, <3>3, <3>4 DEF Or
  <2>3. vetted.mppEnabled /\ vetted.payee # Bad => (MPPOk(vetted) <=> MPPOk(fresh))
    BY <1>7, <1>13, <1>14, <2>2 DEF MPPOk
  <2> QED BY <1>7, <1>9, <1>10, <2>1, <2>3 DEF Acceptable
<1>17. \A g \in DOMAIN FileValues \ (Lasting(f) \cup Drawn(y)) : vetted[g] = fresh[g]
  <2>1. /\ f = "payee" => Lasting(f) = {"mppPayee"}
        /\ f = "robotID" => Lasting(f) = {"mppRealm"}
        /\ f = "token" => Lasting(f) = {"method", "tokenVersion", "decimals"}
        /\ f = "mppEnabled" => Lasting(f) = {"mppNetwork", "mppPayee", "mppDecimals", "mppRealm"}
    BY Zenon DEF Lasting
  <2> SUFFICES ASSUME NEW g \in DOMAIN FileValues \ (Lasting(f) \cup Drawn(y))
               PROVE  vetted[g] = fresh[g]
    OBVIOUS
  <2>2. CASE g \in Copied \cup {"robotID", "price", "network"}
    BY <1>6, <1>8, <1>9, <1>10, <2>2 DEF Drawn
  <2>3. CASE g \in {"method", "tokenVersion", "decimals"}
    BY <1>11, <2>1, <2>3
  <2>4. CASE g \in {"mppNetwork", "mppDecimals"}
    BY <1>13, <2>1, <2>4
  <2>5. CASE g = "mppPayee"
    BY <1>14, <2>1, <2>5
  <2>6. CASE g = "mppRealm"
    BY <1>15, <2>1, <2>6 DEF Drawn
  <2> QED BY <2>2, <2>3, <2>4, <2>5, <2>6, FieldNames DEF Copied
<1> QED BY <1>16, <1>17 DEF vetted, fresh, x, y, SameVerdict

\* A Config that was loaded from what is written now is what Validate made of it, up to the
\* credentials that the authorization has added.
LoadedInv ==
    Loaded /\ ~edited =>
        LET o == Overlaid(file, env)
        IN  /\ ~LoadFails(file, env) /\ cfg \in [Fields -> Values]
            /\ \E drawn \in FreshIds :
                  /\ Acceptable(Filled(o, drawn))
                  /\ \A g \in Fields \ Credentials : cfg[g] = Filled(o, drawn)[g]

LEMMA WrittenValues == /\ \A f \in DOMAIN FileValues : FileValues[f] \subseteq Values
                       /\ \A f \in DOMAIN EnvValues : EnvValues[f] \subseteq Values
<1>1. /\ Eip155 \subseteq Values /\ Network \subseteq Values /\ Address \subseteq Values
      /\ Presets \subseteq Values /\ Decimals \subseteq Values /\ BOOLEAN \subseteq Values /\ Ids \subseteq Values
      /\ Addresses \subseteq Values /\ {Unset, Bad} \subseteq Values
      /\ {"set", "eip3009", "permit2", "long", "short"} \subseteq Values
  BY ConfigAssumption DEF Values, Network, Address, Words
<1>2. \A f \in DOMAIN FileValues : FileValues[f] \subseteq Values
  BY <1>1 DEF FileValues
<1>3. \A f \in DOMAIN EnvValues : EnvValues[f] \subseteq Values
  BY <1>1 DEF EnvValues
<1> QED BY <1>2, <1>3

LEMMA OverlaidValues == ASSUME Typed(file, FileValues), Typed(env, EnvValues)
                        PROVE  Overlaid(file, env) \in [Fields -> Values]
<1> SUFFICES ASSUME NEW f \in Fields PROVE Overlaid(file, env)[f] \in Values
  BY DEF Overlaid
<1>1. CASE f \in DOMAIN FileValues \ Overrides(env)
  BY <1>1, WrittenValues DEF Overlaid, Typed
<1>2. CASE f \notin DOMAIN FileValues \ Overrides(env)
  <2>1. f \in DOMAIN EnvValues
    BY <1>2 DEF Fields, Overrides
  <2> QED BY <1>2, <2>1, WrittenValues DEF Overlaid, Typed
<1> QED BY <1>1, <1>2

LEMMA FilledValues == ASSUME NEW c \in [Fields -> Values], NEW id \in FreshIds
                      PROVE  Filled(c, id) \in [Fields -> Values]
<1> DEFINE d == Filled(c, id)
<1>1. FilledForm(c, id, d)
  BY FilledHasForm
<1> HIDE DEF d
<1>2. /\ id \in Values /\ "set" \in Values /\ "eip3009" \in Values /\ 6 \in Values
      /\ DefaultNetwork \in Values /\ DefaultMPPNetwork \in Values
  BY ConfigAssumption DEF Values, Words
<1>3. ASSUME NEW f \in Fields PROVE d[f] \in Values
  <2>1. CASE f \in Copied \cup Credentials
    BY <1>1, <2>1 DEF FilledForm
  <2>2. CASE f \in {"robotID", "price", "network"}
    BY <1>1, <1>2, <2>2 DEF FilledForm, Or
  <2>3. CASE f \in {"method", "tokenVersion", "decimals"}
    BY <1>1, <1>2, <2>3 DEF FilledForm, Or, Method, NonZero
  <2>4. CASE f \in {"mppNetwork", "mppDecimals"}
    BY <1>1, <1>2, <2>4 DEF FilledForm, Or, MPPNetwork, NonZero
  <2>5. CASE f \in {"mppPayee", "mppRealm"}
    <3>1. "payee" \in Fields /\ "robotID" \in Fields
      BY AllFields
    <3> QED BY <1>1, <1>2, <2>5, <3>1 DEF FilledForm, Or
  <2> QED BY <2>1, <2>2, <2>3, <2>4, <2>5, AllFields DEF Copied, Credentials
<1> QED BY <1>1, <1>3 DEF FilledForm, d

LEMMA LoadedInit == Init => LoadedInv
BY DEF Init, LoadedInv, Loaded

LEMMA LoadedStep == StartupInv /\ LoadedInv /\ [Next]_vars => LoadedInv'
<1> SUFFICES ASSUME StartupInv, LoadedInv, [Next]_vars PROVE LoadedInv'
  OBVIOUS
<1>1. CASE Load
  <2> DEFINE o == Overlaid(file, env)
  <2> PICK id \in FreshIds : cfg' = LoadConfig(file, env, id)
    BY <1>1 DEF Load
  <2>1. file' = file /\ env' = env /\ LoadConfig(file, env, id) # Unset
    BY <1>1 DEF Load, written
  <2>2. ~LoadFails(file, env) /\ Acceptable(Filled(o, id)) /\ cfg' = Filled(o, id)
    BY <2>1 DEF LoadConfig, Validate
  <2>3. Filled(o, id) \in [Fields -> Values]
    BY OverlaidValues, FilledValues DEF StartupInv, TypeOK
  <2> QED BY <2>1, <2>2, <2>3 DEF LoadedInv
<1>2. ASSUME NEW wallet \in Addresses, Authorize(wallet) PROVE LoadedInv'
  <2>1. /\ cfg' = [cfg EXCEPT !.aipToken = "set", !.aipUser = Or(@, wallet)]
        /\ Loaded /\ edited' = edited /\ file' = file /\ env' = env
    BY <1>2 DEF Authorize, written, Loaded
  <2> SUFFICES ASSUME ~edited PROVE LoadedInv'
    BY <2>1 DEF LoadedInv
  <2>2. cfg \in [Fields -> Values] /\ ~LoadFails(file, env)
    BY <2>1 DEF LoadedInv
  <2> PICK drawn \in FreshIds :
          /\ Acceptable(Filled(Overlaid(file, env), drawn))
          /\ \A g \in Fields \ Credentials : cfg[g] = Filled(Overlaid(file, env), drawn)[g]
    BY <2>1 DEF LoadedInv
  <2>3. "set" \in Values /\ wallet \in Values /\ {"aipToken", "aipUser"} \subseteq Fields
    BY AllFields DEF Values, Words
  <2>4. cfg' \in [Fields -> Values]
    BY <2>1, <2>2, <2>3 DEF Or
  <2>5. \A g \in Fields \ Credentials : cfg'[g] = cfg[g]
    BY <2>1, <2>2 DEF Credentials
  <2> QED BY <2>1, <2>2, <2>4, <2>5 DEF LoadedInv
<1>3. CASE Edit
  BY <1>3 DEF Edit, LoadedInv
<1>4. CASE Exit
  BY <1>4 DEF Exit, LoadedInv, Loaded
<1>5. ASSUME UNCHANGED <<file, env, edited, cfg>>, Loaded' => Loaded PROVE LoadedInv'
  BY <1>5 DEF LoadedInv
<1>6. CASE Start
  BY <1>5, <1>6 DEF Start, written, Loaded
<1>7. CASE Check
  BY <1>4, <1>5, <1>7 DEF Check, written, Loaded
<1>8. CASE BuildRouter
  BY <1>5, <1>8 DEF BuildRouter, written, Loaded
<1>9. CASE UNCHANGED vars
  BY <1>5, <1>9 DEF vars, Loaded
<1> QED BY <1>1, <1>2, <1>3, <1>4, <1>6, <1>7, <1>8, <1>9 DEF Next, Main, Refuse, Fail, Recreate

\* A Config that is loaded and not out of date is what LoadConfig made of the file, the
\* environment and an id it drew, but for what the authorization added (main.go:47-101).
THEOREM LoadedIsWritten == Spec => []LoadedInv
BY LoadedInit, LoadedStep, StartupInvCorrect, PTL DEF Spec

\* The candidate that is vetted differs from the live Config in one field of the file.
LEMMA OverlaidChange ==
    ASSUME Typed(file, FileValues), NEW f \in DOMAIN FileValues \ Overrides(env), NEW v
    PROVE  Overlaid([file EXCEPT ![f] = v], env) = [Overlaid(file, env) EXCEPT ![f] = v]
<1>1. [file EXCEPT ![f] = v] = [g \in DOMAIN FileValues |-> IF g = f THEN v ELSE file[g]]
  BY DEF Typed
<1>2. f \in Fields
  BY DEF Fields
<1> QED BY <1>1, <1>2 DEF Overlaid

\* Vetting a changed copy of the live Config gives the verdict of a restart with the changed file,
\* and its Config up to the lasting defaults and the ids drawn, for every Config the process can
\* serve with, every field and every value but an unreadable file, and whatever ids the first
\* start, the vetting and the restart draw (config.go:130-135).
THEOREM VettingIsRestarting == Spec => []VettedLikeRestart
<1>1. StartupInv /\ LoadedInv => VettedLikeRestart
  <2> SUFFICES ASSUME StartupInv, LoadedInv, phase = "serving", ~edited,
                      NEW f \in DOMAIN FileValues \ Overrides(env), NEW v \in Candidates(f),
                      NEW id \in FreshIds, NEW anew \in FreshIds
               PROVE  LET changed == [file EXCEPT ![f] = v]
                          vetted == Validate([cfg EXCEPT ![f] = v], id)
                          fresh == LoadConfig(changed, env, anew)
                      IN  /\ vetted = Unset <=> fresh = Unset
                          /\ vetted # Unset =>
                               \A g \in DOMAIN FileValues
                                        \ (Lasting(f) \cup Drawn(Overlaid(changed, env))) :
                                  vetted[g] = fresh[g]
    BY DEF VettedLikeRestart, Serving
  <2> DEFINE o == Overlaid(file, env)
             x == [cfg EXCEPT ![f] = v]
             y == [o EXCEPT ![f] = v]
  <2>1. Typed(file, FileValues) /\ Typed(env, EnvValues) /\ Loaded
    BY DEF StartupInv, TypeOK, Loaded
  <2>2. ~LoadFails(file, env) /\ cfg \in [Fields -> Values]
    BY <2>1 DEF LoadedInv
  <2> PICK drawn \in FreshIds :
          /\ Acceptable(Filled(o, drawn))
          /\ \A g \in Fields \ Credentials : cfg[g] = Filled(o, drawn)[g]
    BY <2>1 DEF LoadedInv
  <2>3. /\ o \in [Fields -> Values] /\ f \in Fields /\ v \in Values
        /\ f = "robotID" => v # Bad
    BY <2>1, OverlaidValues, WrittenValues DEF Fields, Candidates
  <2>4. /\ LoadConfig([file EXCEPT ![f] = v], env, anew) = Validate(y, anew)
        /\ Overlaid([file EXCEPT ![f] = v], env) = y
    <3>1. ~LoadFails([file EXCEPT ![f] = v], env)
      BY <2>1, <2>2, <2>3, FieldNames DEF LoadFails, Typed
    <3>2. Overlaid([file EXCEPT ![f] = v], env) = y
      BY <2>1, OverlaidChange
    <3> QED BY <3>1, <3>2 DEF LoadConfig
  <2>5. SameVerdict(x, id, y, anew, f)
    <3>1. LoadedFrom(o, drawn, cfg)
      BY <2>2, <2>3 DEF LoadedFrom
    <3> HIDE DEF o
    <3> QED BY <3>1, ChangedAlike
  <2>6. Filled(x, id) # Unset /\ Filled(y, anew) # Unset
    <3>1. x \in [Fields -> Values] /\ y \in [Fields -> Values]
      BY <2>2, <2>3
    <3> HIDE DEF x, y
    <3> QED BY <3>1, FilledValues, UnsetAssumption
  <2> HIDE DEF x, y
  <2>7. /\ Validate(x, id) = (IF Acceptable(Filled(x, id)) THEN Filled(x, id) ELSE Unset)
        /\ Validate(y, anew) = (IF Acceptable(Filled(y, anew)) THEN Filled(y, anew) ELSE Unset)
    BY DEF Validate
  <2>8. /\ Validate(x, id) = Unset <=> Validate(y, anew) = Unset
        /\ Validate(x, id) # Unset =>
             \A g \in DOMAIN FileValues \ (Lasting(f) \cup Drawn(y)) : Validate(x, id)[g] = Validate(y, anew)[g]
    BY <2>5, <2>6, <2>7 DEF SameVerdict
  <2> QED BY <2>4, <2>8 DEF x, y
<1> QED BY <1>1, StartupInvCorrect, LoadedIsWritten, PTL
=============================================================================
