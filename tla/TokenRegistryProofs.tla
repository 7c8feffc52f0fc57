------------------------ MODULE TokenRegistryProofs ------------------------
(* Theorems about TokenRegistry, for every set of networks and of tokens.     *)
EXTENDS TokenRegistry, TLAPS

LEMMA AssetType == ASSUME NEW cfg \in Configs, cfg.address # Unset PROVE Asset(cfg) \in Assets
BY DEF Configs, Asset, Assets

LEMMA RegistryInit == Init => RegistryInv
<1> SUFFICES ASSUME Init PROVE RegistryInv
  OBVIOUS
<1>1. TypeOK
  BY DEF Init, TypeOK, Pristine
<1>2. Memoryless
  BY DEF Init, Memoryless
<1> QED BY <1>1, <1>2 DEF Init, RegistryInv

LEMMA RegistryStep == ASSUME RegistryInv, NEW cfg \in Configs, SetupRouter(cfg)
                      PROVE  RegistryInv'
<1> USE RegistryAssumption
<1>1. /\ cfg.network \in Networks
      /\ table \in [Networks -> Assets \cup {Shipped, Unset}]
      /\ Pristine \in [Networks -> Assets \cup {Shipped, Unset}]
  BY DEF Configs, RegistryInv, TypeOK, Pristine
<1>2. /\ SwitchedTable(cfg) \in [Networks -> Assets \cup {Shipped, Unset}]
      /\ \A n \in Networks : n # cfg.network => SwitchedTable(cfg)[n] = Pristine[n]
      /\ SwitchedNetwork(cfg) \in {Unset, cfg.network}
  BY <1>1 DEF SwitchedTable, SwitchedNetwork, Restored, RegistryInv, TypeOK
<1>3. CASE RegisterNone(cfg)
  <2>1. table' = Pristine /\ registered' = Unset
    BY <1>1, <1>2, <1>3 DEF RegisterNone, Restored, Pristine
  <2>2. Expected(cfg) = Pristine
    BY <1>3 DEF RegisterNone, Expected, Pristine
  <2>3. config' = cfg
    BY DEF SetupRouter
  <2> QED BY <1>1, <2>1, <2>2, <2>3 DEF RegistryInv, TypeOK, Memoryless
<1>4. CASE RegisterSkipped(cfg)
  <2>1. registered # cfg.network
    BY <1>1, <1>4 DEF RegisterSkipped, RegistryInv
  <2>2. registered' = Unset
    BY <1>4, <2>1 DEF RegisterSkipped, SwitchedNetwork
  <2>3. \A n \in Networks : table'[n] = Pristine[n]
    BY <1>1, <1>2, <1>4, <2>1 DEF RegisterSkipped, SwitchedTable, Restored, RegistryInv, TypeOK
  <2> QED BY <1>1, <1>2, <1>4, <2>2, <2>3 DEF RegisterSkipped, RegistryInv, TypeOK, Memoryless,
             Expected, SetupRouter, Pristine
<1>5. CASE RegisterOverride(cfg)
  <2>1. Asset(cfg) \in Assets
    BY <1>5, AssetType DEF RegisterOverride
  <2>2. table' = [SwitchedTable(cfg) EXCEPT ![cfg.network] = Asset(cfg)] /\ registered' = cfg.network
    BY <1>5 DEF RegisterOverride
  <2>3. /\ table' \in [Networks -> Assets \cup {Shipped, Unset}]
        /\ table'[cfg.network] = Asset(cfg)
        /\ \A n \in Networks : n # cfg.network => table'[n] = Pristine[n]
    BY <1>1, <1>2, <2>1, <2>2
  <2>4. table' = Expected(cfg)
    <3>1. cfg.address # Unset /\ cfg.network \in Eip155
      BY <1>5 DEF RegisterOverride
    <3>2. \A n \in Networks :
            table'[n] = IF n = cfg.network /\ n \in Eip155 /\ cfg.address # Unset
                          THEN Asset(cfg) ELSE Pristine[n]
      BY <2>3, <3>1
    <3>3. table' = [n \in Networks |-> table'[n]]
      BY <2>3
    <3> QED BY <3>2, <3>3 DEF Expected
  <2> QED BY <1>1, <1>5, <2>1, <2>2, <2>3, <2>4 DEF RegisterOverride, RegistryInv, TypeOK,
             Memoryless, SetupRouter
<1> QED BY <1>3, <1>4, <1>5 DEF SetupRouter

THEOREM RegistryInvCorrect == Spec => []RegistryInv
<1>1. RegistryInv /\ [Next]_vars => RegistryInv'
  <2>1. RegistryInv /\ Next => RegistryInv'
    BY RegistryStep DEF Next
  <2>2. RegistryInv /\ UNCHANGED vars => RegistryInv'
    BY DEF vars, RegistryInv, TypeOK, Memoryless
  <2> QED BY <2>1, <2>2
<1> QED BY <1>1, RegistryInit, PTL DEF Spec

\* The table only ever holds assets of the configs, or what x402 ships for a network.
THEOREM RegistryTypeCorrect == Spec => []TypeOK
<1>1. RegistryInv => TypeOK
  BY DEF RegistryInv
<1> QED BY <1>1, RegistryInvCorrect, PTL

\* The table depends on the config being served alone, after any sequence of configs.
THEOREM TableMemoryless == Spec => []Memoryless
<1>1. RegistryInv => Memoryless
  BY DEF RegistryInv
<1> QED BY <1>1, RegistryInvCorrect, PTL

\* registeredNetwork names the one network that is overridden, if any.
THEOREM OverrideRemembered == Spec => []RegisteredIsOverridden
<1>1. RegistryInv => RegisteredIsOverridden
  BY RegistryAssumption DEF RegistryInv, RegisteredIsOverridden, Pristine
<1> QED BY <1>1, RegistryInvCorrect, PTL
=============================================================================
