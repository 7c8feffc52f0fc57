CONSTANTS
    id = id
    payee = payee
    staked = staked
    coin = coin
    base = base
    tempo = tempo
    chain = chain
    Unset = unset
    Bad = bad
    Ids = {id}
    FreshIds = {drawn, redrawn}
    Addresses = {payee, staked, coin}
    Networks = {base, tempo, chain, wide, solana}
    Eip155 = {base, tempo, chain, wide}
    Narrow = {base, tempo, chain}
    Presets = {base, chain}
    Tempo = {tempo}
    DefaultNetwork = base
    DefaultMPPNetwork = tempo
    Decimals = {0, 6, 18, 37}
    Builtin = {base}
    Shipped = shipped
    NoCurrency = {chain}
    Samples <- MCSamples
    MaxEdits = 1
    MaxFaults = 1
SPECIFICATION FairSpec
INVARIANTS
    TypeOK
    ServesWhatIsWritten
    Revalidates
    VettedLikeRestart
PROPERTIES
    ServesOnceCorrected
CHECK_DEADLOCK FALSE
