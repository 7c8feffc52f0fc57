CONSTANTS
    Networks = {base, bsc, tempo, solana, polygon}
    Eip155 = {base, bsc, tempo, polygon}
    Builtin = {base, bsc, solana, polygon}
    Addresses = {a1, a2}
    Decimals = {6, 18}
    Shipped = shipped
    Unset = unset
SPECIFICATION Spec
INVARIANTS
    TypeOK
    Memoryless
