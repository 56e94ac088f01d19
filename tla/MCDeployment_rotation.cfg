SPECIFICATION Spec
CONSTANTS
    Tokens = {t1, t2, t3}
    ShortTokens = {short}
    Blank = Blank
    Spaces = Spaces
    Bad = Bad
    Error = Error
    Envs <- MCEnvs
    NewFirst = TRUE
    Oidc = oidc
    Down = Down
SYMMETRY TokenSymmetry
INVARIANTS
    ServesOnlyUsable
    StartsAgain
    NobodyLockedOut
    RotatedOut
