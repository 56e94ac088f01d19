SPECIFICATION Spec
CONSTANTS
    Tokens = {t1, t2, t3}
    ShortTokens = {short}
    Blank = Blank
    Spaces = Spaces
    Bad = Bad
    Error = Error
    Envs <- MCEnvs
    NewFirst = FALSE
    Oidc = oidc
    Down = Down
SYMMETRY TokenSymmetry
INVARIANTS
    NoWindowWhenAppended
