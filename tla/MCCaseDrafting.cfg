SPECIFICATION DraftSpec
CONSTANTS
    s = s  o = o  p = p  q = q
    x = x  y = y  z = z
    fp = fp  doc = doc
    Accounts = {s, o, p, q}
    Addresses = {x, y, z}
    Fingerprints = {fp}
    Docs = {doc}
    Nobody = Nobody
    NoDoc = NoDoc
    Open = 99
    Codes = {"F", "G"}
    Worlds <- MCWorlds
    Passes <- MCPasses
INVARIANTS
    ContradictionIsEarned
    ContradictionsAreAsked
    FlaggedIsUnsupported
    RefusedForQuotedWords
PROPERTY Finishes
