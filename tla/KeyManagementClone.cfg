SPECIFICATION Spec
CONSTANTS
    c1 = c1  c2 = c2
    f1 = f1  f2 = f2
    none = none
    Conns <- MCConns
    Files <- MCFiles
    HexKeys = {"hex"}
    Passwords = {"word"}
    NoFile = none
PROPERTY CloneReads
