\* Ten domains: the fewest for which a removal repairs the tree level by level.
CONSTANTS
    Nodes = {n1, n2, n3, n4, n5, n6, n7, n8, n9, n10}
    Keys = {1, 2, 3, 4, 5, 6, 7, 8, 9, 10}
    Nil = Nil
    NoKey = NoKey
SPECIFICATION Spec
INVARIANTS TypeOK TakenForGranted LinksAgree NoneLost VerifyIsExact BalancedAtRest
PROPERTIES ImplementsDictionary
VIEW Seen
