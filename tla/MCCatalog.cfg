CONSTANTS
    Process = {g1}
    Session = {s1, s2}
    Model = {m1}
    Price = {1, 2}
    MaxEvents = 3
SPECIFICATION FairCatalogSpec
INVARIANTS CatalogTypeOK
PROPERTIES PatchKeepsOthers CatalogCatchesUp
