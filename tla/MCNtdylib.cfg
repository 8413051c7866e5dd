SPECIFICATION Spec
CONSTANTS
    m1 = m1
    m2 = m2
    m3 = m3
    plugin = plugin
    helper = helper
    standard = standard
    Modules <- MCModules
    Files = {plugin, helper, standard}
    Content <- MCContent
    Base <- MCBase
    System <- MCSystem
    Bases <- MCBases
    DWord = 64
    DataFlags <- MCDataFlags
    MaxShort = 1
    MaxDepth = 3
    MaxHeld = 2
SYMMETRY Symmetric
INVARIANTS ListSound RefsCounted HandlesLive ImagesLinked ImportsNewest
