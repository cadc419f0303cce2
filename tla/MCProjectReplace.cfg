SPECIFICATION FairSpec
CONSTANTS
    o1 = o1
    o2 = o2
    table = table
    binding = binding
    piece = piece
    conn = conn
    Operators = {o1, o2}
    Names = {table, binding}
    Kind <- MCKind
    Prompt <- MCPrompt
    Bodies <- MCBodies
    Made <- MCMade
    Written <- MCWritten
    Alike <- MCAlike
    Partial = Partial
    Enabled <- MCEnabled
    Deps = {piece, conn}
    Conns = {conn}
    Needs <- MCNeeds
    Supplied = {piece}
    Versions <- MCVersions
    Before <- MCBefore
    None = None
    Gone = Gone
    MaxIds = 9
    MaxTroubles = 1
INVARIANTS TypeOK CleanApplyIsItsPlan BindingsHaveTheirDependencies NoDuplicates
PROPERTY RerunsConverge
