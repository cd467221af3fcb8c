SPECIFICATION SampleSpec
CONSTANTS
    Bases = {"kick", "lead"}
    FileNames <- KickFiles
    NewNames <- LeadNames
    MaxImports = 4
INVARIANT
    IdsUnique
