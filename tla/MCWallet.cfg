SPECIFICATION Spec
CONSTANTS
    Mnemonics <- MCMnemonics
    BadMnemonics = {"typo"}
    ImportedKeys <- MCImportedKeys
    SharedKeys <- MCSharedKeys
    Files <- MCFiles
    Passwords = {"p"}
    DELEGATES_MAXIMUM = 1
    MaxAddresses = 2
    MaxSeedIndex = 1
    MaxSalts = 2
    MaxPending = 1
 
PROPERTIES SeedIsKept
CHECK_DEADLOCK FALSE
