SPECIFICATION CryptoSpec
CONSTANTS
    Blocks <- SomeBlocks
    BlockBytes = 8
    LengthBytes = 2
    CountSize = 64
    MaxBytes = 40
    DigestBytes = 3
    PasswordLengths = {0, 1, 7, 8, 9, 10}
    SaltLengths = {0, 5, 6, 7, 8, 10}
    KeyLengths = {1, 3, 4, 7}
    BlockBits = 6
    Salsa <- SomeSalsa
    Integer <- Number
    Costs = {2, 4, 8}
    Factors = {1, 2}
    Inputs <- SomeInputs
    FirstBlocks <- SomeFirstBlocks
    ByteSize = 4
    WordBytes = 3
    CompactReps <- SomeCompactReps
    FullReps <- SomeFullReps
    Divisors = {0, 1, 2, 3, 16, 63}
    MaxDivisions = 3
    Base = 3
    FragmentSize = 16
    FragmentLetters = 3
    ChecksumSize = 8
    ChecksumLetters = 2
    ChecksumOf <- SomeChecksum
    PublicKeys <- SomePublicKeys
    MaxLeaves = 9
    Rate = 10
    ChunkSize = 16
    Capacity = 4
    LaneBytes = 2
    ByteValues = 2
    MaxLength = 80
    WordBits = 2
    Operands <- AllResidues
    PARAMETER_d <- NonSquare
    Addends <- SomePoints
    DigitBits = 4
    Order = 1163
    Eigenvalues <- TheEigenvalues
    Ell <- TheEll
    Basis <- TheBasis
    Offset <- TheOffset
    CombRows = 4
    Tables = 2
    TableColumns = 2
    Scalars <- ManyScalars
    SubScalars = {0, 1, 2, 3, 4, 5, 6, 7, 8, 9, 10, 11, 12, 13, 14, 15}
    WidthK = 4
    WidthL = 3
    Seeds <- SomeSeeds
    Data = {d1, d2}
    Digests = {1, 5, 1163, 64907, 30001}
    ScalarBits = 11
    OtherKeys <- SomeKeys
    MaxSignatures = 1
INVARIANTS
    ShaAsStandard
    ScryptAsStandard
    TargetsExact
    ConversionsExact
    HashAsSpecified
    CurveExact
    MultipliesAndRecodes
    SignaturesVerify
    SignatureBindsData
PROPERTIES
    StreamImplementsHash
CHECK_DEADLOCK FALSE
