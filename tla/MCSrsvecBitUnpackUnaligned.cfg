\* bit_unpack on lengths that end in a partial byte.
CONSTANTS
    Builds = {FALSE, TRUE}
    PackSizes <- MCPackSizes
    UnpackSizes <- MCUnalignedSizes
    ByteVals <- MCByteVals
SPECIFICATION Spec
INVARIANTS
    BitUnpackCorrect
\* Each call returns after its last loop iteration.
CHECK_DEADLOCK FALSE
