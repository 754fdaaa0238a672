\* bit_pack and bit_unpack in the builds with and without HAVE_SSE.
CONSTANTS
    Builds = {FALSE, TRUE}
    PackSizes <- MCPackSizes
    UnpackSizes <- MCByteSizes
    ByteVals <- MCByteVals
SPECIFICATION Spec
INVARIANTS
    TypeOK
    BitPackCorrect
    BitUnpackCorrect
\* Each call returns after its last loop iteration.
CHECK_DEADLOCK FALSE
