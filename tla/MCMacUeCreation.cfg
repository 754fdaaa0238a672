\* MAC UE creation across the UL, control and DL executors.
CONSTANTS
    p1 = p1
    p2 = p2
    p3 = p3
    c1 = c1
    c2 = c2
    Procs <- MCProcs
    Cells <- MCCells
    ReqUe <- MCReqUe
    ReqCrnti <- MCReqCrnti
    ReqCell <- MCReqCell
    ReqBearers <- MCReqBearers
SPECIFICATION Spec
INVARIANTS
    TypeOK
    SingleOutstanding
    ResponseImpliesInstalled
    UlBeforeDl
PROPERTIES
    CreationCompletes
    ImplementsAbstractCreation
\* Once every requested UE is created, the MAC waits for the next request.
CHECK_DEADLOCK FALSE
