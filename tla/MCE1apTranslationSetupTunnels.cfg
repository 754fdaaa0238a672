\* The setup path only: UL UP TNLs reach the RRC UE unchanged. Each call returns, so deadlock is not checked.
CONSTANTS
    s1 = s1  s2 = s2  d1 = d1  f1 = f1  t1 = t1  t2 = t2  c1 = c1
    SessIds = {s1, s2}
    DrbIds = {d1}
    FlowIds = {f1}
    Tnls = {t1, t2}
    Causes = {c1}
    SetupInputs <- MCSetupInputs
    ModInputs = {}
    OnEmpty = {"lost"}
    ResDefault = {FALSE, TRUE}
SPECIFICATION Spec
INVARIANTS UlTunnelsPreserved
CHECK_DEADLOCK FALSE
