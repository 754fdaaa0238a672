\* Both translation paths, for both behaviours of value() on an empty optional
\* (abort or leave it disengaged).  Each translation is one call that returns: the final states
\* are the ends of the calls, so deadlock is not checked.
CONSTANTS
    s1 = s1  s2 = s2  d1 = d1  f1 = f1  t1 = t1  t2 = t2  c1 = c1
    SessIds = {s1, s2}
    DrbIds = {d1}
    FlowIds = {f1}
    Tnls = {t1, t2}
    Causes = {c1}
    SetupInputs <- MCSetupInputs
    ModInputs <- MCModInputs
    OnEmpty = {"abort", "lost"}
    ResDefault = {FALSE, TRUE}
SPECIFICATION Spec
INVARIANTS TypeOK PartialResultsReported
CHECK_DEADLOCK FALSE
