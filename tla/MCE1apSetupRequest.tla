-------------------------- MODULE MCE1apSetupRequest --------------------------
(***************************************************************************)
(* Small instances of E1apSetupRequest: up to two PDU sessions (ids 1 and *)
(* 2) of one DRB each, with one cell group and one QoS flow, dynamic or   *)
(* not.  Every item has either all of its optional fields or none, so     *)
(* each level is seen with and without them.                              *)
(***************************************************************************)
EXTENDS E1apSetupRequest

AllOrNone(S) == {{}, S}

MCFlowMaps == [id : {1}, opts : AllOrNone(FlowMapOpts)]
MCFlows ==
    [id : {1}, dynamic : {TRUE}, charOpts : AllOrNone(DynamicOpts), opts : AllOrNone(FlowOpts)]
    \cup [id : {1}, dynamic : {FALSE}, charOpts : AllOrNone(NonDynamicOpts), opts : AllOrNone(FlowOpts)]
MCDrbs ==
    [id : {1}, cellGroups : {<<c>> : c \in [id : {0}, opts : AllOrNone(CellGroupOpts)]},
     flows : {<<f>> : f \in MCFlows}, fwdFlows : {<<m>> : m \in MCFlowMaps}, opts : AllOrNone(DrbOpts)]
MCSessions(id) ==
    [id : {id}, tnl : {7}, drbs : {<<d>> : d \in MCDrbs}, fwdFlows : {<<[id |-> 1, opts |-> {}]>>},
     opts : AllOrNone(SessOpts)]

MCRequests ==
    [sessions : {<<>>} \cup {<<s>> : s \in MCSessions(1)}, opts : AllOrNone(ReqOpts)]
    \cup [sessions : {<<s, t>> : s \in MCSessions(1), t \in {x \in MCSessions(2) : x.opts = {}}},
          opts : {{}}]

=============================================================================
