----------------------- MODULE E1apSetupRequestProofs -----------------------
(***************************************************************************)
(* Proofs about E1apSetupRequest for every internal request the C++ types *)
(* can hold (RequestAssumption): the message the function builds is of    *)
(* the ASN.1 type, and it flags exactly the optional fields that hold a   *)
(* value, at all five levels.                                              *)
(***************************************************************************)
EXTENDS E1apSetupRequest, SequenceTheorems, TLAPS

-----------------------------------------------------------------------------
(***************************************************************************)
(* Sequences built item by item.                                           *)
(***************************************************************************)

(* A function on 1..n into T is a sequence over T. *)
LEMMA FunIsSeq ==
    ASSUME NEW T, NEW n \in Nat, NEW f \in [1..n -> T]
    PROVE  f \in Seq(T)
BY SeqDef

(* A function on the positions of a sequence into T is a sequence over T. *)
LEMMA MapIsSeq ==
    ASSUME NEW S, NEW T, NEW l \in Seq(S), NEW f \in [DOMAIN l -> T]
    PROVE  f \in Seq(T)
<1>1. Len(l) \in Nat /\ DOMAIN l = 1..Len(l)
  BY LenProperties
<1>2. QED
  BY <1>1, FunIsSeq

(* An element of a sequence over S is in S. *)
LEMMA SeqElem ==
    ASSUME NEW S, NEW l \in Seq(S), NEW k \in DOMAIN l
    PROVE  l[k] \in S
BY LenProperties, ElementOfSeq

(* The elements of a sequence over S are in S. *)
LEMMA ElemsType ==
    ASSUME NEW S, NEW l \in Seq(S)
    PROVE  Elems(l) \subseteq S
BY SeqElem DEF Elems

-----------------------------------------------------------------------------
(***************************************************************************)
(* The types of the translated items.                                      *)
(***************************************************************************)

(* The flags of the optional fields of a set that the code tests. *)
LEMMA PresentType ==
    ASSUME NEW opts, NEW tested
    PROVE  Present(opts, tested) \in SUBSET Flags(tested)
BY DEF Present, Flags

LEMMA FlowMapOutType ==
    ASSUME NEW m \in FlowMapIn
    PROVE  FlowMapOut(m) \in FlowMapT
BY PresentType DEF FlowMapIn, FlowMapOut, FlowMapT

LEMMA QosFlowOutType ==
    ASSUME NEW f \in FlowIn
    PROVE  QosFlowOut(f) \in QosFlowT
<1>1. Present(f.opts, FlowOpts \ (IF "gbr_qos_flow_info" \in f.opts THEN {} ELSE LossRates))
        \in SUBSET Flags(FlowOpts)
  BY DEF Present, Flags
<1>2. CASE f.dynamic
  <2>1. Present(f.charOpts, DynamicOpts) \in SUBSET Flags(DynamicOpts)
    BY PresentType
  <2>2. QED
    BY <1>1, <1>2, <2>1 DEF FlowIn, QosFlowOut, QosFlowT, LossRates
<1>3. CASE ~f.dynamic
  <2>1. Present(f.charOpts, NonDynamicOpts) \in SUBSET Flags(NonDynamicOpts)
    BY PresentType
  <2>2. QED
    BY <1>1, <1>3, <2>1 DEF FlowIn, QosFlowOut, QosFlowT, LossRates
<1>4. QED
  BY <1>2, <1>3

LEMMA CellGroupOutType ==
    ASSUME NEW c \in CellGroupIn
    PROVE  CellGroupOut(c) \in [cell_group_id : Nat, flags : SUBSET Flags(CellGroupOpts)]
BY PresentType DEF CellGroupIn, CellGroupOut

LEMMA DrbOutType ==
    ASSUME NEW d \in DrbIn
    PROVE  DrbOut(d) \in DrbT
<1>1. MapSeq(d.cellGroups, CellGroupOut)
        \in Seq([cell_group_id : Nat, flags : SUBSET Flags(CellGroupOpts)])
  <2>1. \A k \in DOMAIN d.cellGroups : CellGroupOut(d.cellGroups[k])
          \in [cell_group_id : Nat, flags : SUBSET Flags(CellGroupOpts)]
    BY SeqElem, CellGroupOutType DEF DrbIn
  <2>2. MapSeq(d.cellGroups, CellGroupOut)
          \in [DOMAIN d.cellGroups -> [cell_group_id : Nat, flags : SUBSET Flags(CellGroupOpts)]]
    BY <2>1 DEF MapSeq
  <2>3. d.cellGroups \in Seq(CellGroupIn)
    BY DEF DrbIn
  <2>4. QED
    BY <2>2, <2>3, MapIsSeq
<1>2. MapSeq(d.flows, QosFlowOut) \in Seq(QosFlowT)
  <2>1. \A k \in DOMAIN d.flows : QosFlowOut(d.flows[k]) \in QosFlowT
    BY SeqElem, QosFlowOutType DEF DrbIn
  <2>2. QED
    BY <2>1, MapIsSeq DEF MapSeq, DrbIn
<1>3. MapSeq(d.fwdFlows, FlowMapOut) \in Seq(FlowMapT)
  <2>1. \A k \in DOMAIN d.fwdFlows : FlowMapOut(d.fwdFlows[k]) \in FlowMapT
    BY SeqElem, FlowMapOutType DEF DrbIn
  <2>2. QED
    BY <2>1, MapIsSeq DEF MapSeq, DrbIn
<1>4. << >> \in Seq(FlowMapT)
  BY EmptySeq
<1>5. Present(d.opts, DrbOpts \ (IF "pdcp_sn_status_info" \in d.opts THEN {}
                                ELSE {"receive_statusof_pdcpsdu"})) \in SUBSET Flags(DrbOpts)
  BY DEF Present, Flags
<1>6. QED
  BY <1>1, <1>2, <1>3, <1>4, <1>5 DEF DrbIn, DrbOut, DrbT

LEMMA SessionOutType ==
    ASSUME NEW s \in SessIn
    PROVE  SessionOut(s) \in SessionT
<1>1. MapSeq(s.drbs, DrbOut) \in Seq(DrbT)
  <2>1. \A k \in DOMAIN s.drbs : DrbOut(s.drbs[k]) \in DrbT
    BY SeqElem, DrbOutType DEF SessIn
  <2>2. QED
    BY <2>1, MapIsSeq DEF MapSeq, SessIn
<1>2. MapSeq(s.fwdFlows, FlowMapOut) \in Seq(FlowMapT)
  <2>1. \A k \in DOMAIN s.fwdFlows : FlowMapOut(s.fwdFlows[k]) \in FlowMapT
    BY SeqElem, FlowMapOutType DEF SessIn
  <2>2. QED
    BY <2>1, MapIsSeq DEF MapSeq, SessIn
<1>3. << >> \in Seq(FlowMapT)
  BY EmptySeq
<1>4. Present(s.opts, SessOpts) \in SUBSET Flags(SessOpts)
  BY PresentType
<1>5. QED
  BY <1>1, <1>2, <1>3, <1>4 DEF SessIn, SessionOut, SessionT

(* The message the function builds from a request is of the ASN.1 type. *)
LEMMA BuildType ==
    ASSUME NEW r \in ReqIn
    PROVE  Build(r) \in MsgT
<1>1. \A k \in DOMAIN r.sessions : << SessionOut(r.sessions[k]) >> \in Seq(SessionT)
  <2> SUFFICES ASSUME NEW k \in DOMAIN r.sessions
               PROVE  << SessionOut(r.sessions[k]) >> \in Seq(SessionT)
    OBVIOUS
  <2>1. SessionOut(r.sessions[k]) \in SessionT
    BY SeqElem, SessionOutType DEF ReqIn
  <2>2. QED
    BY <2>1, EmptySeq, AppendProperties
<1>2. SessionIes(r.sessions) \in Seq(Seq(SessionT))
  BY <1>1, MapIsSeq DEF SessionIes, ReqIn
<1>3. Present(r.opts, ReqOpts) \in SUBSET Flags(ReqOpts)
  BY PresentType
<1>4. QED
  BY <1>2, <1>3 DEF Build, MsgT

-----------------------------------------------------------------------------
(***************************************************************************)
(* The optional-field facts of one item of each level, and the flag facts *)
(* of its ASN.1 item; OptionFacts and FlagFacts are their unions.          *)
(***************************************************************************)
InFlowFacts(sid, did, f) == {<<"flow", sid, did, f.id, o>> : o \in f.opts \cup f.charOpts}
OutFlowFacts(sid, did, q) ==
    {<<"flow", sid, did, q.qo_s_flow_id, g[1]>> : g \in q.flags \cup q.characteristics_flags}
InCgFacts(sid, did, c) == {<<"cg", sid, did, c.id, o>> : o \in c.opts}
OutCgFacts(sid, did, c) == {<<"cg", sid, did, c.cell_group_id, g[1]>> : g \in c.flags}
InDrbFacts(sid, d) ==
    {<<"drb", sid, d.id, o>> : o \in d.opts}
    \cup UNION {InCgFacts(sid, d.id, c) : c \in Elems(d.cellGroups)}
    \cup UNION {InFlowFacts(sid, d.id, f) : f \in Elems(d.flows)}
OutDrbFacts(sid, d) ==
    {<<"drb", sid, d.drb_id, g[1]>> : g \in d.flags}
    \cup UNION {OutCgFacts(sid, d.drb_id, c) : c \in Elems(d.cell_group_info)}
    \cup UNION {OutFlowFacts(sid, d.drb_id, f) : f \in Elems(d.qos_flow_info_to_be_setup)}
InSessFacts(s) ==
    {<<"sess", s.id, o>> : o \in s.opts} \cup UNION {InDrbFacts(s.id, d) : d \in Elems(s.drbs)}
OutSessFacts(s) ==
    {<<"sess", s.pdu_session_id, g[1]>> : g \in s.flags}
    \cup UNION {OutDrbFacts(s.pdu_session_id, d) : d \in Elems(s.drb_to_setup_list_ng_ran)}

LEMMA FactsSplit ==
    ASSUME NEW r, NEW msg
    PROVE  /\ OptionFacts(r) = {<<"req", o>> : o \in r.opts}
                               \cup UNION {InSessFacts(s) : s \in Elems(r.sessions)}
           /\ FlagFacts(msg) = {<<"req", o>> : o \in {g[1] : g \in msg.flags}}
                               \cup UNION {OutSessFacts(s) : s \in SessionsOf(msg)}
BY DEF OptionFacts, FlagFacts, InSessFacts, OutSessFacts, InDrbFacts, OutDrbFacts,
       InCgFacts, OutCgFacts, InFlowFacts, OutFlowFacts

LEMMA FlowFacts ==
    ASSUME NEW sid, NEW did, NEW f \in FlowIn
    PROVE  OutFlowFacts(sid, did, QosFlowOut(f)) = InFlowFacts(sid, did, f)
<1>1. f.opts \cap (FlowOpts \ (IF "gbr_qos_flow_info" \in f.opts THEN {} ELSE LossRates)) = f.opts
  BY DEF FlowIn, FlowOptSets, LossRates
<1>2. f.charOpts \cap (IF f.dynamic THEN DynamicOpts ELSE NonDynamicOpts) = f.charOpts
  BY DEF FlowIn
<1>3. /\ QosFlowOut(f).qo_s_flow_id = f.id
      /\ QosFlowOut(f).flags \cup QosFlowOut(f).characteristics_flags = Flags(f.opts \cup f.charOpts)
  BY <1>1, <1>2 DEF QosFlowOut, Present, Flags, LossRates
<1>4. OutFlowFacts(sid, did, QosFlowOut(f))
      = {<<"flow", sid, did, f.id, g[1]>> : g \in {Flag(o) : o \in f.opts \cup f.charOpts}}
  BY <1>3 DEF OutFlowFacts, Flags
<1>5. \A o : Flag(o)[1] = o
  BY DEF Flag
<1> HIDE DEF Flag
<1>6. QED
  BY <1>4, <1>5, Zenon DEF InFlowFacts

LEMMA CgFacts ==
    ASSUME NEW sid, NEW did, NEW c \in CellGroupIn
    PROVE  OutCgFacts(sid, did, CellGroupOut(c)) = InCgFacts(sid, did, c)
<1>1. CellGroupOut(c).cell_group_id = c.id /\ CellGroupOut(c).flags = Flags(c.opts)
  BY DEF CellGroupIn, CellGroupOut, Present
<1>2. OutCgFacts(sid, did, CellGroupOut(c))
      = {<<"cg", sid, did, c.id, g[1]>> : g \in {Flag(o) : o \in c.opts}}
  BY <1>1 DEF OutCgFacts, Flags
<1>3. \A o : Flag(o)[1] = o
  BY DEF Flag
<1> HIDE DEF Flag
<1>4. QED
  BY <1>2, <1>3, Zenon DEF InCgFacts

LEMMA DrbFacts ==
    ASSUME NEW sid, NEW d \in DrbIn
    PROVE  OutDrbFacts(sid, DrbOut(d)) = InDrbFacts(sid, d)
<1>1. d.opts \cap (DrbOpts \ (IF "pdcp_sn_status_info" \in d.opts THEN {}
                              ELSE {"receive_statusof_pdcpsdu"})) = d.opts
  BY DEF DrbIn, DrbOptSets
<1>2. DrbOut(d).drb_id = d.id /\ DrbOut(d).flags = Flags(d.opts)
  BY <1>1 DEF DrbOut, Present
<1>3. {<<"drb", sid, d.id, g[1]>> : g \in DrbOut(d).flags} = {<<"drb", sid, d.id, o>> : o \in d.opts}
  <2>1. {<<"drb", sid, d.id, g[1]>> : g \in DrbOut(d).flags}
        = {<<"drb", sid, d.id, g[1]>> : g \in {Flag(o) : o \in d.opts}}
    BY <1>2 DEF Flags
  <2>2. \A o : Flag(o)[1] = o
    BY DEF Flag
  <2> HIDE DEF Flag
  <2>3. QED
    BY <2>1, <2>2, Zenon
<1>4. UNION {OutCgFacts(sid, d.id, x) : x \in Elems(DrbOut(d).cell_group_info)}
      = UNION {InCgFacts(sid, d.id, c) : c \in Elems(d.cellGroups)}
  <2>1. Elems(DrbOut(d).cell_group_info) = {CellGroupOut(c) : c \in Elems(d.cellGroups)}
    BY DEF DrbOut, Elems, MapSeq
  <2>2. \A c \in Elems(d.cellGroups) : OutCgFacts(sid, d.id, CellGroupOut(c)) = InCgFacts(sid, d.id, c)
    BY ElemsType, CgFacts DEF DrbIn
  <2> HIDE DEF OutCgFacts, InCgFacts, CellGroupOut
  <2>3. {OutCgFacts(sid, d.id, x) : x \in Elems(DrbOut(d).cell_group_info)}
        = {InCgFacts(sid, d.id, c) : c \in Elems(d.cellGroups)}
    BY <2>1, <2>2
  <2>4. QED
    BY <2>3
<1>5. UNION {OutFlowFacts(sid, d.id, x) : x \in Elems(DrbOut(d).qos_flow_info_to_be_setup)}
      = UNION {InFlowFacts(sid, d.id, f) : f \in Elems(d.flows)}
  <2>1. Elems(DrbOut(d).qos_flow_info_to_be_setup) = {QosFlowOut(f) : f \in Elems(d.flows)}
    BY DEF DrbOut, Elems, MapSeq
  <2>2. \A f \in Elems(d.flows) : OutFlowFacts(sid, d.id, QosFlowOut(f)) = InFlowFacts(sid, d.id, f)
    BY ElemsType, FlowFacts DEF DrbIn
  <2> HIDE DEF OutFlowFacts, InFlowFacts, QosFlowOut
  <2>3. {OutFlowFacts(sid, d.id, x) : x \in Elems(DrbOut(d).qos_flow_info_to_be_setup)}
        = {InFlowFacts(sid, d.id, f) : f \in Elems(d.flows)}
    BY <2>1, <2>2
  <2>4. QED
    BY <2>3
<1> HIDE DEF DrbOut
<1>6. QED
  BY <1>2, <1>3, <1>4, <1>5 DEF OutDrbFacts, InDrbFacts

LEMMA SessFacts ==
    ASSUME NEW s \in SessIn
    PROVE  /\ SessionOut(s).pdu_session_id = s.id
           /\ OutSessFacts(SessionOut(s)) = InSessFacts(s)
<1>1. SessionOut(s).pdu_session_id = s.id /\ SessionOut(s).flags = Flags(s.opts)
  BY DEF SessIn, SessionOut, Present
<1>2. {<<"sess", s.id, g[1]>> : g \in SessionOut(s).flags} = {<<"sess", s.id, o>> : o \in s.opts}
  <2>1. {<<"sess", s.id, g[1]>> : g \in SessionOut(s).flags}
        = {<<"sess", s.id, g[1]>> : g \in {Flag(o) : o \in s.opts}}
    BY <1>1 DEF Flags
  <2>2. \A o : Flag(o)[1] = o
    BY DEF Flag
  <2> HIDE DEF Flag
  <2>3. QED
    BY <2>1, <2>2, Zenon
<1>3. UNION {OutDrbFacts(s.id, x) : x \in Elems(SessionOut(s).drb_to_setup_list_ng_ran)}
      = UNION {InDrbFacts(s.id, d) : d \in Elems(s.drbs)}
  <2>1. Elems(SessionOut(s).drb_to_setup_list_ng_ran) = {DrbOut(d) : d \in Elems(s.drbs)}
    BY DEF SessionOut, Elems, MapSeq
  <2>2. \A d \in Elems(s.drbs) : OutDrbFacts(s.id, DrbOut(d)) = InDrbFacts(s.id, d)
    BY ElemsType, DrbFacts DEF SessIn
  <2> HIDE DEF OutDrbFacts, InDrbFacts, DrbOut
  <2>3. {OutDrbFacts(s.id, x) : x \in Elems(SessionOut(s).drb_to_setup_list_ng_ran)}
        = {InDrbFacts(s.id, d) : d \in Elems(s.drbs)}
    BY <2>1, <2>2
  <2>4. QED
    BY <2>3
<1> HIDE DEF SessionOut
<1>4. QED
  BY <1>1, <1>2, <1>3 DEF OutSessFacts, InSessFacts

(* Every PDU session of the request gets an IE of its own that holds it. *)
LEMMA BuildSessions ==
    ASSUME NEW r \in ReqIn
    PROVE  SessionsOf(Build(r)) = {SessionOut(x) : x \in Elems(r.sessions)}
<1>1. Build(r).ng_ran_bearer_context_setup_request
      = [k \in DOMAIN r.sessions |-> << SessionOut(r.sessions[k]) >>]
  BY DEF Build, SessionIes
<1>2. \A k \in DOMAIN r.sessions : Elems(<< SessionOut(r.sessions[k]) >>) = {SessionOut(r.sessions[k])}
  BY DEF Elems
<1> HIDE DEF SessionOut
<1>3. SessionsOf(Build(r)) = UNION {{SessionOut(r.sessions[k])} : k \in DOMAIN r.sessions}
  <2>1. SessionsOf(Build(r))
        = UNION {Elems(Build(r).ng_ran_bearer_context_setup_request[k]) : k \in DOMAIN r.sessions}
    BY <1>1 DEF SessionsOf
  <2>2. {Elems(Build(r).ng_ran_bearer_context_setup_request[k]) : k \in DOMAIN r.sessions}
        = {{SessionOut(r.sessions[k])} : k \in DOMAIN r.sessions}
    <3>1. \A k \in DOMAIN r.sessions :
            Build(r).ng_ran_bearer_context_setup_request[k] = << SessionOut(r.sessions[k]) >>
      BY <1>1
    <3>2. QED
      BY <3>1, <1>2
  <2> HIDE DEF Elems
  <2>3. QED
    BY <2>1, <2>2
<1>4. UNION {{SessionOut(r.sessions[k])} : k \in DOMAIN r.sessions}
      = {SessionOut(r.sessions[k]) : k \in DOMAIN r.sessions}
  OBVIOUS
<1>5. QED
  BY <1>3, <1>4 DEF Elems

(* The built message flags exactly the optional fields of the request that *)
(* hold a value, and carries exactly its PDU sessions.                      *)
LEMMA BuildEncodes ==
    ASSUME NEW r \in ReqIn
    PROVE  /\ FlagFacts(Build(r)) = OptionFacts(r)
           /\ {s.pdu_session_id : s \in SessionsOf(Build(r))} = {s.id : s \in Elems(r.sessions)}
<1>1. \A x \in Elems(r.sessions) : /\ SessionOut(x).pdu_session_id = x.id
                                   /\ OutSessFacts(SessionOut(x)) = InSessFacts(x)
  BY ElemsType, SessFacts DEF ReqIn
<1>2. {<<"req", o>> : o \in {g[1] : g \in Build(r).flags}} = {<<"req", o>> : o \in r.opts}
  <2>1. Build(r).flags = {Flag(o) : o \in r.opts}
    BY DEF ReqIn, Build, Present, Flags
  <2>2. \A o : Flag(o)[1] = o
    BY DEF Flag
  <2> HIDE DEF Flag
  <2>3. {g[1] : g \in Build(r).flags} = {Flag(o)[1] : o \in r.opts}
    BY <2>1
  <2>4. {Flag(o)[1] : o \in r.opts} = r.opts
    BY <2>2
  <2>5. QED
    BY <2>3, <2>4
<1>3. SessionsOf(Build(r)) = {SessionOut(x) : x \in Elems(r.sessions)}
  BY BuildSessions
<1> HIDE DEF SessionOut, OutSessFacts, InSessFacts
<1>4. UNION {OutSessFacts(s) : s \in SessionsOf(Build(r))} = UNION {InSessFacts(x) : x \in Elems(r.sessions)}
  <2>1. {OutSessFacts(s) : s \in SessionsOf(Build(r))} = {InSessFacts(x) : x \in Elems(r.sessions)}
    BY <1>1, <1>3
  <2>2. QED
    BY <2>1
<1>5. {s.pdu_session_id : s \in SessionsOf(Build(r))} = {s.id : s \in Elems(r.sessions)}
  BY <1>1, <1>3
<1>6. QED
  BY <1>2, <1>4, <1>5, FactsSplit

-----------------------------------------------------------------------------
(***************************************************************************)
(* The behaviour.  Once the function has returned, its copy holds the     *)
(* message built from the request.                                         *)
(***************************************************************************)
IInv == TypeOK /\ (pc = "returned" => local = Build(request))

LEMMA EmptyMsgType == EmptyMsg \in MsgT
BY EmptySeq DEF EmptyMsg, MsgT

LEMMA InitIInv == Init => IInv
BY EmptyMsgType, RequestAssumption DEF Init, IInv, TypeOK

LEMMA NextIInv == IInv /\ [Next]_vars => IInv'
<1> SUFFICES ASSUME IInv, [Next]_vars PROVE IInv'
  OBVIOUS
<1>1. request \in ReqIn
  BY RequestAssumption DEF IInv, TypeOK
<1>2. CASE FillSetupRequest
  BY <1>1, <1>2, BuildType DEF FillSetupRequest, IInv, TypeOK
<1>3. CASE UNCHANGED vars
  BY <1>3 DEF vars, IInv, TypeOK
<1>4. QED
  BY <1>2, <1>3 DEF Next

LEMMA SpecIInv == Spec => []IInv
BY InitIInv, NextIInv, PTL DEF Spec

(* For every request the C++ types can hold, the message that             *)
(* fill_asn1_bearer_context_setup_request builds, and the caller's one,   *)
(* are of the ASN.1 type.                                                  *)
THEOREM SetupRequestTypeCorrect == Spec => []TypeOK
BY SpecIInv, PTL DEF IInv

(* For every request the C++ types can hold, with any number of sessions, *)
(* DRBs, cell groups and flows, the built message sets a _present flag    *)
(* exactly for the optional fields that hold a value, at all five levels, *)
(* and carries exactly the request's PDU sessions.                         *)
THEOREM OptionalsEncodedSafety == Spec => []OptionalsEncoded
<1>1. IInv => OptionalsEncoded
  <2> SUFFICES ASSUME IInv, pc = "returned"
               PROVE  /\ FlagFacts(local) = OptionFacts(request)
                      /\ {s.pdu_session_id : s \in SessionsOf(local)} = {s.id : s \in Elems(request.sessions)}
    BY DEF OptionalsEncoded
  <2>1. request \in ReqIn /\ local = Build(request)
    BY RequestAssumption DEF IInv, TypeOK
  <2>2. QED
    BY <2>1, BuildEncodes
<1>2. QED
  BY SpecIInv, <1>1, PTL

=============================================================================
