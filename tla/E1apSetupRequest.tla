--------------------------- MODULE E1apSetupRequest ---------------------------
(***************************************************************************)
(* The translation of the CU-CP's bearer context setup request into its   *)
(* E1AP ASN.1 form, fill_asn1_bearer_context_setup_request in              *)
(* lib/cu_cp/helpers/rrc_ue_e1ap_asn1_helpers.h.                           *)
(*                                                                         *)
(* The internal request holds optional fields (has_value) at five levels: *)
(* the request, the PDU session items, their DRB items, the DRBs' cell    *)
(* group items and QoS flow items.  The ASN.1 message marks each optional *)
(* field by a _present flag.  Values are abstracted away: an item is its  *)
(* id, its list members and the set of its optional fields that hold a    *)
(* value; the ASN.1 item is its id, its lists and the set of its _present  *)
(* flags that are set.                                                     *)
(*                                                                         *)
(* The function takes its ASN.1 message parameter by value: the message   *)
(* it fills is a copy of the caller's, and the caller's message is left    *)
(* as it was.  The model keeps both.                                       *)
(***************************************************************************)
EXTENDS Naturals, Sequences, FiniteSets

CONSTANTS
    Requests     \* the internal bearer context setup requests to translate

(* The optional fields of each level of the internal request. *)
ReqOpts == {"integrity_protection_algorithm", "uedl_maximum_integrity_protected_data_rate",
            "ue_inactivity_timer", "bearer_context_status_change", "ranueid", "gnb_du_id"}
SessOpts == {"maximum_ipdatarate", "pdu_session_res_dl_ambr", "pdu_session_data_forwarding_info_request",
             "pdu_session_inactivity_timer", "existing_allocated_ng_dl_up_tnl_info", "network_instance"}
DrbOpts == {"drb_data_forwarding_info_request", "drb_inactivity_timer", "pdcp_sn_status_info",
            "receive_statusof_pdcpsdu"}
CellGroupOpts == {"ul_cfg", "dl_tx_stop", "rat_type"}
DynamicOpts == {"five_qi", "delay_crit", "averaging_win", "max_data_burst_volume"}
NonDynamicOpts == {"qos_prio_level", "averaging_win", "max_data_burst_volume"}
FlowOpts == {"gbr_qos_flow_info", "max_packet_loss_rate_dl", "max_packet_loss_rate_ul",
             "reflective_qos_attribute", "add_qos_info", "paging_policy_ind", "reflective_qos_ind",
             "qos_flow_map_ind"}
FlowMapOpts == {"qos_flow_map_ind"}

(* The ASN.1 _present flag of an optional field. *)
Flag(o) == <<o, "present">>
Flags(opts) == {Flag(o) : o \in opts}

(***************************************************************************)
(* The internal request, as far as the function reads it.  An item is its *)
(* id, its lists and the set of its optional fields that hold a value.    *)
(* The loss rates are members of the GBR flow info and the receive status *)
(* a member of the PDCP SN status info, so each can hold a value only     *)
(* when its parent does; a flow's characteristics are those of the 5QI    *)
(* kind it carries.                                                        *)
(***************************************************************************)
LossRates == {"max_packet_loss_rate_dl", "max_packet_loss_rate_ul"}
FlowMapIn == [id : Nat, opts : SUBSET FlowMapOpts]
FlowOptSets == {o \in SUBSET FlowOpts : "gbr_qos_flow_info" \notin o => o \cap LossRates = {}}
FlowIn ==
    [id : Nat, dynamic : {TRUE}, charOpts : SUBSET DynamicOpts, opts : FlowOptSets]
    \cup [id : Nat, dynamic : {FALSE}, charOpts : SUBSET NonDynamicOpts, opts : FlowOptSets]
CellGroupIn == [id : Nat, opts : SUBSET CellGroupOpts]
DrbOptSets == {o \in SUBSET DrbOpts : "pdcp_sn_status_info" \notin o => "receive_statusof_pdcpsdu" \notin o}
DrbIn == [id : Nat, cellGroups : Seq(CellGroupIn), flows : Seq(FlowIn), fwdFlows : Seq(FlowMapIn),
          opts : DrbOptSets]
SessIn == [id : Nat, tnl : Nat, drbs : Seq(DrbIn), fwdFlows : Seq(FlowMapIn), opts : SUBSET SessOpts]
ReqIn == [sessions : Seq(SessIn), opts : SUBSET ReqOpts]

ASSUME RequestAssumption == Requests \subseteq ReqIn

VARIABLES
    request,  \* the internal request
    caller,   \* the caller's ASN.1 message
    local,    \* the function's copy of it, which it fills
    pc        \* "called" or "returned"

vars == <<request, caller, local, pc>>

(* A default-constructed ASN.1 message: no IE set, no flag set. *)
EmptyMsg == [flags |-> {}, ng_ran_bearer_context_setup_request |-> <<>>]

(* The ASN.1 message, as far as the model keeps it. *)
FlowMapT == [qo_s_flow_id : Nat, flags : SUBSET Flags(FlowMapOpts)]
QosFlowT ==
    [qo_s_flow_id : Nat, qo_s_characteristics : {"dynamic_minus5_qi"},
     characteristics_flags : SUBSET Flags(DynamicOpts), flags : SUBSET Flags(FlowOpts)]
    \cup [qo_s_flow_id : Nat, qo_s_characteristics : {"non_dynamic_minus5_qi"},
          characteristics_flags : SUBSET Flags(NonDynamicOpts), flags : SUBSET Flags(FlowOpts)]
DrbT == [drb_id : Nat, cell_group_info : Seq([cell_group_id : Nat, flags : SUBSET Flags(CellGroupOpts)]),
         qos_flow_info_to_be_setup : Seq(QosFlowT), qo_s_flows_forwarded_on_fwd_tunnels : Seq(FlowMapT),
         flags : SUBSET Flags(DrbOpts)]
SessionT == [pdu_session_id : Nat, ng_ul_up_tnl_info : Nat, drb_to_setup_list_ng_ran : Seq(DrbT),
             qo_s_flows_forwarded_on_fwd_tunnels : Seq(FlowMapT), flags : SUBSET Flags(SessOpts)]
MsgT == [flags : SUBSET Flags(ReqOpts), ng_ran_bearer_context_setup_request : Seq(Seq(SessionT))]

TypeOK ==
    /\ request \in Requests
    /\ caller \in MsgT
    /\ local \in MsgT
    /\ pc \in {"called", "returned"}

Init ==
    /\ request \in Requests
    /\ caller = EmptyMsg
    /\ local = caller
    /\ pc = "called"

(* The sequence of F applied to each element of s. *)
MapSeq(s, F(_)) == [k \in DOMAIN s |-> F(s[k])]

(* The flags an item gets: one per optional field that holds a value,     *)
(* among those the code tests.                                             *)
Present(opts, tested) == Flags(opts \cap tested)

(* A forwarded-flow map item: the QoS flow id and its map indication. *)
FlowMapOut(m) == [qo_s_flow_id |-> m.id, flags |-> Present(m.opts, FlowMapOpts)]

(* Mutant: the QoS characteristics are always encoded as dynamic 5QI. *)
QosFlowOutAlwaysDynamic(f) ==
    [qo_s_flow_id |-> f.id, qo_s_characteristics |-> "dynamic_minus5_qi",
     characteristics_flags |-> Flags(f.charOpts),
     flags |-> Present(f.opts, FlowOpts \ (IF "gbr_qos_flow_info" \in f.opts THEN {}
                                           ELSE {"max_packet_loss_rate_dl", "max_packet_loss_rate_ul"}))]

(***************************************************************************)
(* A QoS flow item: the flow id, the QoS characteristics (dynamic 5QI     *)
(* with its optionals when the dynamic one holds a value, else the        *)
(* non-dynamic one with its optionals), and the optionals of the flow     *)
(* level QoS params.  The loss rates are tested only inside the GBR info.  *)
(***************************************************************************)
QosFlowOut(f) ==
    [qo_s_flow_id |-> f.id,
     qo_s_characteristics |-> IF f.dynamic THEN "dynamic_minus5_qi" ELSE "non_dynamic_minus5_qi",
     characteristics_flags |-> Present(f.charOpts, IF f.dynamic THEN DynamicOpts ELSE NonDynamicOpts),
     flags |-> Present(f.opts, FlowOpts \ (IF "gbr_qos_flow_info" \in f.opts THEN {}
                                           ELSE {"max_packet_loss_rate_dl", "max_packet_loss_rate_ul"}))]

(* A cell group info item: its id and optionals. *)
CellGroupOut(c) == [cell_group_id |-> c.id, flags |-> Present(c.opts, CellGroupOpts)]

(***************************************************************************)
(* A DRB to setup item: id, cell group info, QoS flows, and the data      *)
(* forwarding request (with its forwarded flows), inactivity timer and    *)
(* PDCP SN status (with its receive status) when they hold a value.       *)
(***************************************************************************)
DrbOut(d) ==
    [drb_id |-> d.id,
     cell_group_info |-> MapSeq(d.cellGroups, CellGroupOut),
     qos_flow_info_to_be_setup |-> MapSeq(d.flows, QosFlowOut),
     qo_s_flows_forwarded_on_fwd_tunnels |->
        IF "drb_data_forwarding_info_request" \in d.opts THEN MapSeq(d.fwdFlows, FlowMapOut) ELSE <<>>,
     flags |-> Present(d.opts, DrbOpts \ (IF "pdcp_sn_status_info" \in d.opts THEN {}
                                          ELSE {"receive_statusof_pdcpsdu"}))]

(***************************************************************************)
(* A PDU session to setup item: id, NG UL UP TNL, the DRB list, and its   *)
(* optionals; the forwarded flows of its data forwarding request.         *)
(***************************************************************************)
SessionOut(s) ==
    [pdu_session_id |-> s.id, ng_ul_up_tnl_info |-> s.tnl,
     drb_to_setup_list_ng_ran |-> MapSeq(s.drbs, DrbOut),
     qo_s_flows_forwarded_on_fwd_tunnels |->
        IF "pdu_session_data_forwarding_info_request" \in s.opts THEN MapSeq(s.fwdFlows, FlowMapOut)
        ELSE <<>>,
     flags |-> Present(s.opts, SessOpts)]

(***************************************************************************)
(* The loop over pdu_session_res_to_setup_list: every PDU session item    *)
(* gets a bearer_request_item of its own, whose                            *)
(* pdu_session_res_to_setup_list holds that one item, and the item is     *)
(* pushed onto ng_ran_bearer_context_setup_request.                        *)
(***************************************************************************)
SessionIes(sessions) == [k \in DOMAIN sessions |-> <<SessionOut(sessions[k])>>]

(* Mutant: the DRB inactivity timer is written without its flag. *)
BuildNoDrbTimerFlag(r) ==
    [flags |-> Present(r.opts, ReqOpts),
     ng_ran_bearer_context_setup_request |->
        [k \in DOMAIN r.sessions |->
           <<[SessionOut(r.sessions[k]) EXCEPT !.drb_to_setup_list_ng_ran =
                MapSeq(r.sessions[k].drbs, LAMBDA d :
                   [DrbOut(d) EXCEPT !.flags = @ \ {Flag("drb_inactivity_timer")}])]>>]]

(* The message the function builds in its copy. *)
Build(r) ==
    [flags |-> Present(r.opts, ReqOpts),
     ng_ran_bearer_context_setup_request |-> SessionIes(r.sessions)]

(***************************************************************************)
(* fill_asn1_bearer_context_setup_request: the copy is filled; the        *)
(* caller's message is not.                                                *)
(***************************************************************************)
FillSetupRequest ==
    /\ pc = "called"
    /\ local' = Build(request)
    /\ pc' = "returned"
    /\ UNCHANGED <<request, caller>>

Next == FillSetupRequest

Spec == Init /\ [][Next]_vars

-----------------------------------------------------------------------------
Elems(s) == {s[k] : k \in DOMAIN s}

(* The PDU session items the message carries, over all of its IEs. *)
SessionsOf(msg) ==
    UNION {Elems(msg.ng_ran_bearer_context_setup_request[k])
           : k \in DOMAIN msg.ng_ran_bearer_context_setup_request}

(* Every optional field of the request, at every level, as a path to it. *)
OptionFacts(r) ==
    {<<"req", o>> : o \in r.opts}
    \cup UNION {{<<"sess", s.id, o>> : o \in s.opts}
                \cup UNION {{<<"drb", s.id, d.id, o>> : o \in d.opts}
                            \cup UNION {{<<"cg", s.id, d.id, c.id, o>> : o \in c.opts} : c \in Elems(d.cellGroups)}
                            \cup UNION {{<<"flow", s.id, d.id, f.id, o>> : o \in f.opts \cup f.charOpts}
                                        : f \in Elems(d.flows)}
                            : d \in Elems(s.drbs)}
                : s \in Elems(r.sessions)}

(* Every _present flag set in an ASN.1 message, as a path to it. *)
FlagFacts(msg) ==
    {<<"req", o>> : o \in {g[1] : g \in msg.flags}}
    \cup UNION {{<<"sess", s.pdu_session_id, g[1]>> : g \in s.flags}
                \cup UNION {{<<"drb", s.pdu_session_id, d.drb_id, g[1]>> : g \in d.flags}
                            \cup UNION {{<<"cg", s.pdu_session_id, d.drb_id, c.cell_group_id, g[1]>> : g \in c.flags}
                                        : c \in Elems(d.cell_group_info)}
                            \cup UNION {{<<"flow", s.pdu_session_id, d.drb_id, f.qo_s_flow_id, g[1]>>
                                          : g \in f.flags \cup f.characteristics_flags}
                                        : f \in Elems(d.qos_flow_info_to_be_setup)}
                            : d \in Elems(s.drb_to_setup_list_ng_ran)}
                : s \in SessionsOf(msg)}

(* Spec section 4.4, request direction: in the message the function       *)
(* builds, a _present flag is set exactly for the optional fields of the  *)
(* request that hold a value, at every level, and every PDU session is    *)
(* carried once.                                                          *)
OptionalsEncoded ==
    pc = "returned" =>
        /\ FlagFacts(local) = OptionFacts(request)
        /\ {s.pdu_session_id : s \in SessionsOf(local)} = {s.id : s \in Elems(request.sessions)}

(* The request is translated into the caller's message (spec: the         *)
(* procedure translates the request and sends it): when the function      *)
(* returns, the caller's message holds what the function built.           *)
RequestDelivered == pc = "returned" => caller = local

=============================================================================
