--------------------------- MODULE E1apTranslation ---------------------------
(***************************************************************************)
(* The translation of an E1AP bearer context setup or modification        *)
(* response into the RRC UE's response message                             *)
(* (fill_rrc_ue_bearer_context_setup_response and                         *)
(* fill_rrc_ue_bearer_context_modification_response in                    *)
(* lib/cu_cp/helpers/rrc_ue_e1ap_asn1_helpers.h).                          *)
(*                                                                         *)
(* A response item is a record with the fields the code reads; lists are  *)
(* sequences, in the order of the ASN.1 lists.  A TNL address, a cause, a *)
(* PDU session, DRB or QoS flow id is a member of a small set.  Each      *)
(* translation is one step from "received" to "done": the function runs   *)
(* to completion without suspending.                                      *)
(*                                                                         *)
(* Optional output fields.  The code fills an optional output field      *)
(* (security result, data forwarding info, NG DL UP unchanged, PDCP SN     *)
(* status) by assigning through .value() of a default-constructed, hence  *)
(* empty, optional; the optional type is not among the sources.  Its       *)
(* value() either asserts that a value is present (OnEmpty = "abort") or  *)
(* writes into the storage without engaging the optional (OnEmpty =      *)
(* "lost"): either way no output optional is ever engaged.                *)
(***************************************************************************)
EXTENDS Naturals, Sequences, FiniteSets

CONSTANTS
    SessIds,      \* PDU session ids
    DrbIds,       \* DRB ids
    FlowIds,      \* QoS flow ids
    Tnls,         \* UP TNL information (transport address and GTP-TEID)
    Causes,       \* E1AP causes
    SetupInputs,  \* the bearer context setup responses the CU-CP may receive
    ModInputs,    \* the bearer context modification responses it may receive
    OnEmpty,      \* what assigning through value() of an empty optional does
    ResDefault    \* the success flag of a default-constructed response message

(* The optional fields of an item, by name: a setup item has all three, a *)
(* setup-mod or modified item no NG DL UP unchanged.                      *)
SessOpts == {"security_result", "data_forwarding", "ng_dl_up_unchanged"}
ModSessOpts == {"security_result", "data_forwarding"}
DrbOpts == {"data_forwarding"}
DrbModOpts == {"pdcp_sn_status"}

(* The E1AP items, as far as the translation reads them.  A list is a     *)
(* sequence; an absent list reads as the empty one.                       *)
UpParamIn == [tnl : Tnls, cg : Nat]
FailedIn(ids) == [id : ids, cause : Causes]
FlowFailedIn == [flow : FlowIds, cause : Causes]
DrbIn == [id : DrbIds, ul : Seq(UpParamIn), flows : Seq(FlowIds),
          flowsFailed : Seq(FlowFailedIn), opts : SUBSET DrbOpts]
DrbModIn == [id : DrbIds, ul : Seq(UpParamIn), flows : Seq(FlowIds),
             flowsFailed : Seq(FlowFailedIn), opts : SUBSET DrbModOpts]
SessIn(opts) == [id : SessIds, ngDl : Tnls, drbs : Seq(DrbIn),
                 drbFailed : Seq(FailedIn(DrbIds)), opts : SUBSET opts]
ModifiedSessIn == [id : SessIds, ngDl : Tnls, drbs : Seq(DrbIn),
                   drbFailed : Seq(FailedIn(DrbIds)), drbModified : Seq(DrbModIn),
                   drbFailedToModify : Seq(FailedIn(DrbIds)), opts : SUBSET ModSessOpts]
SetupResponses ==
    [success : {TRUE}, setup : Seq(SessIn(SessOpts)), failedPresent : BOOLEAN,
     failed : Seq(FailedIn(SessIds))]
    \cup [success : {FALSE}, cause : Causes]
ModResponses ==
    [success : {TRUE}, sysPresent : {FALSE}]
    \cup [success : {TRUE}, sysPresent : {TRUE},
          setupMod : Seq(SessIn(ModSessOpts)), failedMod : Seq(FailedIn(SessIds)),
          modified : Seq(ModifiedSessIn), failedToModify : Seq(FailedIn(SessIds))]
    \cup [success : {FALSE}, cause : Causes]

ASSUME E1apAssumption ==
    /\ SetupInputs \subseteq SetupResponses
    /\ ModInputs \subseteq ModResponses
    /\ OnEmpty \subseteq {"abort", "lost"}
    /\ ResDefault \subseteq BOOLEAN

VARIABLES
    path,     \* "setup" or "modification": which fill function runs
    input,    \* the E1AP response
    res,      \* the RRC UE response message being filled
    onEmpty,  \* the behaviour of value() on an empty optional in this build
    pc        \* "received", "done" or "aborted"

vars == <<path, input, res, onEmpty, pc>>

(***************************************************************************)
(* e1ap_cause_to_cu_cp_cause: every E1AP cause has its CU-CP cause.       *)
(***************************************************************************)
CuCpCause(c) == <<"cu_cp", c>>

(***************************************************************************)
(* asn1_to_up_transport_layer_info: the ASN.1 transport layer address and *)
(* GTP-TEID become the fields of up_transport_layer_info.                 *)
(***************************************************************************)
UpTnlInfo(t) == [up_tnl |-> t]

(* The cause of a message no failure has been written to. *)
NoCause == <<"none", "none">>

EmptyRes(dflt) ==
    [success |-> dflt, cause |-> NoCause, setup_list |-> <<>>, failed_list |-> <<>>,
     modified_list |-> <<>>, failed_to_modify_list |-> <<>>]

(* The RRC UE response message. *)
CuCpCauses == {CuCpCause(c) : c \in Causes}
FailedOutT(ids) == [id : ids, cause : CuCpCauses]
UpParamOutT == [up_tnl_info : [up_tnl : Tnls], cell_group_id : Nat]
DrbOutT(opts) == [drb_id : DrbIds, ul_up_transport_params : Seq(UpParamOutT),
                  flow_setup_list : Seq(FlowIds),
                  flow_failed_list : Seq([qos_flow_id : FlowIds, cause : CuCpCauses]),
                  opts : SUBSET opts]
SessOutT == [pdu_session_id : SessIds, ng_dl_up_tnl_info : [up_tnl : Tnls],
             drb_setup_list : Seq(DrbOutT(DrbOpts)), drb_failed_list : Seq(FailedOutT(DrbIds)),
             drb_modified_list : Seq(DrbOutT(DrbModOpts)),
             drb_failed_to_modify_list : Seq(FailedOutT(DrbIds)), opts : SUBSET SessOpts]
ResOut == [success : BOOLEAN, cause : {NoCause} \cup CuCpCauses,
           setup_list : Seq(SessOutT), failed_list : Seq(FailedOutT(SessIds)),
           modified_list : Seq(SessOutT), failed_to_modify_list : Seq(FailedOutT(SessIds))]

TypeOK ==
    /\ path \in {"setup", "modification"}
    /\ input \in SetupResponses \cup ModResponses
    /\ res \in ResOut
    /\ onEmpty \in OnEmpty
    /\ pc \in {"received", "done", "aborted"}

Init ==
    /\ \/ path = "setup" /\ input \in SetupInputs
       \/ path = "modification" /\ input \in ModInputs
    /\ res \in {EmptyRes(d) : d \in ResDefault}
    /\ onEmpty \in OnEmpty
    /\ pc = "received"

(* The sequence of f applied to each element of s. *)
MapSeq(s, F(_)) == [k \in DOMAIN s |-> F(s[k])]

(***************************************************************************)
(* Items of the failed lists: the id and the translated cause.            *)
(***************************************************************************)
FailedOut(f) == [id |-> f.id, cause |-> CuCpCause(f.cause)]
FlowFailedOut(f) == [qos_flow_id |-> f.flow, cause |-> CuCpCause(f.cause)]

(* An output optional: never engaged, see the header. *)
OptsOut(opts) == {}

(* The UL UP transport params of the modification path: each param's own *)
(* TNL information and cell group.                                        *)
UpParamsOut(s, d) ==
    MapSeq(d.ul, LAMBDA p : [up_tnl_info |-> UpTnlInfo(p.tnl), cell_group_id |-> p.cg])

(***************************************************************************)
(* The UL UP transport params of the setup path: the TNL information put  *)
(* in every param is the PDU session's ng_dl_up_tnl_info, and only the     *)
(* cell group is the param's own.                                          *)
(***************************************************************************)
UpParamsOutSetup(s, d) ==
    MapSeq(d.ul, LAMBDA p : [up_tnl_info |-> UpTnlInfo(s.ngDl), cell_group_id |-> p.cg])

(***************************************************************************)
(* A DRB setup item: id, UL UP params, QoS flows set up and failed, and   *)
(* the data forwarding info.                                              *)
(***************************************************************************)
DrbSetupOut(d, ul) ==
    [drb_id |-> d.id, ul_up_transport_params |-> ul,
     flow_setup_list |-> d.flows,
     flow_failed_list |-> MapSeq(d.flowsFailed, FlowFailedOut),
     opts |-> OptsOut(d.opts)]

(* A DRB modified item: id, UL UP params, QoS flows set up and failed,   *)
(* and the PDCP SN status info.                                           *)
DrbModifiedOut(s, d) ==
    [drb_id |-> d.id, ul_up_transport_params |-> UpParamsOut(s, d),
     flow_setup_list |-> d.flows,
     flow_failed_list |-> MapSeq(d.flowsFailed, FlowFailedOut),
     opts |-> OptsOut(d.opts)]

(***************************************************************************)
(* A PDU session item of the setup path's success list.                   *)
(***************************************************************************)
SetupItemOut(s) ==
    [pdu_session_id |-> s.id, ng_dl_up_tnl_info |-> UpTnlInfo(s.ngDl),
     drb_setup_list |-> MapSeq(s.drbs, LAMBDA d : DrbSetupOut(d, UpParamsOutSetup(s, d))),
     drb_failed_list |-> MapSeq(s.drbFailed, FailedOut),
     drb_modified_list |-> <<>>, drb_failed_to_modify_list |-> <<>>,
     opts |-> OptsOut(s.opts)]

(* A PDU session item of the modification path's setup-mod list. *)
SetupModItemOut(s) ==
    [pdu_session_id |-> s.id, ng_dl_up_tnl_info |-> UpTnlInfo(s.ngDl),
     drb_setup_list |-> MapSeq(s.drbs, LAMBDA d : DrbSetupOut(d, UpParamsOut(s, d))),
     drb_failed_list |-> MapSeq(s.drbFailed, FailedOut),
     drb_modified_list |-> <<>>, drb_failed_to_modify_list |-> <<>>,
     opts |-> OptsOut(s.opts)]

(* Mutant: the DRB failed-to-modify list of a modified item is dropped. *)
ModifiedItemOutNoFailedToModify(s) ==
    [pdu_session_id |-> s.id, ng_dl_up_tnl_info |-> UpTnlInfo(s.ngDl),
     drb_setup_list |-> MapSeq(s.drbs, LAMBDA d : DrbSetupOut(d, UpParamsOut(s, d))),
     drb_failed_list |-> MapSeq(s.drbFailed, FailedOut),
     drb_modified_list |-> MapSeq(s.drbModified, LAMBDA d : DrbModifiedOut(s, d)),
     drb_failed_to_modify_list |-> <<>>,
     opts |-> OptsOut(s.opts)]

(* A PDU session item of the modification path's modified list. *)
ModifiedItemOut(s) ==
    [pdu_session_id |-> s.id, ng_dl_up_tnl_info |-> UpTnlInfo(s.ngDl),
     drb_setup_list |-> MapSeq(s.drbs, LAMBDA d : DrbSetupOut(d, UpParamsOut(s, d))),
     drb_failed_list |-> MapSeq(s.drbFailed, FailedOut),
     drb_modified_list |-> MapSeq(s.drbModified, LAMBDA d : DrbModifiedOut(s, d)),
     drb_failed_to_modify_list |-> MapSeq(s.drbFailedToModify, FailedOut),
     opts |-> OptsOut(s.opts)]

(* Some optional field of the response, at any level, is present. *)
HasOptional(sessions) ==
    \E k \in DOMAIN sessions :
        LET s == sessions[k] IN
        \/ s.opts # {}
        \/ \E j \in DOMAIN s.drbs : s.drbs[j].opts # {}
        \/ "drbModified" \in DOMAIN s /\ \E j \in DOMAIN s.drbModified : s.drbModified[j].opts # {}

(* Mutant: the E1AP cause is stored untranslated. *)
FailureResUntranslated == [res EXCEPT !.success = FALSE, !.cause = input.cause]

(* The failure branch of both functions: success = false and the cause. *)
FailureRes == [res EXCEPT !.success = FALSE, !.cause = CuCpCause(input.cause)]

(***************************************************************************)
(* fill_rrc_ue_bearer_context_setup_response.  On success every item of   *)
(* the setup list becomes an item of the success list and, when present,  *)
(* every item of the failed list an item of the failure list; res.success *)
(* is left as it was.  On failure success = false and the cause are set.  *)
(***************************************************************************)
FillSetupResponse ==
    /\ path = "setup" /\ pc = "received"
    /\ IF ~input.success
       THEN res' = FailureRes /\ pc' = "done"
       ELSE IF onEmpty = "abort" /\ HasOptional(input.setup)
       THEN pc' = "aborted" /\ UNCHANGED res
       ELSE /\ res' = [res EXCEPT
                 !.setup_list = MapSeq(input.setup, SetupItemOut),
                 !.failed_list = IF input.failedPresent THEN MapSeq(input.failed, FailedOut)
                                 ELSE <<>>]
            /\ pc' = "done"
    /\ UNCHANGED <<path, input, onEmpty>>

(***************************************************************************)
(* fill_rrc_ue_bearer_context_modification_response.  On success, and     *)
(* only when the NG-RAN response is present, the setup-mod and failed-mod *)
(* lists go to the success and failure lists, the modified and            *)
(* failed-to-modify lists to their own; res.success is left as it was.    *)
(***************************************************************************)
FillModificationResponse ==
    /\ path = "modification" /\ pc = "received"
    /\ IF ~input.success
       THEN res' = FailureRes /\ pc' = "done"
       ELSE IF ~input.sysPresent
       THEN pc' = "done" /\ UNCHANGED res
       ELSE IF onEmpty = "abort" /\ HasOptional(input.setupMod \o input.modified)
       THEN pc' = "aborted" /\ UNCHANGED res
       ELSE /\ res' = [res EXCEPT
                 !.setup_list = MapSeq(input.setupMod, SetupModItemOut),
                 !.failed_list = MapSeq(input.failedMod, FailedOut),
                 !.modified_list = MapSeq(input.modified, ModifiedItemOut),
                 !.failed_to_modify_list = MapSeq(input.failedToModify, FailedOut)]
            /\ pc' = "done"
    /\ UNCHANGED <<path, input, onEmpty>>

Next == FillSetupResponse \/ FillModificationResponse

Spec == Init /\ [][Next]_vars

-----------------------------------------------------------------------------
(***************************************************************************)
(* Properties.  Each compares the filled message with the E1AP response  *)
(* as sets of facts, independently of how the lists are built.            *)
(***************************************************************************)

(* The sessions an E1AP response reports set up or modified, and those  *)
(* it reports failed or failed to modify.                                  *)
InSetupSessions ==
    IF path = "setup" THEN input.setup
    ELSE IF input.sysPresent THEN input.setupMod \o input.modified ELSE <<>>
InFailedSessions ==
    IF path = "setup" THEN (IF input.failedPresent THEN input.failed ELSE <<>>)
    ELSE IF input.sysPresent THEN input.failedMod ELSE <<>>
InFailedToModify ==
    IF path = "modification" /\ input.sysPresent THEN input.failedToModify ELSE <<>>

OutSessions == res.setup_list \o res.modified_list

Elems(s) == {s[k] : k \in DOMAIN s}

(* The DRB lists of an input session, with an absent list read as empty. *)
InDrbModified(s) == IF "drbModified" \in DOMAIN s THEN s.drbModified ELSE <<>>
InDrbFailedToModify(s) == IF "drbFailedToModify" \in DOMAIN s THEN s.drbFailedToModify ELSE <<>>

(* The outcome of every DRB, as tuples <<session, list, drb[, cause]>>. *)
InDrbFacts ==
    UNION {{<<s.id, "setup", d.id>> : d \in Elems(s.drbs)}
           \cup {<<s.id, "modified", d.id>> : d \in Elems(InDrbModified(s))}
           \cup {<<s.id, "failed", f.id, CuCpCause(f.cause)>> : f \in Elems(s.drbFailed)}
           \cup {<<s.id, "failed_to_modify", f.id, CuCpCause(f.cause)>> : f \in Elems(InDrbFailedToModify(s))}
           : s \in Elems(InSetupSessions)}
OutDrbFacts ==
    UNION {{<<s.pdu_session_id, "setup", d.drb_id>> : d \in Elems(s.drb_setup_list)}
           \cup {<<s.pdu_session_id, "modified", d.drb_id>> : d \in Elems(s.drb_modified_list)}
           \cup {<<s.pdu_session_id, "failed", f.id, f.cause>> : f \in Elems(s.drb_failed_list)}
           \cup {<<s.pdu_session_id, "failed_to_modify", f.id, f.cause>> : f \in Elems(s.drb_failed_to_modify_list)}
           : s \in Elems(OutSessions)}

(* Spec section 8: a response in which some items succeed and others fail *)
(* is reported item by item.  Every PDU session the UP reports set up or  *)
(* modified is in the success or modified list, every failed one with its *)
(* cause in the failure lists, and the same holds for their DRBs; nothing *)
(* else is reported.                                                       *)
PartialResultsReported ==
    pc = "done" /\ input.success =>
        /\ {s.pdu_session_id : s \in Elems(OutSessions)} = {s.id : s \in Elems(InSetupSessions)}
        /\ Elems(res.failed_list) = {FailedOut(f) : f \in Elems(InFailedSessions)}
        /\ Elems(res.failed_to_modify_list) = {FailedOut(f) : f \in Elems(InFailedToModify)}
        /\ OutDrbFacts = InDrbFacts

(* The UL UP TNL information the RRC UE receives for a DRB set up or     *)
(* modified is the one the UP sent in that DRB's UL UP transport params,  *)
(* with its cell group.                                                   *)
UlTunnelsPreserved ==
    LET inFacts == UNION {UNION {{<<s.id, d.id, p.tnl, p.cg>> : p \in Elems(d.ul)}
                                 : d \in Elems(s.drbs) \cup Elems(InDrbModified(s))}
                          : s \in Elems(InSetupSessions)}
        outFacts == UNION {UNION {{<<s.pdu_session_id, d.drb_id, p.up_tnl_info.up_tnl, p.cell_group_id>>
                                     : p \in Elems(d.ul_up_transport_params)}
                                  : d \in Elems(s.drb_setup_list) \cup Elems(s.drb_modified_list)}
                           : s \in Elems(OutSessions)}
    IN  pc = "done" /\ input.success => outFacts = inFacts

=============================================================================
