------------------------ MODULE E1apTranslationProofs ------------------------
(***************************************************************************)
(* Proofs about E1apTranslation for every set of ids, TNLs and causes and *)
(* every E1AP response of the types the ASN.1 decoder produces: the       *)
(* filled RRC UE message is well typed, a failure carries its translated  *)
(* cause, and a successful response is reported item by item.             *)
(***************************************************************************)
EXTENDS E1apTranslation, SequenceTheorems, TLAPS

-----------------------------------------------------------------------------
(***************************************************************************)
(* The types of the translated items.                                      *)
(***************************************************************************)

(* A function on 1..n into T is a sequence over T. *)
LEMMA FunIsSeq ==
    ASSUME NEW T, NEW n \in Nat, NEW f \in [1..n -> T]
    PROVE  f \in Seq(T)
BY SeqDef

(* A function on the positions of a sequence into T is a sequence over T. *)
LEMMA MapIsSeq ==
    ASSUME NEW S, NEW T, NEW l \in Seq(S), NEW f \in [DOMAIN l -> T]
    PROVE  f \in Seq(T)
<1>1. Len(l) \in Nat /\ DOMAIN l = 1..Len(l)
  BY LenProperties
<1>2. QED
  BY <1>1, FunIsSeq

(* An element of a sequence over S is in S. *)
LEMMA SeqElem ==
    ASSUME NEW S, NEW l \in Seq(S), NEW k \in DOMAIN l
    PROVE  l[k] \in S
BY LenProperties, ElementOfSeq

LEMMA CuCpCauseType ==
    ASSUME NEW c \in Causes
    PROVE  CuCpCause(c) \in CuCpCauses
BY DEF CuCpCauses

LEMMA FailedListType ==
    ASSUME NEW ids, NEW l \in Seq(FailedIn(ids))
    PROVE  MapSeq(l, FailedOut) \in Seq(FailedOutT(ids))
<1>1. ASSUME NEW k \in DOMAIN l PROVE FailedOut(l[k]) \in FailedOutT(ids)
  <2>1. l[k] \in FailedIn(ids)
    BY SeqElem
  <2>2. QED
    BY <2>1 DEF FailedOut, FailedOutT, FailedIn, CuCpCauses, CuCpCause
<1>2. QED
  BY <1>1, MapIsSeq DEF MapSeq

LEMMA FlowFailedListType ==
    ASSUME NEW l \in Seq(FlowFailedIn)
    PROVE  MapSeq(l, FlowFailedOut) \in Seq([qos_flow_id : FlowIds, cause : CuCpCauses])
<1>1. ASSUME NEW k \in DOMAIN l
      PROVE  FlowFailedOut(l[k]) \in [qos_flow_id : FlowIds, cause : CuCpCauses]
  <2>1. l[k] \in FlowFailedIn
    BY SeqElem
  <2>2. QED
    BY <2>1 DEF FlowFailedOut, FlowFailedIn, CuCpCauses, CuCpCause
<1>2. QED
  BY <1>1, MapIsSeq DEF MapSeq

LEMMA UpParamsOutType ==
    ASSUME NEW s, NEW d, d.ul \in Seq(UpParamIn)
    PROVE  /\ UpParamsOut(s, d) \in Seq(UpParamOutT)
           /\ s.ngDl \in Tnls => UpParamsOutSetup(s, d) \in Seq(UpParamOutT)
<1>1. UpParamsOut(s, d) \in Seq(UpParamOutT)
  <2>1. ASSUME NEW k \in DOMAIN d.ul
        PROVE  [up_tnl_info |-> UpTnlInfo(d.ul[k].tnl), cell_group_id |-> d.ul[k].cg] \in UpParamOutT
    <3>1. d.ul[k] \in UpParamIn
      BY SeqElem
    <3>2. QED
      BY <3>1 DEF UpParamIn, UpParamOutT, UpTnlInfo
  <2>2. QED
    BY <2>1, MapIsSeq DEF UpParamsOut, MapSeq
<1>2. ASSUME s.ngDl \in Tnls PROVE UpParamsOutSetup(s, d) \in Seq(UpParamOutT)
  <2>1. ASSUME NEW k \in DOMAIN d.ul
        PROVE  [up_tnl_info |-> UpTnlInfo(s.ngDl), cell_group_id |-> d.ul[k].cg] \in UpParamOutT
    <3>1. d.ul[k] \in UpParamIn
      BY SeqElem
    <3>2. QED
      BY <1>2, <3>1 DEF UpParamIn, UpParamOutT, UpTnlInfo
  <2>2. QED
    BY <2>1, MapIsSeq DEF UpParamsOutSetup, MapSeq
<1>3. QED
  BY <1>1, <1>2

LEMMA DrbSetupOutType ==
    ASSUME NEW d \in DrbIn, NEW ul \in Seq(UpParamOutT)
    PROVE  DrbSetupOut(d, ul) \in DrbOutT(DrbOpts)
BY FlowFailedListType DEF DrbSetupOut, DrbOutT, DrbIn, OptsOut

LEMMA DrbModifiedOutType ==
    ASSUME NEW s, NEW d \in DrbModIn
    PROVE  DrbModifiedOut(s, d) \in DrbOutT(DrbModOpts)
BY FlowFailedListType, UpParamsOutType DEF DrbModifiedOut, DrbOutT, DrbModIn, OptsOut

LEMMA DrbListType ==
    ASSUME NEW s, s.ngDl \in Tnls, NEW l \in Seq(DrbIn)
    PROVE  /\ [k \in DOMAIN l |-> DrbSetupOut(l[k], UpParamsOutSetup(s, l[k]))]
              \in Seq(DrbOutT(DrbOpts))
           /\ [k \in DOMAIN l |-> DrbSetupOut(l[k], UpParamsOut(s, l[k]))] \in Seq(DrbOutT(DrbOpts))
<1>1. ASSUME NEW k \in DOMAIN l
      PROVE  /\ DrbSetupOut(l[k], UpParamsOutSetup(s, l[k])) \in DrbOutT(DrbOpts)
             /\ DrbSetupOut(l[k], UpParamsOut(s, l[k])) \in DrbOutT(DrbOpts)
  <2>1. l[k] \in DrbIn
    BY SeqElem
  <2>2. l[k].ul \in Seq(UpParamIn)
    BY <2>1 DEF DrbIn
  <2>3. QED
    BY <2>1, <2>2, UpParamsOutType, DrbSetupOutType
<1>2. QED
  BY <1>1, MapIsSeq DEF MapSeq

LEMMA DrbModListType ==
    ASSUME NEW s, NEW l \in Seq(DrbModIn)
    PROVE  [k \in DOMAIN l |-> DrbModifiedOut(s, l[k])] \in Seq(DrbOutT(DrbModOpts))
<1>1. ASSUME NEW k \in DOMAIN l PROVE DrbModifiedOut(s, l[k]) \in DrbOutT(DrbModOpts)
  BY SeqElem, DrbModifiedOutType
<1>2. QED
  BY <1>1, MapIsSeq DEF MapSeq

(* The translated PDU session items, of each of the three input kinds. *)
LEMMA SessionItemTypes ==
    /\ \A s \in SessIn(SessOpts) : SetupItemOut(s) \in SessOutT
    /\ \A s \in SessIn(ModSessOpts) : SetupModItemOut(s) \in SessOutT
    /\ \A s \in ModifiedSessIn : ModifiedItemOut(s) \in SessOutT
<1>1. ASSUME NEW s \in SessIn(SessOpts) PROVE SetupItemOut(s) \in SessOutT
  <2>1. s.ngDl \in Tnls /\ s.drbs \in Seq(DrbIn) /\ s.drbFailed \in Seq(FailedIn(DrbIds))
    BY DEF SessIn
  <2>2. [k \in DOMAIN s.drbs |-> DrbSetupOut(s.drbs[k], UpParamsOutSetup(s, s.drbs[k]))]
        \in Seq(DrbOutT(DrbOpts))
    BY <2>1, DrbListType
  <2>3. MapSeq(s.drbFailed, FailedOut) \in Seq(FailedOutT(DrbIds))
    BY <2>1, FailedListType
  <2>4. << >> \in Seq(DrbOutT(DrbModOpts)) /\ << >> \in Seq(FailedOutT(DrbIds))
    BY EmptySeq
  <2>5. QED
    BY <2>1, <2>2, <2>3, <2>4 DEF SetupItemOut, SessOutT, SessIn, MapSeq, UpTnlInfo, OptsOut
<1>2. ASSUME NEW s \in SessIn(ModSessOpts) PROVE SetupModItemOut(s) \in SessOutT
  <2>1. s.ngDl \in Tnls /\ s.drbs \in Seq(DrbIn) /\ s.drbFailed \in Seq(FailedIn(DrbIds))
    BY DEF SessIn
  <2>2. [k \in DOMAIN s.drbs |-> DrbSetupOut(s.drbs[k], UpParamsOut(s, s.drbs[k]))]
        \in Seq(DrbOutT(DrbOpts))
    BY <2>1, DrbListType
  <2>3. MapSeq(s.drbFailed, FailedOut) \in Seq(FailedOutT(DrbIds))
    BY <2>1, FailedListType
  <2>4. << >> \in Seq(DrbOutT(DrbModOpts)) /\ << >> \in Seq(FailedOutT(DrbIds))
    BY EmptySeq
  <2>5. QED
    BY <2>1, <2>2, <2>3, <2>4 DEF SetupModItemOut, SessOutT, SessIn, MapSeq, UpTnlInfo, OptsOut
<1>3. ASSUME NEW s \in ModifiedSessIn PROVE ModifiedItemOut(s) \in SessOutT
  <2>1. /\ s.ngDl \in Tnls /\ s.drbs \in Seq(DrbIn) /\ s.drbFailed \in Seq(FailedIn(DrbIds))
        /\ s.drbModified \in Seq(DrbModIn) /\ s.drbFailedToModify \in Seq(FailedIn(DrbIds))
    BY DEF ModifiedSessIn
  <2>2. [k \in DOMAIN s.drbs |-> DrbSetupOut(s.drbs[k], UpParamsOut(s, s.drbs[k]))]
        \in Seq(DrbOutT(DrbOpts))
    BY <2>1, DrbListType
  <2>3. /\ MapSeq(s.drbFailed, FailedOut) \in Seq(FailedOutT(DrbIds))
        /\ MapSeq(s.drbFailedToModify, FailedOut) \in Seq(FailedOutT(DrbIds))
    BY <2>1, FailedListType
  <2>4. [k \in DOMAIN s.drbModified |-> DrbModifiedOut(s, s.drbModified[k])]
        \in Seq(DrbOutT(DrbModOpts))
    BY <2>1, DrbModListType
  <2>5. QED
    BY <2>1, <2>2, <2>3, <2>4 DEF ModifiedItemOut, SessOutT, ModifiedSessIn, MapSeq, UpTnlInfo, OptsOut
<1>4. QED
  BY <1>1, <1>2, <1>3

(* The session lists of the response message. *)
LEMMA SessionListTypes ==
    /\ \A l \in Seq(SessIn(SessOpts)) : MapSeq(l, SetupItemOut) \in Seq(SessOutT)
    /\ \A l \in Seq(SessIn(ModSessOpts)) : MapSeq(l, SetupModItemOut) \in Seq(SessOutT)
    /\ \A l \in Seq(ModifiedSessIn) : MapSeq(l, ModifiedItemOut) \in Seq(SessOutT)
<1>1. ASSUME NEW l \in Seq(SessIn(SessOpts)) PROVE MapSeq(l, SetupItemOut) \in Seq(SessOutT)
  <2>1. \A k \in DOMAIN l : SetupItemOut(l[k]) \in SessOutT
    BY SeqElem, SessionItemTypes
  <2>2. QED
    BY <2>1, MapIsSeq DEF MapSeq
<1>2. ASSUME NEW l \in Seq(SessIn(ModSessOpts)) PROVE MapSeq(l, SetupModItemOut) \in Seq(SessOutT)
  <2>1. \A k \in DOMAIN l : SetupModItemOut(l[k]) \in SessOutT
    BY SeqElem, SessionItemTypes
  <2>2. QED
    BY <2>1, MapIsSeq DEF MapSeq
<1>3. ASSUME NEW l \in Seq(ModifiedSessIn) PROVE MapSeq(l, ModifiedItemOut) \in Seq(SessOutT)
  <2>1. \A k \in DOMAIN l : ModifiedItemOut(l[k]) \in SessOutT
    BY SeqElem, SessionItemTypes
  <2>2. QED
    BY <2>1, MapIsSeq DEF MapSeq
<1>4. QED
  BY <1>1, <1>2, <1>3

-----------------------------------------------------------------------------
(***************************************************************************)
(* The DRB outcomes of one PDU session item, in and out.                   *)
(***************************************************************************)

(* The DRB facts InDrbFacts collects from the input session s. *)
InDrbFactsOf(s) ==
    {<<s.id, "setup", d.id>> : d \in Elems(s.drbs)}
    \cup {<<s.id, "modified", d.id>> : d \in Elems(InDrbModified(s))}
    \cup {<<s.id, "failed", f.id, CuCpCause(f.cause)>> : f \in Elems(s.drbFailed)}
    \cup {<<s.id, "failed_to_modify", f.id, CuCpCause(f.cause)>> : f \in Elems(InDrbFailedToModify(s))}

(* The DRB facts OutDrbFacts collects from the output session item s. *)
OutDrbFactsOf(s) ==
    {<<s.pdu_session_id, "setup", d.drb_id>> : d \in Elems(s.drb_setup_list)}
    \cup {<<s.pdu_session_id, "modified", d.drb_id>> : d \in Elems(s.drb_modified_list)}
    \cup {<<s.pdu_session_id, "failed", f.id, f.cause>> : f \in Elems(s.drb_failed_list)}
    \cup {<<s.pdu_session_id, "failed_to_modify", f.id, f.cause>>
          : f \in Elems(s.drb_failed_to_modify_list)}

LEMMA DrbFactsUnion ==
    /\ InDrbFacts' = UNION {InDrbFactsOf(s) : s \in Elems(InSetupSessions')}
    /\ OutDrbFacts' = UNION {OutDrbFactsOf(s) : s \in Elems(OutSessions')}
BY DEF InDrbFacts, InDrbFactsOf, OutDrbFacts, OutDrbFactsOf

(* A list of failed items built item by item from l keeps the ids and     *)
(* carries the translated causes.                                         *)
LEMMA FailedFacts ==
    ASSUME NEW a, NEW b, NEW l
    PROVE  {<<a, b, f.id, f.cause>> : f \in Elems(MapSeq(l, FailedOut))}
           = {<<a, b, f.id, CuCpCause(f.cause)>> : f \in Elems(l)}
<1>1. {<<a, b, f.id, f.cause>> : f \in Elems(MapSeq(l, FailedOut))}
      = {<<a, b, MapSeq(l, FailedOut)[k].id, MapSeq(l, FailedOut)[k].cause>> : k \in DOMAIN l}
  BY DEF Elems, MapSeq
<1>2. \A k \in DOMAIN l : /\ MapSeq(l, FailedOut)[k].id = l[k].id
                          /\ MapSeq(l, FailedOut)[k].cause = CuCpCause(l[k].cause)
  BY DEF MapSeq, FailedOut
<1>3. {<<a, b, f.id, CuCpCause(f.cause)>> : f \in Elems(l)}
      = {<<a, b, l[k].id, CuCpCause(l[k].cause)>> : k \in DOMAIN l}
  BY DEF Elems
<1>4. QED
  BY <1>1, <1>2, <1>3

(* A setup item reports the session's DRBs set up and failed, and none   *)
(* modified.                                                               *)
LEMMA SetupItemFacts ==
    ASSUME NEW s \in SessIn(SessOpts)
    PROVE  /\ SetupItemOut(s).pdu_session_id = s.id
           /\ OutDrbFactsOf(SetupItemOut(s)) = InDrbFactsOf(s)
<1>1. /\ SetupItemOut(s).pdu_session_id = s.id
      /\ SetupItemOut(s).drb_modified_list = << >>
      /\ SetupItemOut(s).drb_failed_to_modify_list = << >>
      /\ SetupItemOut(s).drb_failed_list = MapSeq(s.drbFailed, FailedOut)
  BY DEF SetupItemOut
<1>2. /\ DOMAIN SetupItemOut(s).drb_setup_list = DOMAIN s.drbs
      /\ \A j \in DOMAIN s.drbs : SetupItemOut(s).drb_setup_list[j].drb_id = s.drbs[j].id
  BY DEF SetupItemOut, MapSeq, DrbSetupOut
<1>3. {<<s.id, "setup", d.drb_id>> : d \in Elems(SetupItemOut(s).drb_setup_list)}
      = {<<s.id, "setup", d.id>> : d \in Elems(s.drbs)}
  <2>1. {<<s.id, "setup", d.drb_id>> : d \in Elems(SetupItemOut(s).drb_setup_list)}
        = {<<s.id, "setup", SetupItemOut(s).drb_setup_list[j].drb_id>>
           : j \in DOMAIN SetupItemOut(s).drb_setup_list}
    BY DEF Elems
  <2>2. {<<s.id, "setup", d.id>> : d \in Elems(s.drbs)} = {<<s.id, "setup", s.drbs[j].id>> : j \in DOMAIN s.drbs}
    BY DEF Elems
  <2>3. QED
    BY <1>2, <2>1, <2>2
<1>4. InDrbModified(s) = << >> /\ InDrbFailedToModify(s) = << >>
  BY DEF SessIn, InDrbModified, InDrbFailedToModify
<1>5. Elems(<< >>) = {}
  BY DEF Elems
<1>6. QED
  BY <1>1, <1>3, <1>4, <1>5, FailedFacts DEF OutDrbFactsOf, InDrbFactsOf

(* So does a setup-mod item of the modification path. *)
LEMMA SetupModItemFacts ==
    ASSUME NEW s \in SessIn(ModSessOpts)
    PROVE  /\ SetupModItemOut(s).pdu_session_id = s.id
           /\ OutDrbFactsOf(SetupModItemOut(s)) = InDrbFactsOf(s)
<1>1. /\ SetupModItemOut(s).pdu_session_id = s.id
      /\ SetupModItemOut(s).drb_modified_list = << >>
      /\ SetupModItemOut(s).drb_failed_to_modify_list = << >>
      /\ SetupModItemOut(s).drb_failed_list = MapSeq(s.drbFailed, FailedOut)
  BY DEF SetupModItemOut
<1>2. /\ DOMAIN SetupModItemOut(s).drb_setup_list = DOMAIN s.drbs
      /\ \A j \in DOMAIN s.drbs : SetupModItemOut(s).drb_setup_list[j].drb_id = s.drbs[j].id
  BY DEF SetupModItemOut, MapSeq, DrbSetupOut
<1>3. {<<s.id, "setup", d.drb_id>> : d \in Elems(SetupModItemOut(s).drb_setup_list)}
      = {<<s.id, "setup", d.id>> : d \in Elems(s.drbs)}
  <2>1. {<<s.id, "setup", d.drb_id>> : d \in Elems(SetupModItemOut(s).drb_setup_list)}
        = {<<s.id, "setup", SetupModItemOut(s).drb_setup_list[j].drb_id>>
           : j \in DOMAIN SetupModItemOut(s).drb_setup_list}
    BY DEF Elems
  <2>2. {<<s.id, "setup", d.id>> : d \in Elems(s.drbs)} = {<<s.id, "setup", s.drbs[j].id>> : j \in DOMAIN s.drbs}
    BY DEF Elems
  <2>3. QED
    BY <1>2, <2>1, <2>2
<1>4. InDrbModified(s) = << >> /\ InDrbFailedToModify(s) = << >>
  BY DEF SessIn, InDrbModified, InDrbFailedToModify
<1>5. Elems(<< >>) = {}
  BY DEF Elems
<1>6. QED
  BY <1>1, <1>3, <1>4, <1>5, FailedFacts DEF OutDrbFactsOf, InDrbFactsOf

(* A modified item reports all four DRB lists of the session. *)
LEMMA ModifiedItemFacts ==
    ASSUME NEW s \in ModifiedSessIn
    PROVE  /\ ModifiedItemOut(s).pdu_session_id = s.id
           /\ OutDrbFactsOf(ModifiedItemOut(s)) = InDrbFactsOf(s)
<1>1. /\ ModifiedItemOut(s).pdu_session_id = s.id
      /\ ModifiedItemOut(s).drb_failed_list = MapSeq(s.drbFailed, FailedOut)
      /\ ModifiedItemOut(s).drb_failed_to_modify_list = MapSeq(s.drbFailedToModify, FailedOut)
  BY DEF ModifiedItemOut
<1>2. /\ DOMAIN ModifiedItemOut(s).drb_setup_list = DOMAIN s.drbs
      /\ \A j \in DOMAIN s.drbs : ModifiedItemOut(s).drb_setup_list[j].drb_id = s.drbs[j].id
      /\ DOMAIN ModifiedItemOut(s).drb_modified_list = DOMAIN s.drbModified
      /\ \A j \in DOMAIN s.drbModified :
            ModifiedItemOut(s).drb_modified_list[j].drb_id = s.drbModified[j].id
  BY DEF ModifiedItemOut, MapSeq, DrbSetupOut, DrbModifiedOut
<1>3. /\ {<<s.id, "setup", d.drb_id>> : d \in Elems(ModifiedItemOut(s).drb_setup_list)}
         = {<<s.id, "setup", d.id>> : d \in Elems(s.drbs)}
      /\ {<<s.id, "modified", d.drb_id>> : d \in Elems(ModifiedItemOut(s).drb_modified_list)}
         = {<<s.id, "modified", d.id>> : d \in Elems(s.drbModified)}
  <2>1. {<<s.id, "setup", d.drb_id>> : d \in Elems(ModifiedItemOut(s).drb_setup_list)}
        = {<<s.id, "setup", d.id>> : d \in Elems(s.drbs)}
    <3>1. {<<s.id, "setup", d.drb_id>> : d \in Elems(ModifiedItemOut(s).drb_setup_list)}
          = {<<s.id, "setup", ModifiedItemOut(s).drb_setup_list[j].drb_id>>
             : j \in DOMAIN ModifiedItemOut(s).drb_setup_list}
      BY DEF Elems
    <3>2. {<<s.id, "setup", d.id>> : d \in Elems(s.drbs)} = {<<s.id, "setup", s.drbs[j].id>> : j \in DOMAIN s.drbs}
      BY DEF Elems
    <3>3. QED
      BY <1>2, <3>1, <3>2
  <2>2. {<<s.id, "modified", d.drb_id>> : d \in Elems(ModifiedItemOut(s).drb_modified_list)}
        = {<<s.id, "modified", d.id>> : d \in Elems(s.drbModified)}
    <3>1. {<<s.id, "modified", d.drb_id>> : d \in Elems(ModifiedItemOut(s).drb_modified_list)}
          = {<<s.id, "modified", ModifiedItemOut(s).drb_modified_list[j].drb_id>>
             : j \in DOMAIN ModifiedItemOut(s).drb_modified_list}
      BY DEF Elems
    <3>2. {<<s.id, "modified", d.id>> : d \in Elems(s.drbModified)} = {<<s.id, "modified", s.drbModified[j].id>> : j \in DOMAIN s.drbModified}
      BY DEF Elems
    <3>3. QED
      BY <1>2, <3>1, <3>2
  <2>3. QED
    BY <2>1, <2>2
<1>4. InDrbModified(s) = s.drbModified /\ InDrbFailedToModify(s) = s.drbFailedToModify
  BY DEF ModifiedSessIn, InDrbModified, InDrbFailedToModify
<1>5. QED
  BY <1>1, <1>3, <1>4, FailedFacts DEF OutDrbFactsOf, InDrbFactsOf

(* The setup list reports the ids and the DRB outcomes of its input items. *)
LEMMA SetupListFacts ==
    ASSUME NEW l \in Seq(SessIn(SessOpts))
    PROVE  /\ {o.pdu_session_id : o \in Elems(MapSeq(l, SetupItemOut))} = {x.id : x \in Elems(l)}
           /\ UNION {OutDrbFactsOf(o) : o \in Elems(MapSeq(l, SetupItemOut))}
              = UNION {InDrbFactsOf(x) : x \in Elems(l)}
<1>1. Elems(MapSeq(l, SetupItemOut)) = {SetupItemOut(x) : x \in Elems(l)}
  BY DEF Elems, MapSeq
<1>2. \A x \in Elems(l) : x \in SessIn(SessOpts)
  BY SeqElem DEF Elems
<1>3. \A x \in Elems(l) : /\ SetupItemOut(x).pdu_session_id = x.id
                          /\ OutDrbFactsOf(SetupItemOut(x)) = InDrbFactsOf(x)
  BY <1>2, SetupItemFacts
<1>4. QED
  BY <1>1, <1>3

(* The setup-mod list reports the ids and the DRB outcomes of its input items. *)
LEMMA SetupModListFacts ==
    ASSUME NEW l \in Seq(SessIn(ModSessOpts))
    PROVE  /\ {o.pdu_session_id : o \in Elems(MapSeq(l, SetupModItemOut))} = {x.id : x \in Elems(l)}
           /\ UNION {OutDrbFactsOf(o) : o \in Elems(MapSeq(l, SetupModItemOut))}
              = UNION {InDrbFactsOf(x) : x \in Elems(l)}
<1>1. Elems(MapSeq(l, SetupModItemOut)) = {SetupModItemOut(x) : x \in Elems(l)}
  BY DEF Elems, MapSeq
<1>2. \A x \in Elems(l) : x \in SessIn(ModSessOpts)
  BY SeqElem DEF Elems
<1>3. \A x \in Elems(l) : /\ SetupModItemOut(x).pdu_session_id = x.id
                          /\ OutDrbFactsOf(SetupModItemOut(x)) = InDrbFactsOf(x)
  BY <1>2, SetupModItemFacts
<1>4. QED
  BY <1>1, <1>3

(* The modified list reports the ids and the DRB outcomes of its input items. *)
LEMMA ModifiedListFacts ==
    ASSUME NEW l \in Seq(ModifiedSessIn)
    PROVE  /\ {o.pdu_session_id : o \in Elems(MapSeq(l, ModifiedItemOut))} = {x.id : x \in Elems(l)}
           /\ UNION {OutDrbFactsOf(o) : o \in Elems(MapSeq(l, ModifiedItemOut))}
              = UNION {InDrbFactsOf(x) : x \in Elems(l)}
<1>1. Elems(MapSeq(l, ModifiedItemOut)) = {ModifiedItemOut(x) : x \in Elems(l)}
  BY DEF Elems, MapSeq
<1>2. \A x \in Elems(l) : x \in ModifiedSessIn
  BY SeqElem DEF Elems
<1>3. \A x \in Elems(l) : /\ ModifiedItemOut(x).pdu_session_id = x.id
                          /\ OutDrbFactsOf(ModifiedItemOut(x)) = InDrbFactsOf(x)
  BY <1>2, ModifiedItemFacts
<1>4. QED
  BY <1>1, <1>3

-----------------------------------------------------------------------------
(***************************************************************************)
(* The inductive invariant.  Each translation is one step from            *)
(* "received"; the properties are established by that step and kept by   *)
(* the stuttering steps after it.                                          *)
(***************************************************************************)

(* The E1AP response is of the kind the running fill function reads. *)
InputOK ==
    /\ path = "setup" => input \in SetupResponses
    /\ path = "modification" => input \in ModResponses

(* Before the call, the response message holds no item. *)
Fresh ==
    pc = "received" =>
        /\ res.setup_list = << >> /\ res.failed_list = << >>
        /\ res.modified_list = << >> /\ res.failed_to_modify_list = << >>

IInv == TypeOK /\ InputOK /\ Fresh /\ PartialResultsReported

LEMMA InitIInv == Init => IInv
<1> SUFFICES ASSUME Init PROVE IInv
  OBVIOUS
<1>1. PICK d \in ResDefault : res = EmptyRes(d)
  BY DEF Init
<1>2. res \in ResOut
  BY <1>1, E1apAssumption, EmptySeq DEF EmptyRes, ResOut
<1>3. TypeOK /\ InputOK
  BY <1>2, E1apAssumption DEF Init, TypeOK, InputOK
<1>4. QED
  BY <1>1, <1>3 DEF Init, IInv, Fresh, EmptyRes, PartialResultsReported

(* The failure branch of either function. *)
LEMMA FailureStep ==
    ASSUME IInv, pc = "received", ~input.success, input \in [success : {FALSE}, cause : Causes],
           res' = FailureRes, pc' = "done", UNCHANGED <<path, input, onEmpty>>
    PROVE  IInv'
<1>1. TypeOK /\ InputOK /\ Fresh
  BY DEF IInv
<1>2. res' \in ResOut
  BY <1>1 DEF FailureRes, ResOut, TypeOK, CuCpCauses
<1>3. TypeOK' /\ InputOK' /\ Fresh'
  BY <1>1, <1>2 DEF TypeOK, InputOK, Fresh
<1>5. PartialResultsReported'
  BY DEF PartialResultsReported
<1>6. QED
  BY <1>3, <1>5 DEF IInv

(* A call that aborts in value() leaves the message as it was. *)
LEMMA AbortStep ==
    ASSUME IInv, pc = "received", pc' = "aborted", UNCHANGED <<path, input, onEmpty, res>>
    PROVE  IInv'
BY DEF IInv, TypeOK, InputOK, Fresh, PartialResultsReported

(* The success branch of fill_rrc_ue_bearer_context_setup_response. *)
LEMMA SetupSuccessStep ==
    ASSUME IInv, path = "setup", pc = "received",
           input \in [success : {TRUE}, setup : Seq(SessIn(SessOpts)), failedPresent : BOOLEAN,
                      failed : Seq(FailedIn(SessIds))],
           res' = [res EXCEPT
                     !.setup_list = MapSeq(input.setup, SetupItemOut),
                     !.failed_list = IF input.failedPresent THEN MapSeq(input.failed, FailedOut)
                                     ELSE << >>],
           pc' = "done", UNCHANGED <<path, input, onEmpty>>
    PROVE  IInv'
<1>1. TypeOK /\ InputOK /\ Fresh
  BY DEF IInv
<1>2. /\ MapSeq(input.setup, SetupItemOut) \in Seq(SessOutT)
      /\ MapSeq(input.failed, FailedOut) \in Seq(FailedOutT(SessIds))
      /\ << >> \in Seq(FailedOutT(SessIds))
  BY SessionListTypes, FailedListType, EmptySeq
<1>3. /\ res'.setup_list = MapSeq(input.setup, SetupItemOut)
      /\ res'.failed_list = IF input.failedPresent THEN MapSeq(input.failed, FailedOut) ELSE << >>
      /\ res'.modified_list = << >> /\ res'.failed_to_modify_list = << >>
  BY <1>1 DEF Fresh, TypeOK, ResOut
<1>4. TypeOK' /\ InputOK' /\ Fresh'
  <2>1. res' \in ResOut
    BY <1>1, <1>2 DEF TypeOK, ResOut
  <2>2. QED
    BY <1>1, <2>1 DEF TypeOK, InputOK, Fresh
<1>6. PartialResultsReported'
  <2>1. OutSessions' = MapSeq(input.setup, SetupItemOut)
    BY <1>2, <1>3, ConcatEmptySeq DEF OutSessions
  <2>2. /\ InSetupSessions' = input.setup
        /\ InFailedSessions' = IF input.failedPresent THEN input.failed ELSE << >>
        /\ InFailedToModify' = << >>
    BY DEF InSetupSessions, InFailedSessions, InFailedToModify
  <2>3. {s.pdu_session_id : s \in Elems(OutSessions')} = {s.id : s \in Elems(InSetupSessions')}
    BY <2>1, <2>2, SetupListFacts
  <2>4. Elems(res'.failed_list) = {FailedOut(f) : f \in Elems(InFailedSessions')}
    <3>1. Elems(MapSeq(input.failed, FailedOut)) = {FailedOut(f) : f \in Elems(input.failed)}
      BY DEF Elems, MapSeq
    <3>2. Elems(<< >>) = {}
      BY DEF Elems
    <3>3. CASE input.failedPresent
      BY <1>3, <2>2, <3>1, <3>3
    <3>4. CASE ~input.failedPresent
      BY <1>3, <2>2, <3>2, <3>4
    <3>5. QED
      BY <3>3, <3>4
  <2>5. Elems(res'.failed_to_modify_list) = {FailedOut(f) : f \in Elems(InFailedToModify')}
    BY <1>3, <2>2 DEF Elems
  <2>6. OutDrbFacts' = InDrbFacts'
    BY <2>1, <2>2, SetupListFacts, DrbFactsUnion
  <2>7. QED
    BY <2>3, <2>4, <2>5, <2>6 DEF PartialResultsReported
<1>7. QED
  BY <1>4, <1>6 DEF IInv

(* The union of a union of two sets of sets is the union of their unions. *)
LEMMA UnionCup ==
    ASSUME NEW X, NEW Y
    PROVE  UNION (X \cup Y) = (UNION X) \cup (UNION Y)
<1>1. ASSUME NEW z
      PROVE  z \in UNION (X \cup Y) <=> z \in (UNION X) \cup (UNION Y)
  <2>1. z \in UNION (X \cup Y) <=> \E W \in X \cup Y : z \in W
    OBVIOUS
  <2>2. z \in (UNION X) \cup (UNION Y) <=> (\E W \in X : z \in W) \/ (\E W \in Y : z \in W)
    OBVIOUS
  <2>3. QED
    BY <2>1, <2>2
<1>2. QED
  BY <1>1

(* The image of a union of two sets is the union of their images. *)
LEMMA ImageOfUnion ==
    ASSUME NEW G(_), NEW A, NEW B
    PROVE  {G(x) : x \in A \cup B} = {G(x) : x \in A} \cup {G(x) : x \in B}
BY Zenon

(* The elements of a concatenation are those of its two parts. *)
LEMMA ElemsConcat ==
    ASSUME NEW S, NEW T, NEW a \in Seq(S), NEW b \in Seq(T)
    PROVE  Elems(a \o b) = Elems(a) \cup Elems(b)
<1>1. a \in Seq(S \cup T) /\ b \in Seq(S \cup T)
  BY SeqMonotonic
<1>2. Range(a \o b) = Range(a) \cup Range(b)
  BY <1>1, RangeConcatenation
<1>3. QED
  BY <1>2 DEF Elems, Range

(* The success branch of fill_rrc_ue_bearer_context_modification_response *)
(* with the NG-RAN response present.                                       *)
LEMMA ModSuccessStep ==
    ASSUME IInv, path = "modification", pc = "received",
           input \in [success : {TRUE}, sysPresent : {TRUE},
                      setupMod : Seq(SessIn(ModSessOpts)), failedMod : Seq(FailedIn(SessIds)),
                      modified : Seq(ModifiedSessIn), failedToModify : Seq(FailedIn(SessIds))],
           res' = [res EXCEPT
                     !.setup_list = MapSeq(input.setupMod, SetupModItemOut),
                     !.failed_list = MapSeq(input.failedMod, FailedOut),
                     !.modified_list = MapSeq(input.modified, ModifiedItemOut),
                     !.failed_to_modify_list = MapSeq(input.failedToModify, FailedOut)],
           pc' = "done", UNCHANGED <<path, input, onEmpty>>
    PROVE  IInv'
<1>1. TypeOK /\ InputOK /\ Fresh
  BY DEF IInv
<1>2. /\ MapSeq(input.setupMod, SetupModItemOut) \in Seq(SessOutT)
      /\ MapSeq(input.modified, ModifiedItemOut) \in Seq(SessOutT)
      /\ MapSeq(input.failedMod, FailedOut) \in Seq(FailedOutT(SessIds))
      /\ MapSeq(input.failedToModify, FailedOut) \in Seq(FailedOutT(SessIds))
  BY SessionListTypes, FailedListType
<1>3. /\ res'.setup_list = MapSeq(input.setupMod, SetupModItemOut)
      /\ res'.failed_list = MapSeq(input.failedMod, FailedOut)
      /\ res'.modified_list = MapSeq(input.modified, ModifiedItemOut)
      /\ res'.failed_to_modify_list = MapSeq(input.failedToModify, FailedOut)
  BY <1>1 DEF TypeOK, ResOut
<1>4. TypeOK' /\ InputOK' /\ Fresh'
  <2>1. res' \in ResOut
    BY <1>1, <1>2 DEF TypeOK, ResOut
  <2>2. QED
    BY <1>1, <2>1 DEF TypeOK, InputOK, Fresh
<1>6. PartialResultsReported'
  <2>1. Elems(OutSessions') = Elems(MapSeq(input.setupMod, SetupModItemOut))
                              \cup Elems(MapSeq(input.modified, ModifiedItemOut))
    BY <1>2, <1>3, ElemsConcat DEF OutSessions
  <2>2. /\ InSetupSessions' = input.setupMod \o input.modified
        /\ InFailedSessions' = input.failedMod
        /\ InFailedToModify' = input.failedToModify
    BY DEF InSetupSessions, InFailedSessions, InFailedToModify
  <2>8. Elems(InSetupSessions') = Elems(input.setupMod) \cup Elems(input.modified)
    <3>1. input.setupMod \in Seq(SessIn(ModSessOpts)) /\ input.modified \in Seq(ModifiedSessIn)
      OBVIOUS
    <3>2. QED
      BY <2>2, <3>1, ElemsConcat
  <2>3. {s.pdu_session_id : s \in Elems(OutSessions')} = {s.id : s \in Elems(InSetupSessions')}
    <3>1. {s.pdu_session_id : s \in Elems(OutSessions')}
          = {o.pdu_session_id : o \in Elems(MapSeq(input.setupMod, SetupModItemOut))}
            \cup {o.pdu_session_id : o \in Elems(MapSeq(input.modified, ModifiedItemOut))}
      BY <2>1, ImageOfUnion
    <3>2. {s.id : s \in Elems(InSetupSessions')}
          = {x.id : x \in Elems(input.setupMod)} \cup {x.id : x \in Elems(input.modified)}
      BY <2>8, ImageOfUnion
    <3>3. QED
      BY <3>1, <3>2, SetupModListFacts, ModifiedListFacts
  <2>4. /\ Elems(MapSeq(input.failedMod, FailedOut)) = {FailedOut(f) : f \in Elems(input.failedMod)}
        /\ Elems(MapSeq(input.failedToModify, FailedOut))
           = {FailedOut(f) : f \in Elems(input.failedToModify)}
    BY DEF Elems, MapSeq
  <2>5. OutDrbFacts' = InDrbFacts'
    <3>1. OutDrbFacts' = (UNION {OutDrbFactsOf(o) : o \in Elems(MapSeq(input.setupMod, SetupModItemOut))})
                         \cup (UNION {OutDrbFactsOf(o) : o \in Elems(MapSeq(input.modified, ModifiedItemOut))})
      <4>1. OutDrbFacts' = UNION {OutDrbFactsOf(o) : o \in Elems(OutSessions')}
        BY DrbFactsUnion
      <4>2. {OutDrbFactsOf(o) : o \in Elems(OutSessions')}
            = {OutDrbFactsOf(o) : o \in Elems(MapSeq(input.setupMod, SetupModItemOut))}
              \cup {OutDrbFactsOf(o) : o \in Elems(MapSeq(input.modified, ModifiedItemOut))}
        BY <2>1, ImageOfUnion
      <4>3. QED
        BY <4>1, <4>2, UnionCup
    <3>2. InDrbFacts' = (UNION {InDrbFactsOf(x) : x \in Elems(input.setupMod)})
                        \cup (UNION {InDrbFactsOf(x) : x \in Elems(input.modified)})
      <4>1. InDrbFacts' = UNION {InDrbFactsOf(x) : x \in Elems(InSetupSessions')}
        BY DrbFactsUnion
      <4>2. {InDrbFactsOf(x) : x \in Elems(InSetupSessions')}
            = {InDrbFactsOf(x) : x \in Elems(input.setupMod)} \cup {InDrbFactsOf(x) : x \in Elems(input.modified)}
        BY <2>8, ImageOfUnion
      <4>3. QED
        BY <4>1, <4>2, UnionCup
    <3>3. QED
      BY <3>1, <3>2, SetupModListFacts, ModifiedListFacts
  <2>6. QED
    BY <1>3, <2>2, <2>3, <2>4, <2>5 DEF PartialResultsReported
<1>7. QED
  BY <1>4, <1>6 DEF IInv

(* The modification response without the NG-RAN response leaves the      *)
(* message empty, and reports nothing.                                    *)
LEMMA ModNoSysStep ==
    ASSUME IInv, path = "modification", pc = "received", input.success, ~input.sysPresent,
           pc' = "done", UNCHANGED <<path, input, onEmpty, res>>
    PROVE  IInv'
<1>1. TypeOK /\ InputOK /\ Fresh
  BY DEF IInv
<1>2. /\ res.setup_list = << >> /\ res.failed_list = << >>
      /\ res.modified_list = << >> /\ res.failed_to_modify_list = << >>
  BY <1>1 DEF Fresh
<1>3. /\ OutSessions' = << >>
      /\ InSetupSessions' = << >> /\ InFailedSessions' = << >> /\ InFailedToModify' = << >>
  BY <1>2, EmptySeq, ConcatEmptySeq DEF OutSessions, InSetupSessions, InFailedSessions, InFailedToModify
<1>4. Elems(<< >>) = {}
  BY DEF Elems
<1>5. OutDrbFacts' = InDrbFacts'
  BY <1>3, <1>4, DrbFactsUnion
<1>6. PartialResultsReported'
  BY <1>2, <1>3, <1>4, <1>5 DEF PartialResultsReported
<1>7. QED
  BY <1>1, <1>6 DEF IInv, TypeOK, InputOK, Fresh

(* fill_rrc_ue_bearer_context_setup_response, every branch. *)
LEMMA SetupStep == IInv /\ FillSetupResponse => IInv'
<1> SUFFICES ASSUME IInv, FillSetupResponse PROVE IInv'
  OBVIOUS
<1>1. path = "setup" /\ pc = "received" /\ UNCHANGED <<path, input, onEmpty>>
  BY DEF FillSetupResponse
<1>2. input \in SetupResponses
  BY <1>1 DEF IInv, InputOK
<1>3. CASE ~input.success
  <2>1. input \in [success : {FALSE}, cause : Causes]
    BY <1>2, <1>3 DEF SetupResponses
  <2>2. res' = FailureRes /\ pc' = "done"
    BY <1>3 DEF FillSetupResponse
  <2>3. QED
    BY <1>1, <1>3, <2>1, <2>2, FailureStep
<1>4. CASE input.success /\ onEmpty = "abort" /\ HasOptional(input.setup)
  <2>1. pc' = "aborted" /\ UNCHANGED res
    BY <1>4 DEF FillSetupResponse
  <2>2. QED
    BY <1>1, <2>1, AbortStep
<1>5. CASE input.success /\ ~(onEmpty = "abort" /\ HasOptional(input.setup))
  <2>1. input \in [success : {TRUE}, setup : Seq(SessIn(SessOpts)), failedPresent : BOOLEAN,
                   failed : Seq(FailedIn(SessIds))]
    BY <1>2, <1>5 DEF SetupResponses
  <2>2. /\ res' = [res EXCEPT
                     !.setup_list = MapSeq(input.setup, SetupItemOut),
                     !.failed_list = IF input.failedPresent THEN MapSeq(input.failed, FailedOut)
                                     ELSE << >>]
        /\ pc' = "done"
    BY <1>5 DEF FillSetupResponse
  <2>3. QED
    BY <1>1, <2>1, <2>2, SetupSuccessStep
<1>6. QED
  BY <1>3, <1>4, <1>5

(* fill_rrc_ue_bearer_context_modification_response, every branch. *)
LEMMA ModStep == IInv /\ FillModificationResponse => IInv'
<1> SUFFICES ASSUME IInv, FillModificationResponse PROVE IInv'
  OBVIOUS
<1>1. path = "modification" /\ pc = "received" /\ UNCHANGED <<path, input, onEmpty>>
  BY DEF FillModificationResponse
<1>2. input \in ModResponses
  BY <1>1 DEF IInv, InputOK
<1>3. CASE ~input.success
  <2>1. input \in [success : {FALSE}, cause : Causes]
    BY <1>2, <1>3 DEF ModResponses
  <2>2. res' = FailureRes /\ pc' = "done"
    BY <1>3 DEF FillModificationResponse
  <2>3. QED
    BY <1>1, <1>3, <2>1, <2>2, FailureStep
<1>4. CASE input.success /\ ~input.sysPresent
  <2>1. pc' = "done" /\ UNCHANGED res
    BY <1>4 DEF FillModificationResponse
  <2>2. QED
    BY <1>1, <1>4, <2>1, ModNoSysStep
<1>5. CASE input.success /\ input.sysPresent
           /\ onEmpty = "abort" /\ HasOptional(input.setupMod \o input.modified)
  <2>1. pc' = "aborted" /\ UNCHANGED res
    BY <1>5 DEF FillModificationResponse
  <2>2. QED
    BY <1>1, <2>1, AbortStep
<1>6. CASE input.success /\ input.sysPresent
           /\ ~(onEmpty = "abort" /\ HasOptional(input.setupMod \o input.modified))
  <2>1. input \in [success : {TRUE}, sysPresent : {TRUE},
                   setupMod : Seq(SessIn(ModSessOpts)), failedMod : Seq(FailedIn(SessIds)),
                   modified : Seq(ModifiedSessIn), failedToModify : Seq(FailedIn(SessIds))]
    BY <1>2, <1>6 DEF ModResponses
  <2>2. /\ res' = [res EXCEPT
                     !.setup_list = MapSeq(input.setupMod, SetupModItemOut),
                     !.failed_list = MapSeq(input.failedMod, FailedOut),
                     !.modified_list = MapSeq(input.modified, ModifiedItemOut),
                     !.failed_to_modify_list = MapSeq(input.failedToModify, FailedOut)]
        /\ pc' = "done"
    BY <1>6 DEF FillModificationResponse
  <2>3. QED
    BY <1>1, <2>1, <2>2, ModSuccessStep
<1>7. QED
  BY <1>3, <1>4, <1>5, <1>6

LEMMA NextIInv == IInv /\ [Next]_vars => IInv'
<1> SUFFICES ASSUME IInv, [Next]_vars PROVE IInv'
  OBVIOUS
<1>1. CASE FillSetupResponse
  BY <1>1, SetupStep
<1>2. CASE FillModificationResponse
  BY <1>2, ModStep
<1>3. CASE UNCHANGED vars
  BY <1>3 DEF vars, IInv, TypeOK, InputOK, Fresh, PartialResultsReported,
             InSetupSessions, InFailedSessions, InFailedToModify, OutSessions, InDrbFacts, OutDrbFacts
<1>4. QED
  BY <1>1, <1>2, <1>3 DEF Next

LEMMA SpecIInv == Spec => []IInv
BY InitIInv, NextIInv, PTL DEF Spec

(* Every state the fill functions reach is well typed: the filled message *)
(* has the shape of e1ap_bearer_context_*_response_t.                       *)
THEOREM E1apTypeCorrect == Spec => []TypeOK
BY SpecIInv, PTL DEF IInv

(* Once a successful E1AP response is filled, every session and DRB it    *)
(* reports set up, modified, failed or failed to modify appears, with the  *)
(* same outcome and the translated cause, in the CU-CP message, and        *)
(* nothing else does.                                                       *)
THEOREM PartialResultsSafety == Spec => []PartialResultsReported
BY SpecIInv, PTL DEF IInv

=============================================================================
