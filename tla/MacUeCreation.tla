---------------------------- MODULE MacUeCreation ----------------------------
(***************************************************************************)
(* The MAC UE creation procedure (mac_ue_create_request_procedure in      *)
(* lib/mac/ue_creation_procedure.h) and the executors it hops across.     *)
(*                                                                         *)
(* The constructor posts step 1 to the UL executor: insert the UE in the  *)
(* UL demultiplexer (asserting it was not there) with its UL bearers, then *)
(* post ue_ul_create_complete to the control executor.  That posts step 2 *)
(* to the DL executor of the UE's cell: insert the DL entity and ask the  *)
(* scheduler to configure the UE.  The scheduler answers later through    *)
(* sched_ue_config_response, which posts the final step to the control    *)
(* executor: the response to the DU manager.                              *)
(*                                                                         *)
(* Every executor runs its work in submission order (section 5 of the     *)
(* specification): each is a FIFO queue of work items, and an executor    *)
(* step runs the whole closure at its head.  A work item names the        *)
(* closure and the procedure instance whose `this` it captured.           *)
(***************************************************************************)
EXTENDS Naturals, Sequences, FiniteSets

CONSTANTS
    Procs,      \* the procedure instances (one per UE creation request)
    Cells,      \* du_cell_index values, one DL executor each
    ReqUe,      \* ReqUe[p]: req.ue_index of procedure p
    ReqCrnti,   \* ReqCrnti[p]: req.crnti of procedure p
    ReqCell,    \* ReqCell[p]: req.cell_index of procedure p
    ReqBearers  \* ReqBearers[p]: the LCIDs of req.ul_bearers

(* The DU manager allocates a fresh UE index for every creation request. *)
ASSUME ReqAssumption ==
    /\ ReqCell \in [Procs -> Cells]
    /\ \A p, q \in Procs : p # q => ReqUe[p] # ReqUe[q]

VARIABLES
    ulQ,        \* work queue of cfg.ul_exec
    ctrlQ,      \* work queue of cfg.ctrl_exec
    dlQ,        \* dlQ[c]: work queue of cfg.dl_execs[c]
    demux,      \* UL demultiplexer: UE index -> [crnti, bearers]
    dlEntities, \* DL entities: UE index -> crnti
    schedCfg,   \* scheduler: procedures whose config_ue was called, not yet answered
    schedUes,   \* scheduler: C-RNTIs the scheduler has configured
    phase,      \* phase[p]: "idle" before the constructor, "running", "responded"
    responses   \* the mac_ue_create_request_response_message sent to the DU manager

vars == <<ulQ, ctrlQ, dlQ, demux, dlEntities, schedCfg, schedUes, phase, responses>>

Kinds == {"ul_create", "ul_complete", "dl_create", "respond"}
Work == [kind : Kinds, proc : Procs]

W(k, p) == [kind |-> k, proc |-> p]

(* A partial map from UE index to values, as a function on its domain. *)
MapPut(m, k, v) == [x \in DOMAIN m \cup {k} |-> IF x = k THEN v ELSE m[x]]

TypeOK ==
    /\ ulQ \in Seq(Work)
    /\ ctrlQ \in Seq(Work)
    /\ dlQ \in [Cells -> Seq(Work)]
    /\ DOMAIN demux \subseteq {ReqUe[p] : p \in Procs}
    /\ DOMAIN dlEntities \subseteq {ReqUe[p] : p \in Procs}
    /\ schedCfg \subseteq Procs
    /\ schedUes \subseteq {ReqCrnti[p] : p \in Procs}
    /\ phase \in [Procs -> {"idle", "running", "responded"}]
    /\ responses \subseteq [ue_index : {ReqUe[p] : p \in Procs},
                            cell_index : Cells, result : BOOLEAN]

Init ==
    /\ ulQ = <<>>
    /\ ctrlQ = <<>>
    /\ dlQ = [c \in Cells |-> <<>>]
    /\ demux = <<>>
    /\ dlEntities = <<>>
    /\ schedCfg = {}
    /\ schedUes = {}
    /\ phase = [p \in Procs |-> "idle"]
    /\ responses = {}

(* Mutant: the constructor posts the UL and the DL steps at once, as if  *)
(* the two sides could be created in parallel.                            *)
CreateParallel(p) ==
    /\ phase[p] = "idle"
    /\ phase' = [phase EXCEPT ![p] = "running"]
    /\ ulQ' = Append(ulQ, W("ul_create", p))
    /\ dlQ' = [dlQ EXCEPT ![ReqCell[p]] = Append(@, W("dl_create", p))]
    /\ UNCHANGED <<ctrlQ, demux, dlEntities, schedCfg, schedUes, responses>>

(***************************************************************************)
(* The constructor, run by the DU manager on the control executor: post   *)
(* step 1 to the UL executor.                                             *)
(***************************************************************************)
Create(p) ==
    /\ phase[p] = "idle"
    /\ phase' = [phase EXCEPT ![p] = "running"]
    /\ ulQ' = Append(ulQ, W("ul_create", p))
    /\ UNCHANGED <<ctrlQ, dlQ, demux, dlEntities, schedCfg, schedUes, responses>>

(***************************************************************************)
(* Step 1 on the UL executor: insert the UE in the demultiplexer with its *)
(* UL bearers and post ue_ul_create_complete to the control executor.     *)
(* demux.insert fails only for a UE index already present, which the      *)
(* assertion turns into an abort; fresh UE indexes never reach it.        *)
(***************************************************************************)
UlCreate ==
    /\ ulQ # <<>>
    /\ Head(ulQ).kind = "ul_create"
    /\ LET p == Head(ulQ).proc IN
       /\ ReqUe[p] \notin DOMAIN demux
       /\ demux' = MapPut(demux, ReqUe[p], [crnti |-> ReqCrnti[p], bearers |-> ReqBearers[p]])
       /\ ulQ' = Tail(ulQ)
       /\ ctrlQ' = Append(ctrlQ, W("ul_complete", p))
    /\ UNCHANGED <<dlQ, dlEntities, schedCfg, schedUes, phase, responses>>

(***************************************************************************)
(* ue_ul_create_complete on the control executor: post step 2 to the DL   *)
(* executor of the request's cell.                                        *)
(***************************************************************************)
UeUlCreateComplete ==
    /\ ctrlQ # <<>>
    /\ Head(ctrlQ).kind = "ul_complete"
    /\ LET p == Head(ctrlQ).proc IN
       /\ ctrlQ' = Tail(ctrlQ)
       /\ dlQ' = [dlQ EXCEPT ![ReqCell[p]] = Append(@, W("dl_create", p))]
    /\ UNCHANGED <<ulQ, demux, dlEntities, schedCfg, schedUes, phase, responses>>

(* Mutant: step 2 posts the response itself instead of waiting for the   *)
(* scheduler's sched_ue_config_response.                                  *)
DlCreateNoAwait(c) ==
    /\ dlQ[c] # <<>>
    /\ Head(dlQ[c]).kind = "dl_create"
    /\ LET p == Head(dlQ[c]).proc IN
       /\ dlEntities' = MapPut(dlEntities, ReqUe[p], ReqCrnti[p])
       /\ schedCfg' = schedCfg \cup {p}
       /\ ctrlQ' = Append(ctrlQ, W("respond", p))
       /\ dlQ' = [dlQ EXCEPT ![c] = Tail(@)]
    /\ UNCHANGED <<ulQ, demux, schedUes, phase, responses>>

(***************************************************************************)
(* Step 2 on DL executor c: insert the DL entity, then call               *)
(* sched_itf.config_ue, whose answer comes later.                         *)
(***************************************************************************)
DlCreate(c) ==
    /\ dlQ[c] # <<>>
    /\ Head(dlQ[c]).kind = "dl_create"
    /\ LET p == Head(dlQ[c]).proc IN
       /\ dlEntities' = MapPut(dlEntities, ReqUe[p], ReqCrnti[p])
       /\ schedCfg' = schedCfg \cup {p}
       /\ dlQ' = [dlQ EXCEPT ![c] = Tail(@)]
    /\ UNCHANGED <<ulQ, ctrlQ, demux, schedUes, phase, responses>>

(* Mutant: the scheduler's answer is logged but the final step is never  *)
(* posted to the control executor.                                        *)
SchedUeConfigResponseNoPost(p) ==
    /\ p \in schedCfg
    /\ schedCfg' = schedCfg \ {p}
    /\ schedUes' = schedUes \cup {ReqCrnti[p]}
    /\ UNCHANGED <<ulQ, ctrlQ, dlQ, demux, dlEntities, phase, responses>>

(***************************************************************************)
(* The scheduler has configured the UE and calls                          *)
(* sched_ue_config_response, which posts the response to the control      *)
(* executor.                                                               *)
(***************************************************************************)
SchedUeConfigResponse(p) ==
    /\ p \in schedCfg
    /\ schedCfg' = schedCfg \ {p}
    /\ schedUes' = schedUes \cup {ReqCrnti[p]}
    /\ ctrlQ' = Append(ctrlQ, W("respond", p))
    /\ UNCHANGED <<ulQ, dlQ, demux, dlEntities, phase, responses>>

(* Mutant: the response carries the UE index in place of the cell index. *)
RespondWrongCell ==
    /\ ctrlQ # <<>>
    /\ Head(ctrlQ).kind = "respond"
    /\ LET p == Head(ctrlQ).proc IN
       /\ responses' = responses \cup
              {[ue_index |-> ReqUe[p], cell_index |-> ReqUe[p], result |-> TRUE]}
       /\ phase' = [phase EXCEPT ![p] = "responded"]
       /\ ctrlQ' = Tail(ctrlQ)
    /\ UNCHANGED <<ulQ, dlQ, demux, dlEntities, schedCfg, schedUes>>

(* Mutant: resp.result = true is left out, so the value-initialised     *)
(* response reports a failure.                                            *)
RespondNoResult ==
    /\ ctrlQ # <<>>
    /\ Head(ctrlQ).kind = "respond"
    /\ LET p == Head(ctrlQ).proc IN
       /\ responses' = responses \cup
              {[ue_index |-> ReqUe[p], cell_index |-> ReqCell[p], result |-> FALSE]}
       /\ phase' = [phase EXCEPT ![p] = "responded"]
       /\ ctrlQ' = Tail(ctrlQ)
    /\ UNCHANGED <<ulQ, dlQ, demux, dlEntities, schedCfg, schedUes>>

(***************************************************************************)
(* The final step on the control executor: send                           *)
(* on_ue_create_request_complete with result = true to the DU manager.    *)
(***************************************************************************)
Respond ==
    /\ ctrlQ # <<>>
    /\ Head(ctrlQ).kind = "respond"
    /\ LET p == Head(ctrlQ).proc IN
       /\ responses' = responses \cup
              {[ue_index |-> ReqUe[p], cell_index |-> ReqCell[p], result |-> TRUE]}
       /\ phase' = [phase EXCEPT ![p] = "responded"]
       /\ ctrlQ' = Tail(ctrlQ)
    /\ UNCHANGED <<ulQ, dlQ, demux, dlEntities, schedCfg, schedUes>>

Next ==
    \/ \E p \in Procs : Create(p) \/ SchedUeConfigResponse(p)
    \/ UlCreate
    \/ UeUlCreateComplete
    \/ \E c \in Cells : DlCreate(c)
    \/ Respond

(***************************************************************************)
(* Executors run what is posted to them, and the scheduler answers every  *)
(* config_ue; the DU manager is free not to start a procedure.            *)
(***************************************************************************)
Fairness ==
    /\ WF_vars(UlCreate)
    /\ WF_vars(UeUlCreateComplete)
    /\ WF_vars(Respond)
    /\ \A c \in Cells : WF_vars(DlCreate(c))
    /\ \A p \in Procs : WF_vars(SchedUeConfigResponse(p))

Spec == Init /\ [][Next]_vars /\ Fairness

-----------------------------------------------------------------------------
(***************************************************************************)
(* Properties.                                                             *)
(***************************************************************************)

(* The work of procedure p that is posted and not yet run: closures in    *)
(* executor queues, and a config_ue the scheduler has not answered.       *)
Outstanding(p) ==
    Cardinality({i \in DOMAIN ulQ : ulQ[i].proc = p})
    + Cardinality({i \in DOMAIN ctrlQ : ctrlQ[i].proc = p})
    + Cardinality(UNION {{<<c, i>> : i \in {j \in DOMAIN dlQ[c] : dlQ[c][j].proc = p}}
                         : c \in Cells})
    + (IF p \in schedCfg THEN 1 ELSE 0)

(* The procedure's closures all capture `this`: at any time a running     *)
(* procedure has exactly one closure posted or one scheduler answer       *)
(* awaited, so no two executors ever touch the same procedure object at   *)
(* once, and once it has responded nothing of it is left to run, so the  *)
(* DU manager may destroy it.                                              *)
SingleOutstanding ==
    \A p \in Procs : Outstanding(p) = IF phase[p] = "running" THEN 1 ELSE 0

(* The DU manager hears that UE creation succeeded only once the UE is in *)
(* the UL demultiplexer, has a DL entity with the request's C-RNTI and is *)
(* configured in the scheduler.                                            *)
ResponseImpliesInstalled ==
    \A p \in Procs : phase[p] = "responded" =>
        /\ ReqUe[p] \in DOMAIN demux /\ demux[ReqUe[p]].crnti = ReqCrnti[p]
        /\ ReqUe[p] \in DOMAIN dlEntities /\ dlEntities[ReqUe[p]] = ReqCrnti[p]
        /\ ReqCrnti[p] \in schedUes

(* The UL side of a UE is installed before its DL side: a UE with a DL    *)
(* entity always has its UL demultiplexer entry, with the same C-RNTI.    *)
UlBeforeDl ==
    \A u \in DOMAIN dlEntities :
        u \in DOMAIN demux /\ demux[u].crnti = dlEntities[u]

(* Every started UE creation eventually answers the DU manager. *)
CreationCompletes ==
    \A p \in Procs : phase[p] = "running" ~> phase[p] = "responded"


-----------------------------------------------------------------------------
(***************************************************************************)
(* Refinement.  The stage a request has reached in MacUeCreationAbstract  *)
(* is read off where its one piece of outstanding work is: the UL step in *)
(* the UL executor's queue, ue_ul_create_complete or the DL step posted,  *)
(* the scheduler's answer awaited, or the response posted to the control  *)
(* executor.  Running ue_ul_create_complete moves the work from one       *)
(* executor to another and is a stuttering step of the abstraction.       *)
(***************************************************************************)
HasKind(s, k, p) == \E i \in 1..Len(s) : s[i] = W(k, p)

Stage(p) ==
    IF phase[p] # "running" THEN phase[p]
    ELSE IF HasKind(ulQ, "ul_create", p) THEN "requested"
    ELSE IF \/ HasKind(ctrlQ, "ul_complete", p)
            \/ \E c \in Cells : HasKind(dlQ[c], "dl_create", p)
         THEN "ul_installed"
    ELSE IF p \in schedCfg THEN "dl_installed"
    ELSE "configured"

Abs == INSTANCE MacUeCreationAbstract WITH stage <- [p \in Procs |-> Stage(p)]

(* The closure chain across the UL, control and DL executors and the      *)
(* scheduler's asynchronous answer implement the four atomic steps of    *)
(* MacUeCreationAbstract, in order, with its fairness: every behaviour of *)
(* the procedures is one the DU manager may expect of UE creation.        *)
ImplementsAbstractCreation == Abs!Spec

=============================================================================
