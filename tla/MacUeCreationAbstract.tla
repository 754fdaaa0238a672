------------------------ MODULE MacUeCreationAbstract ------------------------
(***************************************************************************)
(* What a MAC UE creation (mac_ue_create_request_procedure in             *)
(* lib/mac/ue_creation_procedure.h) promises to the DU manager, with the  *)
(* executors and their queues left out.  A request goes through four      *)
(* steps, each one atomic and in this order: the UE is installed in the   *)
(* UL demultiplexer, its DL entity is created, the scheduler has          *)
(* configured it, and the response is sent.  The steps of different      *)
(* requests interleave freely.                                             *)
(*                                                                         *)
(* MacUeCreation, where each step is a closure posted to an executor and  *)
(* the scheduler answers asynchronously, implements this specification.  *)
(***************************************************************************)
EXTENDS Naturals, TLAPS

CONSTANTS Procs, Cells, ReqUe, ReqCrnti, ReqCell, ReqBearers

VARIABLES
    stage,      \* stage[p]: how far the creation requested by p has gone
    demux,      \* UL demultiplexer: UE index -> [crnti, bearers]
    dlEntities, \* DL entities: UE index -> crnti
    schedUes,   \* C-RNTIs the scheduler has configured
    responses   \* the responses sent to the DU manager

vars == <<stage, demux, dlEntities, schedUes, responses>>

Stages == {"idle", "requested", "ul_installed", "dl_installed", "configured", "responded"}

MapPut(m, k, v) == [x \in DOMAIN m \cup {k} |-> IF x = k THEN v ELSE m[x]]

Init ==
    /\ stage = [p \in Procs |-> "idle"]
    /\ demux = <<>>
    /\ dlEntities = <<>>
    /\ schedUes = {}
    /\ responses = {}

(* The DU manager asks for the UE to be created. *)
Request(p) ==
    /\ stage[p] = "idle"
    /\ stage' = [stage EXCEPT ![p] = "requested"]
    /\ UNCHANGED <<demux, dlEntities, schedUes, responses>>

(* The UE enters the UL demultiplexer with its C-RNTI and UL bearers;    *)
(* a UE index that is already there is never overwritten.                 *)
InstallUl(p) ==
    /\ stage[p] = "requested"
    /\ ReqUe[p] \notin DOMAIN demux
    /\ demux' = MapPut(demux, ReqUe[p], [crnti |-> ReqCrnti[p], bearers |-> ReqBearers[p]])
    /\ stage' = [stage EXCEPT ![p] = "ul_installed"]
    /\ UNCHANGED <<dlEntities, schedUes, responses>>

(* The DL entity of the UE is created. *)
InstallDl(p) ==
    /\ stage[p] = "ul_installed"
    /\ dlEntities' = MapPut(dlEntities, ReqUe[p], ReqCrnti[p])
    /\ stage' = [stage EXCEPT ![p] = "dl_installed"]
    /\ UNCHANGED <<demux, schedUes, responses>>

(* The scheduler has configured the UE. *)
Configure(p) ==
    /\ stage[p] = "dl_installed"
    /\ schedUes' = schedUes \cup {ReqCrnti[p]}
    /\ stage' = [stage EXCEPT ![p] = "configured"]
    /\ UNCHANGED <<demux, dlEntities, responses>>

(* The DU manager is told that the UE was created in the request's cell. *)
Respond(p) ==
    /\ stage[p] = "configured"
    /\ responses' = responses \cup
           {[ue_index |-> ReqUe[p], cell_index |-> ReqCell[p], result |-> TRUE]}
    /\ stage' = [stage EXCEPT ![p] = "responded"]
    /\ UNCHANGED <<demux, dlEntities, schedUes>>

Next ==
    \E p \in Procs :
        Request(p) \/ InstallUl(p) \/ InstallDl(p) \/ Configure(p) \/ Respond(p)

(* A request that has started runs to its response; nothing obliges the   *)
(* DU manager to make one.                                                 *)
Fairness ==
    \A p \in Procs :
        /\ WF_vars(InstallUl(p)) /\ WF_vars(InstallDl(p))
        /\ WF_vars(Configure(p)) /\ WF_vars(Respond(p))

SafeSpec == Init /\ [][Next]_vars

Spec == SafeSpec /\ Fairness

(***************************************************************************)
(* What the order of the steps guarantees of the shared state: a UE index *)
(* is in the demultiplexer exactly from the UL step on, with its request's *)
(* C-RNTI; it has a DL entity exactly from the DL step on; its C-RNTI is  *)
(* configured in the scheduler from the scheduler's step on.  This is the *)
(* invariant of the abstract steps that MacUeCreationProofs proves.       *)
(***************************************************************************)
Installed ==
    /\ stage \in [Procs -> Stages]
    /\ DOMAIN demux \subseteq {ReqUe[p] : p \in Procs}
    /\ DOMAIN dlEntities \subseteq {ReqUe[p] : p \in Procs}
    /\ \A p \in Procs :
         /\ stage[p] \in {"idle", "requested"} => ReqUe[p] \notin DOMAIN demux
         /\ stage[p] \notin {"idle", "requested"} =>
                ReqUe[p] \in DOMAIN demux /\ demux[ReqUe[p]].crnti = ReqCrnti[p]
         /\ stage[p] \in {"idle", "requested", "ul_installed"} =>
                ReqUe[p] \notin DOMAIN dlEntities
         /\ stage[p] \in {"dl_installed", "configured", "responded"} =>
                ReqUe[p] \in DOMAIN dlEntities /\ dlEntities[ReqUe[p]] = ReqCrnti[p]
         /\ stage[p] \in {"configured", "responded"} => ReqCrnti[p] \in schedUes


(* Fresh UE indexes: two requests never name the same UE. *)
FreshUes == \A p, q \in Procs : p # q => ReqUe[p] # ReqUe[q]

LEMMA InitInstalled == Init => Installed
BY DEF Init, Installed, Stages

LEMMA NextInstalled ==
    ASSUME FreshUes, Installed, [Next]_vars
    PROVE  Installed'
<1>1. ASSUME NEW p \in Procs, Request(p) PROVE Installed'
  BY <1>1 DEF Request, Installed, Stages
<1>2. ASSUME NEW p \in Procs, InstallUl(p) PROVE Installed'
  BY <1>2 DEF InstallUl, Installed, Stages, MapPut, FreshUes
<1>3. ASSUME NEW p \in Procs, InstallDl(p) PROVE Installed'
  BY <1>3 DEF InstallDl, Installed, Stages, MapPut, FreshUes
<1>4. ASSUME NEW p \in Procs, Configure(p) PROVE Installed'
  BY <1>4 DEF Configure, Installed, Stages
<1>5. ASSUME NEW p \in Procs, Respond(p) PROVE Installed'
  BY <1>5 DEF Respond, Installed, Stages
<1>6. CASE UNCHANGED vars
  BY <1>6 DEF vars, Installed
<1>7. QED
  BY <1>1, <1>2, <1>3, <1>4, <1>5, <1>6 DEF Next

(* With fresh UE indexes, the order of the four steps keeps the UL        *)
(* demultiplexer, the DL entities and the scheduler in step with how far  *)
(* each request has gone: Installed holds in every state.                 *)
THEOREM InstalledInvariant ==
    ASSUME FreshUes
    PROVE  SafeSpec => []Installed
BY InitInstalled, NextInstalled, PTL DEF SafeSpec
=============================================================================
