------------------------- MODULE MacUeCreationProofs -------------------------
(***************************************************************************)
(* Proofs about MacUeCreation for every set of procedures and cells and    *)
(* every request: the closure chain implements MacUeCreationAbstract      *)
(* (its safety part), and a response is sent only for a UE that is fully *)
(* installed.                                                              *)
(***************************************************************************)
EXTENDS MacUeCreation, FiniteSetTheorems, TLAPS

(* Procedure p has a work item in queue s. *)
Has(s, p) == \E i \in 1..Len(s) : s[i].proc = p

(* Procedure p has at most one work item in queue s. *)
Unique(s, p) == \A i, j \in 1..Len(s) : s[i].proc = p /\ s[j].proc = p => i = j

InDl(p) == \E c \in Cells : Has(dlQ[c], p)

(* Each executor holds only the closures that are posted to it, and a DL  *)
(* step is posted to the DL executor of its request's cell.               *)
KindsOK ==
    /\ \A i \in 1..Len(ulQ) : ulQ[i].kind = "ul_create"
    /\ \A i \in 1..Len(ctrlQ) : ctrlQ[i].kind \in {"ul_complete", "respond"}
    /\ \A c \in Cells : \A i \in 1..Len(dlQ[c]) :
           dlQ[c][i].kind = "dl_create" /\ ReqCell[dlQ[c][i].proc] = c

(* A procedure that runs has exactly one piece of outstanding work, in    *)
(* one queue or awaited from the scheduler; one that does not run has     *)
(* none.                                                                   *)
WorkOf(p) ==
    /\ Unique(ulQ, p) /\ Unique(ctrlQ, p) /\ \A c \in Cells : Unique(dlQ[c], p)
    /\ phase[p] # "running" =>
           ~Has(ulQ, p) /\ ~Has(ctrlQ, p) /\ ~InDl(p) /\ p \notin schedCfg
    /\ phase[p] = "running" =>
           \/ Has(ulQ, p) /\ ~Has(ctrlQ, p) /\ ~InDl(p) /\ p \notin schedCfg
           \/ ~Has(ulQ, p) /\ Has(ctrlQ, p) /\ ~InDl(p) /\ p \notin schedCfg
           \/ ~Has(ulQ, p) /\ ~Has(ctrlQ, p) /\ InDl(p) /\ p \notin schedCfg
           \/ ~Has(ulQ, p) /\ ~Has(ctrlQ, p) /\ ~InDl(p) /\ p \in schedCfg

WorkInv == \A p \in Procs : WorkOf(p)

IInv == TypeOK /\ KindsOK /\ WorkInv


-----------------------------------------------------------------------------
(***************************************************************************)
(* Lemmas on work queues.                                                  *)
(***************************************************************************)

(* A work item is the record W of its kind and procedure. *)
LEMMA WorkEta ==
    ASSUME NEW w \in Work
    PROVE  w = W(w.kind, w.proc)
BY DEF Work, W

(* Appending w adds w's procedure to those with work in the queue. *)
LEMMA HasAppend ==
    ASSUME NEW s \in Seq(Work), NEW w \in Work, NEW q
    PROVE  Has(Append(s, w), q) <=> Has(s, q) \/ w.proc = q
<1>1. ASSUME Has(Append(s, w), q) PROVE Has(s, q) \/ w.proc = q
  <2>1. PICK i \in 1..Len(Append(s, w)) : Append(s, w)[i].proc = q
    BY <1>1 DEF Has
  <2>2. CASE i <= Len(s)
    BY <2>1, <2>2 DEF Has
  <2>3. CASE i = Len(s) + 1
    BY <2>1, <2>3
  <2>4. QED
    BY <2>2, <2>3
<1>2. ASSUME Has(s, q) PROVE Has(Append(s, w), q)
  <2>1. PICK i \in 1..Len(s) : s[i].proc = q
    BY <1>2 DEF Has
  <2>2. i \in 1..Len(Append(s, w)) /\ Append(s, w)[i] = s[i]
    OBVIOUS
  <2>3. QED
    BY <2>1, <2>2 DEF Has
<1>3. ASSUME w.proc = q PROVE Has(Append(s, w), q)
  <2>1. Len(s) + 1 \in 1..Len(Append(s, w)) /\ Append(s, w)[Len(s) + 1] = w
    OBVIOUS
  <2>2. QED
    BY <1>3, <2>1 DEF Has
<1>4. QED
  BY <1>1, <1>2, <1>3

(* Appending w adds exactly w to the items of the queue. *)
LEMMA HasKindAppend ==
    ASSUME NEW s \in Seq(Work), NEW w \in Work, NEW k, NEW q
    PROVE  HasKind(Append(s, w), k, q) <=> HasKind(s, k, q) \/ w = W(k, q)
BY DEF HasKind

(* Removing the head of another procedure leaves q's items in place. *)
LEMMA HasTailOther ==
    ASSUME NEW s \in Seq(Work), s # << >>, NEW q, Head(s).proc # q
    PROVE  /\ Has(Tail(s), q) <=> Has(s, q)
           /\ \A k : HasKind(Tail(s), k, q) <=> HasKind(s, k, q)
<1>1. Has(Tail(s), q) <=> Has(s, q)
  BY DEF Has
<1>2. ASSUME NEW k PROVE HasKind(Tail(s), k, q) <=> HasKind(s, k, q)
  BY DEF HasKind, W
<1>3. QED
  BY <1>1, <1>2

(* Removing the only item of the head's procedure leaves it none. *)
LEMMA HasTailSelf ==
    ASSUME NEW s \in Seq(Work), s # << >>, Unique(s, Head(s).proc)
    PROVE  ~Has(Tail(s), Head(s).proc)
BY DEF Has, Unique

(* An item of the queue is a work item of its procedure. *)
LEMMA HasKindHas ==
    ASSUME NEW s \in Seq(Work), NEW k, NEW q, HasKind(s, k, q)
    PROVE  Has(s, q)
BY DEF Has, HasKind, W

(* The head is an item of the queue. *)
LEMMA HeadHasKind ==
    ASSUME NEW s \in Seq(Work), s # << >>
    PROVE  HasKind(s, Head(s).kind, Head(s).proc)
BY WorkEta DEF HasKind

(* When the head's procedure has one item, it has no item of another kind. *)
LEMMA HeadOnlyKind ==
    ASSUME NEW s \in Seq(Work), s # << >>, Unique(s, Head(s).proc),
           NEW k, k # Head(s).kind
    PROVE  ~HasKind(s, k, Head(s).proc)
BY DEF HasKind, Unique, W

(* Appending keeps a procedure's item unique if it had none or w is not its. *)
LEMMA UniqueAppend ==
    ASSUME NEW s \in Seq(Work), NEW w \in Work, NEW q, Unique(s, q),
           w.proc = q => ~Has(s, q)
    PROVE  Unique(Append(s, w), q)
BY DEF Unique, Has

(* Removing the head keeps every procedure's item unique. *)
LEMMA UniqueTail ==
    ASSUME NEW s \in Seq(Work), s # << >>, NEW q, Unique(s, q)
    PROVE  Unique(Tail(s), q)
BY DEF Unique

-----------------------------------------------------------------------------
(***************************************************************************)
(* The inductive invariant.                                                *)
(***************************************************************************)

LEMMA InitIInv == Init => IInv
<1> SUFFICES ASSUME Init PROVE IInv
  OBVIOUS
<1>1. TypeOK
  BY DEF Init, TypeOK
<1>2. KindsOK
  BY DEF Init, KindsOK
<1>3. WorkInv
  BY DEF Init, WorkInv, WorkOf, Unique, Has, InDl
<1>4. QED
  BY <1>1, <1>2, <1>3 DEF IInv

LEMMA CreateIInv ==
    ASSUME IInv, NEW p \in Procs, Create(p)
    PROVE  IInv'
<1>1. TypeOK /\ KindsOK /\ WorkInv
  BY DEF IInv
<1>2. W("ul_create", p) \in Work /\ W("ul_create", p).proc = p
  BY DEF W, Work, Kinds
<1>3. TypeOK'
  BY <1>1, <1>2 DEF TypeOK, Create
<1>4. KindsOK'
  BY <1>1 DEF KindsOK, Create, W, TypeOK
<1>5. WorkInv'
  <2>1. phase[p] # "running" /\ ~Has(ulQ, p)
    BY <1>1 DEF Create, WorkInv, WorkOf
  <2>2. SUFFICES ASSUME NEW q \in Procs PROVE WorkOf(q)'
    BY DEF WorkInv
  <2>3. Has(ulQ', q) <=> Has(ulQ, q) \/ p = q
    BY <1>1, <1>2, HasAppend DEF Create, TypeOK
  <2>4. Unique(ulQ', q)
    BY <1>1, <1>2, <2>1, UniqueAppend DEF Create, TypeOK, WorkInv, WorkOf
  <2>5. UNCHANGED <<ctrlQ, dlQ, schedCfg>> /\ phase' = [phase EXCEPT ![p] = "running"]
    BY DEF Create
  <2>6. WorkOf(q)
    BY <1>1 DEF WorkInv
  <2>7. CASE q = p
    BY <1>1, <2>1, <2>3, <2>4, <2>5, <2>6, <2>7 DEF WorkOf, InDl, TypeOK
  <2>8. CASE q # p
    BY <1>1, <2>3, <2>4, <2>5, <2>6, <2>8 DEF WorkOf, InDl, TypeOK
  <2>9. QED
    BY <2>7, <2>8
<1>6. QED
  BY <1>3, <1>4, <1>5 DEF IInv

LEMMA UlCreateIInv ==
    ASSUME IInv, UlCreate
    PROVE  IInv'
<1> DEFINE p == Head(ulQ).proc
<1>1. TypeOK /\ KindsOK /\ WorkInv
  BY DEF IInv
<1>2. ulQ # << >> /\ Head(ulQ).kind = "ul_create" /\ Head(ulQ) \in Work /\ p \in Procs
  <2>1. ulQ # << >> /\ Head(ulQ).kind = "ul_create"
    BY DEF UlCreate
  <2>2. Head(ulQ) \in Work
    BY <1>1, <2>1 DEF TypeOK
  <2>3. QED
    BY <2>1, <2>2 DEF Work
<1>3. W("ul_complete", p) \in Work /\ W("ul_complete", p).proc = p
  BY <1>2 DEF W, Work, Kinds
<1>4. /\ ulQ' = Tail(ulQ) /\ ctrlQ' = Append(ctrlQ, W("ul_complete", p))
      /\ UNCHANGED <<dlQ, schedCfg, phase>>
  BY DEF UlCreate
<1>5. TypeOK'
  BY <1>1, <1>2, <1>3, <1>4 DEF TypeOK, UlCreate, MapPut
<1>6. KindsOK'
  BY <1>1, <1>2, <1>4 DEF KindsOK, W, TypeOK
<1>7. WorkInv'
  <2>1. Has(ulQ, p)
    BY <1>1, <1>2, HeadHasKind, HasKindHas DEF TypeOK
  <2>2. /\ phase[p] = "running" /\ Unique(ulQ, p)
        /\ ~Has(ctrlQ, p) /\ ~InDl(p) /\ p \notin schedCfg
    BY <1>1, <1>2, <2>1 DEF WorkInv, WorkOf
  <2>3. SUFFICES ASSUME NEW q \in Procs PROVE WorkOf(q)'
    BY DEF WorkInv
  <2>4. WorkOf(q)
    BY <1>1 DEF WorkInv
  <2>5. Has(ctrlQ', q) <=> Has(ctrlQ, q) \/ p = q
    BY <1>1, <1>3, <1>4, HasAppend DEF TypeOK
  <2>6. Unique(ulQ', q) /\ Unique(ctrlQ', q)
    BY <1>1, <1>2, <1>3, <1>4, <2>2, <2>4, UniqueAppend, UniqueTail DEF TypeOK, WorkOf
  <2>7. CASE q = p
    <3>1. ~Has(ulQ', p)
      BY <1>1, <1>2, <1>4, <2>2, HasTailSelf DEF TypeOK
    <3>2. QED
      BY <1>4, <2>2, <2>4, <2>5, <2>6, <2>7, <3>1 DEF WorkOf, InDl
  <2>8. CASE q # p
    <3>1. Has(ulQ', q) <=> Has(ulQ, q)
      BY <1>1, <1>2, <1>4, <2>8, HasTailOther DEF TypeOK
    <3>2. QED
      BY <1>4, <2>4, <2>5, <2>6, <2>8, <3>1 DEF WorkOf, InDl
  <2>9. QED
    BY <2>7, <2>8
<1>8. QED
  BY <1>5, <1>6, <1>7 DEF IInv

LEMMA UeUlCreateCompleteIInv ==
    ASSUME IInv, UeUlCreateComplete
    PROVE  IInv'
<1> DEFINE p == Head(ctrlQ).proc
<1>1. TypeOK /\ KindsOK /\ WorkInv
  BY DEF IInv
<1>2. /\ ctrlQ # << >> /\ Head(ctrlQ).kind = "ul_complete" /\ Head(ctrlQ) \in Work
      /\ p \in Procs /\ ReqCell[p] \in Cells
  <2>1. ctrlQ # << >> /\ Head(ctrlQ).kind = "ul_complete"
    BY DEF UeUlCreateComplete
  <2>2. Head(ctrlQ) \in Work
    BY <1>1, <2>1 DEF TypeOK
  <2>3. p \in Procs
    BY <2>2 DEF Work
  <2>4. QED
    BY <2>1, <2>2, <2>3, ReqAssumption
<1>3. W("dl_create", p) \in Work /\ W("dl_create", p).proc = p
  BY <1>2 DEF W, Work, Kinds
<1>4. /\ ctrlQ' = Tail(ctrlQ)
      /\ dlQ' = [dlQ EXCEPT ![ReqCell[p]] = Append(@, W("dl_create", p))]
      /\ UNCHANGED <<ulQ, schedCfg, phase>>
  BY DEF UeUlCreateComplete
<1>5. TypeOK'
  BY <1>1, <1>2, <1>3, <1>4 DEF TypeOK, UeUlCreateComplete
<1>6. KindsOK'
  <2>1. \A i \in 1..Len(ulQ') : ulQ'[i].kind = "ul_create"
    BY <1>1, <1>4 DEF KindsOK
  <2>2. \A i \in 1..Len(ctrlQ') : ctrlQ'[i].kind \in {"ul_complete", "respond"}
    BY <1>1, <1>2, <1>4 DEF KindsOK, TypeOK
  <2>3. ASSUME NEW c \in Cells, NEW i \in 1..Len(dlQ'[c])
        PROVE  dlQ'[c][i].kind = "dl_create" /\ ReqCell[dlQ'[c][i].proc] = c
    <3>1. CASE c = ReqCell[p]
      <4>1. dlQ[c] \in Seq(Work) /\ dlQ'[c] = Append(dlQ[c], W("dl_create", p))
        BY <1>1, <1>4, <3>1 DEF TypeOK
      <4>2. /\ Len(dlQ'[c]) = Len(dlQ[c]) + 1
            /\ dlQ'[c][Len(dlQ[c]) + 1] = W("dl_create", p)
            /\ \A k \in 1..Len(dlQ[c]) : dlQ'[c][k] = dlQ[c][k]
        BY <1>3, <4>1
      <4>3. CASE i \in 1..Len(dlQ[c])
        BY <1>1, <4>2, <4>3 DEF KindsOK
      <4>4. CASE i = Len(dlQ[c]) + 1
        <5>1. dlQ'[c][i] = W("dl_create", p)
          BY <4>2, <4>4
        <5>2. QED
          BY <5>1, <3>1 DEF W
      <4>5. QED
        BY <4>1, <4>2, <4>3, <4>4
    <3>2. CASE c # ReqCell[p]
      BY <1>1, <1>4, <3>2 DEF KindsOK, TypeOK
    <3>3. QED
      BY <3>1, <3>2
  <2>4. QED
    BY <2>1, <2>2, <2>3 DEF KindsOK
<1>7. WorkInv'
  <2>1. Has(ctrlQ, p)
    BY <1>1, <1>2, HeadHasKind, HasKindHas DEF TypeOK
  <2>2. /\ phase[p] = "running" /\ Unique(ctrlQ, p)
        /\ ~Has(ulQ, p) /\ ~InDl(p) /\ p \notin schedCfg
    BY <1>1, <1>2, <2>1 DEF WorkInv, WorkOf
  <2>3. SUFFICES ASSUME NEW q \in Procs PROVE WorkOf(q)'
    BY DEF WorkInv
  <2>4. WorkOf(q)
    BY <1>1 DEF WorkInv
  <2>5. ASSUME NEW c \in Cells
        PROVE  /\ Has(dlQ'[c], q) <=> Has(dlQ[c], q) \/ (c = ReqCell[p] /\ p = q)
               /\ Unique(dlQ'[c], q)
    <3>1. CASE c = ReqCell[p]
      BY <1>1, <1>3, <1>4, <2>2, <2>4, <3>1, HasAppend, UniqueAppend DEF TypeOK, WorkOf, InDl
    <3>2. CASE c # ReqCell[p]
      BY <1>1, <1>4, <2>4, <3>2 DEF TypeOK, WorkOf
    <3>3. QED
      BY <3>1, <3>2
  <2>6. Unique(ctrlQ', q)
    BY <1>1, <1>2, <1>4, <2>4, UniqueTail DEF TypeOK, WorkOf
  <2>7. CASE q = p
    <3>1. ~Has(ctrlQ', p)
      BY <1>1, <1>2, <1>4, <2>2, HasTailSelf DEF TypeOK
    <3>2. InDl(q)'
      <4>1. Has(dlQ'[ReqCell[p]], q)
        BY <1>2, <2>5, <2>7
      <4>2. QED
        BY <1>2, <4>1 DEF InDl
    <3>3. QED
      BY <1>4, <2>2, <2>4, <2>5, <2>6, <2>7, <3>1, <3>2 DEF WorkOf
  <2>8. CASE q # p
    <3>1. Has(ctrlQ', q) <=> Has(ctrlQ, q)
      BY <1>1, <1>2, <1>4, <2>8, HasTailOther DEF TypeOK
    <3>2. InDl(q)' <=> InDl(q)
      BY <2>5, <2>8 DEF InDl
    <3>3. QED
      BY <1>4, <2>4, <2>5, <2>6, <2>8, <3>1, <3>2 DEF WorkOf
  <2>9. QED
    BY <2>7, <2>8
<1>8. QED
  BY <1>5, <1>6, <1>7 DEF IInv

LEMMA DlCreateIInv ==
    ASSUME IInv, NEW c \in Cells, DlCreate(c)
    PROVE  IInv'
<1> DEFINE p == Head(dlQ[c]).proc
<1>1. TypeOK /\ KindsOK /\ WorkInv
  BY DEF IInv
<1>2. /\ dlQ[c] # << >> /\ Head(dlQ[c]).kind = "dl_create" /\ Head(dlQ[c]) \in Work
      /\ p \in Procs /\ ReqCell[p] = c
  <2>1. dlQ[c] # << >> /\ Head(dlQ[c]).kind = "dl_create"
    BY DEF DlCreate
  <2>2. dlQ[c] \in Seq(Work)
    BY <1>1 DEF TypeOK
  <2>3. Head(dlQ[c]) \in Work
    BY <2>1, <2>2
  <2>4. ReqCell[p] = c
    BY <1>1, <2>1, <2>2 DEF KindsOK
  <2>5. QED
    BY <2>1, <2>3, <2>4 DEF Work
<1>3. /\ dlQ' = [dlQ EXCEPT ![c] = Tail(@)]
      /\ schedCfg' = schedCfg \cup {p}
      /\ UNCHANGED <<ulQ, ctrlQ, phase>>
  BY DEF DlCreate
<1>4. TypeOK'
  BY <1>1, <1>2, <1>3 DEF TypeOK, DlCreate, MapPut
<1>5. KindsOK'
  BY <1>1, <1>2, <1>3 DEF KindsOK, TypeOK
<1>6. WorkInv'
  <2>1. Has(dlQ[c], p)
    BY <1>1, <1>2, HeadHasKind, HasKindHas DEF TypeOK
  <2>2. /\ phase[p] = "running" /\ Unique(dlQ[c], p)
        /\ ~Has(ulQ, p) /\ ~Has(ctrlQ, p) /\ p \notin schedCfg
    BY <1>1, <1>2, <2>1 DEF WorkInv, WorkOf, InDl
  <2>3. SUFFICES ASSUME NEW q \in Procs PROVE WorkOf(q)'
    BY DEF WorkInv
  <2>4. WorkOf(q)
    BY <1>1 DEF WorkInv
  <2>5. ASSUME NEW d \in Cells
        PROVE  /\ Has(dlQ'[d], q) <=> Has(dlQ[d], q) /\ q # p
               /\ Unique(dlQ'[d], q)
    <3>1. CASE d = c
      <4>1. Unique(dlQ'[d], q)
        BY <1>1, <1>2, <1>3, <2>4, <3>1, UniqueTail DEF TypeOK, WorkOf
      <4>2. CASE q = p
        BY <1>1, <1>2, <1>3, <2>2, <3>1, <4>1, <4>2, HasTailSelf DEF TypeOK
      <4>3. CASE q # p
        BY <1>1, <1>2, <1>3, <3>1, <4>1, <4>3, HasTailOther DEF TypeOK
      <4>4. QED
        BY <4>2, <4>3
    <3>2. CASE d # c
      <4>1. q = p => ~Has(dlQ[d], q)
        BY <1>1, <1>2, <3>2 DEF KindsOK, Has
      <4>2. QED
        BY <1>1, <1>3, <2>4, <3>2, <4>1 DEF TypeOK, WorkOf
    <3>3. QED
      BY <3>1, <3>2
  <2>6. InDl(q)' <=> InDl(q) /\ q # p
    BY <2>5 DEF InDl
  <2>7. CASE q = p
    BY <1>3, <2>2, <2>4, <2>5, <2>6, <2>7 DEF WorkOf
  <2>8. CASE q # p
    BY <1>3, <2>4, <2>5, <2>6, <2>8 DEF WorkOf
  <2>9. QED
    BY <2>7, <2>8
<1>7. QED
  BY <1>4, <1>5, <1>6 DEF IInv

LEMMA SchedUeConfigResponseIInv ==
    ASSUME IInv, NEW p \in Procs, SchedUeConfigResponse(p)
    PROVE  IInv'
<1>1. TypeOK /\ KindsOK /\ WorkInv
  BY DEF IInv
<1>2. W("respond", p) \in Work /\ W("respond", p).proc = p
  BY DEF W, Work, Kinds
<1>3. /\ schedCfg' = schedCfg \ {p}
      /\ ctrlQ' = Append(ctrlQ, W("respond", p))
      /\ UNCHANGED <<ulQ, dlQ, phase>>
  BY DEF SchedUeConfigResponse
<1>4. TypeOK'
  BY <1>1, <1>2, <1>3 DEF TypeOK, SchedUeConfigResponse
<1>5. KindsOK'
  BY <1>1, <1>3 DEF KindsOK, W, TypeOK
<1>6. WorkInv'
  <2>1. /\ phase[p] = "running" /\ ~Has(ulQ, p) /\ ~Has(ctrlQ, p) /\ ~InDl(p)
    BY <1>1 DEF SchedUeConfigResponse, WorkInv, WorkOf
  <2>2. SUFFICES ASSUME NEW q \in Procs PROVE WorkOf(q)'
    BY DEF WorkInv
  <2>3. WorkOf(q)
    BY <1>1 DEF WorkInv
  <2>4. Has(ctrlQ', q) <=> Has(ctrlQ, q) \/ p = q
    BY <1>1, <1>2, <1>3, HasAppend DEF TypeOK
  <2>5. Unique(ctrlQ', q)
    BY <1>1, <1>2, <1>3, <2>1, <2>3, UniqueAppend DEF TypeOK, WorkOf
  <2>6. CASE q = p
    BY <1>3, <2>1, <2>3, <2>4, <2>5, <2>6 DEF WorkOf, InDl
  <2>7. CASE q # p
    BY <1>3, <2>3, <2>4, <2>5, <2>7 DEF WorkOf, InDl
  <2>8. QED
    BY <2>6, <2>7
<1>7. QED
  BY <1>4, <1>5, <1>6 DEF IInv

LEMMA RespondIInv ==
    ASSUME IInv, Respond
    PROVE  IInv'
<1> DEFINE p == Head(ctrlQ).proc
<1>1. TypeOK /\ KindsOK /\ WorkInv
  BY DEF IInv
<1>2. /\ ctrlQ # << >> /\ Head(ctrlQ).kind = "respond" /\ Head(ctrlQ) \in Work
      /\ p \in Procs /\ ReqCell[p] \in Cells
  <2>1. ctrlQ # << >> /\ Head(ctrlQ).kind = "respond"
    BY DEF Respond
  <2>2. Head(ctrlQ) \in Work
    BY <1>1, <2>1 DEF TypeOK
  <2>3. p \in Procs
    BY <2>2 DEF Work
  <2>4. QED
    BY <2>1, <2>2, <2>3, ReqAssumption
<1>3. /\ ctrlQ' = Tail(ctrlQ)
      /\ phase' = [phase EXCEPT ![p] = "responded"]
      /\ UNCHANGED <<ulQ, dlQ, schedCfg>>
  BY DEF Respond
<1>4. TypeOK'
  <2>1. ctrlQ' \in Seq(Work)
    BY <1>1, <1>2, <1>3 DEF TypeOK
  <2>2. phase' \in [Procs -> {"idle", "running", "responded"}]
    BY <1>1, <1>2, <1>3 DEF TypeOK
  <2>3. responses' \subseteq [ue_index : {ReqUe[r] : r \in Procs},
                              cell_index : Cells, result : BOOLEAN]
    <3>1. responses' = responses \cup
              {[ue_index |-> ReqUe[p], cell_index |-> ReqCell[p], result |-> TRUE]}
      BY DEF Respond
    <3>2. [ue_index |-> ReqUe[p], cell_index |-> ReqCell[p], result |-> TRUE]
            \in [ue_index : {ReqUe[r] : r \in Procs}, cell_index : Cells, result : BOOLEAN]
      BY <1>2
    <3>3. QED
      BY <1>1, <3>1, <3>2 DEF TypeOK
  <2>4. UNCHANGED <<ulQ, dlQ, demux, dlEntities, schedCfg, schedUes>>
    BY DEF Respond
  <2>5. QED
    BY <1>1, <2>1, <2>2, <2>3, <2>4 DEF TypeOK
<1>5. KindsOK'
  <2>1. \A i \in 1..Len(ctrlQ') : ctrlQ'[i].kind \in {"ul_complete", "respond"}
    BY <1>1, <1>2, <1>3 DEF KindsOK, TypeOK
  <2>2. QED
    BY <1>1, <1>3, <2>1 DEF KindsOK
<1>6. WorkInv'
  <2>1. Has(ctrlQ, p)
    BY <1>1, <1>2, HeadHasKind, HasKindHas DEF TypeOK
  <2>2. /\ phase[p] = "running" /\ Unique(ctrlQ, p)
        /\ ~Has(ulQ, p) /\ ~InDl(p) /\ p \notin schedCfg
    BY <1>1, <1>2, <2>1 DEF WorkInv, WorkOf
  <2>3. SUFFICES ASSUME NEW q \in Procs PROVE WorkOf(q)'
    BY DEF WorkInv
  <2>4. WorkOf(q)
    BY <1>1 DEF WorkInv
  <2>5. Unique(ctrlQ', q)
    BY <1>1, <1>2, <1>3, <2>4, UniqueTail DEF TypeOK, WorkOf
  <2>6. CASE q = p
    <3>1. ~Has(ctrlQ', q)
      BY <1>1, <1>2, <1>3, <2>2, <2>6, HasTailSelf DEF TypeOK
    <3>2. phase'[q] = "responded"
      BY <1>1, <1>2, <1>3, <2>6 DEF TypeOK
    <3>3. QED
      BY <1>3, <2>2, <2>4, <2>5, <2>6, <3>1, <3>2 DEF WorkOf, InDl
  <2>7. CASE q # p
    <3>1. Has(ctrlQ', q) <=> Has(ctrlQ, q)
      BY <1>1, <1>2, <1>3, <2>7, HasTailOther DEF TypeOK
    <3>2. phase'[q] = phase[q]
      BY <1>3, <2>7
    <3>3. QED
      BY <1>3, <2>4, <2>5, <2>7, <3>1, <3>2 DEF WorkOf, InDl
  <2>8. QED
    BY <2>6, <2>7
<1>7. QED
  BY <1>4, <1>5, <1>6 DEF IInv

LEMMA NextIInv == IInv /\ [Next]_vars => IInv'
<1> SUFFICES ASSUME IInv, [Next]_vars PROVE IInv'
  OBVIOUS
<1>1. ASSUME NEW p \in Procs, Create(p) PROVE IInv'
  BY <1>1, CreateIInv
<1>2. ASSUME NEW p \in Procs, SchedUeConfigResponse(p) PROVE IInv'
  BY <1>2, SchedUeConfigResponseIInv
<1>3. CASE UlCreate
  BY <1>3, UlCreateIInv
<1>4. CASE UeUlCreateComplete
  BY <1>4, UeUlCreateCompleteIInv
<1>5. ASSUME NEW c \in Cells, DlCreate(c) PROVE IInv'
  BY <1>5, DlCreateIInv
<1>6. CASE Respond
  BY <1>6, RespondIInv
<1>7. CASE UNCHANGED vars
  BY <1>7 DEF IInv, TypeOK, KindsOK, WorkInv, WorkOf, Has, Unique, InDl, vars
<1>8. QED
  BY <1>1, <1>2, <1>3, <1>4, <1>5, <1>6, <1>7 DEF Next

(* The inductive invariant holds in every reachable state. *)
LEMMA SpecIInv == Spec => []IInv
BY InitIInv, NextIInv, PTL DEF Spec

(* Every executor queue holds closures of procedures, the DL entities and *)
(* the UL demultiplexer hold only requested UE indexes, and every         *)
(* response names a requested UE and a cell.                              *)
THEOREM MacTypeCorrect == Spec => []TypeOK
<1>1. Spec => []IInv
  BY SpecIInv
<1>2. IInv => TypeOK
  BY DEF IInv
<1>3. QED
  BY <1>1, <1>2, PTL

-----------------------------------------------------------------------------
(***************************************************************************)
(* The stage of a request, read from the invariant's view of its work.    *)
(***************************************************************************)
StageOf(p) ==
    IF phase[p] # "running" THEN phase[p]
    ELSE IF Has(ulQ, p) THEN "requested"
    ELSE IF HasKind(ctrlQ, "ul_complete", p) \/ InDl(p) THEN "ul_installed"
    ELSE IF p \in schedCfg THEN "dl_installed"
    ELSE "configured"

(* In a queue of one kind of closure, a closure of that kind for q is    *)
(* there exactly when some closure for q is.                            *)
LEMMA HasKindOnly ==
    ASSUME NEW s \in Seq(Work), NEW k, NEW q, \A i \in 1..Len(s) : s[i].kind = k
    PROVE  HasKind(s, k, q) <=> Has(s, q)
<1>1. ASSUME Has(s, q) PROVE HasKind(s, k, q)
  <2>1. PICK i \in 1..Len(s) : s[i].proc = q
    BY <1>1 DEF Has
  <2>2. s[i] = W(k, q)
    BY <2>1, WorkEta
  <2>3. QED
    BY <2>2 DEF HasKind
<1>2. QED
  BY <1>1, HasKindHas

LEMMA StageValue ==
    ASSUME TypeOK, KindsOK, NEW p \in Procs
    PROVE  Stage(p) = StageOf(p)
<1>1. HasKind(ulQ, "ul_create", p) <=> Has(ulQ, p)
  BY HasKindOnly DEF TypeOK, KindsOK
<1>2. \A c \in Cells : HasKind(dlQ[c], "dl_create", p) <=> Has(dlQ[c], p)
  BY HasKindOnly DEF TypeOK, KindsOK
<1>3. QED
  BY <1>1, <1>2 DEF Stage, StageOf, InDl

LEMMA StageValuePrimed ==
    ASSUME TypeOK', KindsOK', NEW p \in Procs
    PROVE  Stage(p)' = StageOf(p)'
<1>1. HasKind(ulQ', "ul_create", p) <=> Has(ulQ', p)
  BY HasKindOnly DEF TypeOK, KindsOK
<1>2. \A c \in Cells : HasKind(dlQ'[c], "dl_create", p) <=> Has(dlQ'[c], p)
  BY HasKindOnly DEF TypeOK, KindsOK
<1>3. QED
  BY <1>1, <1>2 DEF Stage, StageOf, InDl

(* A request whose work and phase a step leaves alone keeps its stage. *)
LEMMA StageFrame ==
    ASSUME NEW r, phase'[r] = phase[r],
           \A k : HasKind(ulQ', k, r) <=> HasKind(ulQ, k, r),
           \A k : HasKind(ctrlQ', k, r) <=> HasKind(ctrlQ, k, r),
           \A c \in Cells : \A k : HasKind(dlQ'[c], k, r) <=> HasKind(dlQ[c], k, r),
           r \in schedCfg' <=> r \in schedCfg
    PROVE  Stage(r)' = Stage(r)
BY DEF Stage


(* A step that moves one request p to stage v and leaves the stage of    *)
(* every other request alone moves the abstract stage function the same  *)
(* way.                                                                   *)
LEMMA StageStep ==
    ASSUME NEW p \in Procs, NEW v, Stage(p)' = v,
           \A r \in Procs \ {p} : Stage(r)' = Stage(r)
    PROVE  [r \in Procs |-> Stage(r)]' = [[r \in Procs |-> Stage(r)] EXCEPT ![p] = v]
OBVIOUS

-----------------------------------------------------------------------------
(***************************************************************************)
(* Refinement: each step of the closure chain is a step of the abstract   *)
(* specification under the mapping stage <- Stage, or a stutter.          *)
(***************************************************************************)

LEMMA CreateRefines ==
    ASSUME IInv, NEW p \in Procs, Create(p)
    PROVE  Abs!Request(p)
<1>1. Stage(p) = "idle"
  BY DEF Create, Stage
<1>2. Stage(p)' = "requested"
  <2>1. Has(ulQ', p)
    BY HasAppend DEF Create, IInv, TypeOK, W, Work, Kinds
  <2>2. phase'[p] = "running"
    BY DEF Create, IInv, TypeOK
  <2>3. TypeOK' /\ KindsOK'
    BY CreateIInv DEF IInv
  <2>4. QED
    BY <2>1, <2>2, <2>3, StageValuePrimed DEF StageOf
<1>3. ASSUME NEW r \in Procs \ {p} PROVE Stage(r)' = Stage(r)
  <2>1. \A k : HasKind(ulQ', k, r) <=> HasKind(ulQ, k, r)
    BY HasKindAppend DEF Create, IInv, TypeOK, W, Work, Kinds
  <2>2. phase'[r] = phase[r]
    BY DEF Create, IInv, TypeOK
  <2>3. QED
    BY <2>1, <2>2, StageFrame DEF Create
<1>4. QED
  BY <1>1, <1>2, <1>3, StageStep DEF Abs!Request, Create

LEMMA UlCreateRefines ==
    ASSUME IInv, UlCreate
    PROVE  \E p \in Procs : Abs!InstallUl(p)
<1>1. Head(ulQ) \in Work
  BY DEF UlCreate, IInv, TypeOK
<1>2. PICK p \in Procs : p = Head(ulQ).proc
  BY <1>1 DEF Work
<1>3. Has(ulQ, p)
  BY <1>2, HeadHasKind, HasKindHas DEF UlCreate, IInv, TypeOK
<1>4. phase[p] = "running"
  BY <1>3 DEF IInv, WorkInv, WorkOf
<1>5. Stage(p) = "requested"
  BY <1>3, <1>4, StageValue DEF StageOf, IInv
<1>6. IInv'
  BY UlCreateIInv
<1>7. HasKind(ctrlQ', "ul_complete", p) /\ Has(ctrlQ', p)
  <2>1. HasKind(ctrlQ', "ul_complete", p)
    BY <1>2, HasKindAppend DEF UlCreate, IInv, TypeOK, W, Work, Kinds
  <2>2. QED
    BY <1>6, <2>1, HasKindHas DEF IInv, TypeOK
<1>8. ~Has(ulQ', p)
  BY <1>4, <1>6, <1>7 DEF IInv, WorkInv, WorkOf, UlCreate
<1>9. Stage(p)' = "ul_installed"
  BY <1>4, <1>6, <1>7, <1>8, StageValuePrimed DEF StageOf, IInv, UlCreate
<1>10. ASSUME NEW r \in Procs \ {p} PROVE Stage(r)' = Stage(r)
  <2>1. \A k : HasKind(ulQ', k, r) <=> HasKind(ulQ, k, r)
    BY <1>2, HasTailOther DEF UlCreate, IInv, TypeOK
  <2>2. \A k : HasKind(ctrlQ', k, r) <=> HasKind(ctrlQ, k, r)
    <3> TAKE k
    <3>1. W("ul_complete", p) \in Work /\ W("ul_complete", p) # W(k, r)
      BY DEF W, Work, Kinds
    <3>2. ctrlQ' = Append(ctrlQ, W("ul_complete", p))
      BY <1>2 DEF UlCreate
    <3>3. QED
      BY <3>1, <3>2, HasKindAppend DEF IInv, TypeOK
  <2>3. phase' = phase /\ dlQ' = dlQ /\ schedCfg' = schedCfg
    BY DEF UlCreate
  <2>4. QED
    BY <2>1, <2>2, <2>3, StageFrame
<1>11. Abs!InstallUl(p)
  BY <1>2, <1>5, <1>9, <1>10, StageStep DEF Abs!InstallUl, UlCreate, MapPut, Abs!MapPut
<1>12. QED
  BY <1>11


LEMMA UeUlCreateCompleteRefines ==
    ASSUME IInv, UeUlCreateComplete
    PROVE  UNCHANGED Abs!vars
<1>1. Head(ctrlQ) \in Work
  BY DEF UeUlCreateComplete, IInv, TypeOK
<1>2. PICK p \in Procs : p = Head(ctrlQ).proc
  BY <1>1 DEF Work
<1>3. HasKind(ctrlQ, "ul_complete", p) /\ Has(ctrlQ, p)
  BY <1>2, HeadHasKind, HasKindHas DEF UeUlCreateComplete, IInv, TypeOK
<1>4. phase[p] = "running" /\ ~Has(ulQ, p)
  BY <1>3 DEF IInv, WorkInv, WorkOf
<1>5. Stage(p) = "ul_installed"
  BY <1>3, <1>4, StageValue DEF StageOf, IInv
<1>6. IInv'
  BY UeUlCreateCompleteIInv
<1>7. InDl(p)'
  <2>1. ReqCell[p] \in Cells
    BY ReqAssumption
  <2>2. dlQ'[ReqCell[p]] = Append(dlQ[ReqCell[p]], W("dl_create", p))
    BY <1>2, <2>1 DEF UeUlCreateComplete, IInv, TypeOK
  <2>3. W("dl_create", p) \in Work
    BY DEF W, Work, Kinds
  <2>4. Has(dlQ'[ReqCell[p]], p)
    BY <2>1, <2>2, <2>3, HasAppend DEF IInv, TypeOK, W
  <2>5. QED
    BY <2>1, <2>4 DEF InDl
<1>8. Stage(p)' = "ul_installed"
  BY <1>4, <1>6, <1>7, StageValuePrimed DEF StageOf, IInv, UeUlCreateComplete
<1>9. ASSUME NEW r \in Procs \ {p} PROVE Stage(r)' = Stage(r)
  <2>1. \A k : HasKind(ctrlQ', k, r) <=> HasKind(ctrlQ, k, r)
    BY <1>2, HasTailOther DEF UeUlCreateComplete, IInv, TypeOK
  <2>2. ASSUME NEW c \in Cells, NEW k
        PROVE  HasKind(dlQ'[c], k, r) <=> HasKind(dlQ[c], k, r)
    <3>1. CASE c = ReqCell[p]
      <4>1. W("dl_create", p) \in Work /\ W("dl_create", p) # W(k, r)
        BY DEF W, Work, Kinds
      <4>2. dlQ'[c] = Append(dlQ[c], W("dl_create", p))
        BY <1>2, <3>1 DEF UeUlCreateComplete, IInv, TypeOK
      <4>3. QED
        BY <4>1, <4>2, HasKindAppend DEF IInv, TypeOK
    <3>2. CASE c # ReqCell[p]
      BY <1>2, <3>2 DEF UeUlCreateComplete, IInv, TypeOK
    <3>3. QED
      BY <3>1, <3>2
  <2>3. phase' = phase /\ ulQ' = ulQ /\ schedCfg' = schedCfg
    BY DEF UeUlCreateComplete
  <2>4. QED
    BY <2>1, <2>2, <2>3, StageFrame
<1>10. \A r \in Procs : Stage(r)' = Stage(r)
  BY <1>5, <1>8, <1>9
<1>11. QED
  BY <1>10 DEF Abs!vars, UeUlCreateComplete

LEMMA DlCreateRefines ==
    ASSUME IInv, NEW c \in Cells, DlCreate(c)
    PROVE  \E p \in Procs : Abs!InstallDl(p)
<1>1. Head(dlQ[c]) \in Work
  BY DEF DlCreate, IInv, TypeOK
<1>2. PICK p \in Procs : p = Head(dlQ[c]).proc
  BY <1>1 DEF Work
<1>3. Has(dlQ[c], p)
  BY <1>2, HeadHasKind, HasKindHas DEF DlCreate, IInv, TypeOK
<1>4. phase[p] = "running" /\ ~Has(ulQ, p)
  BY <1>3 DEF IInv, WorkInv, WorkOf, InDl
<1>5. Stage(p) = "ul_installed"
  BY <1>3, <1>4, StageValue DEF StageOf, IInv, InDl
<1>6. IInv'
  BY DlCreateIInv
<1>7. p \in schedCfg' /\ phase'[p] = "running"
  BY <1>2, <1>4 DEF DlCreate
<1>8. ~Has(ulQ', p) /\ ~Has(ctrlQ', p) /\ ~InDl(p)'
  BY <1>6, <1>7 DEF IInv, WorkInv, WorkOf
<1>9. ~HasKind(ctrlQ', "ul_complete", p)
  BY <1>6, <1>8, HasKindHas DEF IInv, TypeOK
<1>10. Stage(p)' = "dl_installed"
  BY <1>6, <1>7, <1>8, <1>9, StageValuePrimed DEF StageOf, IInv
<1>11. ASSUME NEW r \in Procs \ {p} PROVE Stage(r)' = Stage(r)
  <2>1. ASSUME NEW d \in Cells, NEW k
        PROVE  HasKind(dlQ'[d], k, r) <=> HasKind(dlQ[d], k, r)
    <3>1. CASE d = c
      BY <1>2, <3>1, HasTailOther DEF DlCreate, IInv, TypeOK
    <3>2. CASE d # c
      BY <3>2 DEF DlCreate, IInv, TypeOK
    <3>3. QED
      BY <3>1, <3>2
  <2>2. phase' = phase /\ ulQ' = ulQ /\ ctrlQ' = ctrlQ
    BY DEF DlCreate
  <2>3. r \in schedCfg' <=> r \in schedCfg
    BY <1>2 DEF DlCreate
  <2>4. QED
    BY <2>1, <2>2, <2>3, StageFrame
<1>12. Abs!InstallDl(p)
  BY <1>2, <1>5, <1>10, <1>11, StageStep DEF Abs!InstallDl, DlCreate, MapPut, Abs!MapPut
<1>13. QED
  BY <1>12


LEMMA SchedUeConfigResponseRefines ==
    ASSUME IInv, NEW p \in Procs, SchedUeConfigResponse(p)
    PROVE  Abs!Configure(p)
<1>1. phase[p] = "running" /\ ~Has(ulQ, p) /\ ~Has(ctrlQ, p) /\ ~InDl(p)
  BY DEF SchedUeConfigResponse, IInv, WorkInv, WorkOf
<1>2. ~HasKind(ctrlQ, "ul_complete", p)
  BY <1>1, HasKindHas DEF IInv, TypeOK
<1>3. Stage(p) = "dl_installed"
  BY <1>1, <1>2, StageValue DEF StageOf, IInv, SchedUeConfigResponse
<1>4. IInv'
  BY SchedUeConfigResponseIInv
<1>5. ~HasKind(ctrlQ', "ul_complete", p)
  <2>1. W("respond", p) \in Work /\ W("respond", p) # W("ul_complete", p)
    BY DEF W, Work, Kinds
  <2>2. QED
    BY <1>2, <2>1, HasKindAppend DEF SchedUeConfigResponse, IInv, TypeOK
<1>6. ~Has(ulQ', p) /\ ~InDl(p)' /\ p \notin schedCfg' /\ phase'[p] = "running"
  BY <1>1 DEF SchedUeConfigResponse, InDl
<1>7. Stage(p)' = "configured"
  BY <1>4, <1>5, <1>6, StageValuePrimed DEF StageOf, IInv
<1>8. ASSUME NEW r \in Procs \ {p} PROVE Stage(r)' = Stage(r)
  <2>1. \A k : HasKind(ctrlQ', k, r) <=> HasKind(ctrlQ, k, r)
    <3> TAKE k
    <3>1. W("respond", p) \in Work /\ W("respond", p) # W(k, r)
      BY DEF W, Work, Kinds
    <3>2. QED
      BY <3>1, HasKindAppend DEF SchedUeConfigResponse, IInv, TypeOK
  <2>2. phase' = phase /\ ulQ' = ulQ /\ dlQ' = dlQ
    BY DEF SchedUeConfigResponse
  <2>3. r \in schedCfg' <=> r \in schedCfg
    BY DEF SchedUeConfigResponse
  <2>4. QED
    BY <2>1, <2>2, <2>3, StageFrame
<1>9. QED
  BY <1>3, <1>7, <1>8, StageStep DEF Abs!Configure, SchedUeConfigResponse

LEMMA RespondRefines ==
    ASSUME IInv, Respond
    PROVE  \E p \in Procs : Abs!Respond(p)
<1>1. Head(ctrlQ) \in Work
  BY DEF Respond, IInv, TypeOK
<1>2. PICK p \in Procs : p = Head(ctrlQ).proc
  BY <1>1 DEF Work
<1>3. Has(ctrlQ, p)
  BY <1>2, HeadHasKind, HasKindHas DEF Respond, IInv, TypeOK
<1>4. phase[p] = "running" /\ ~Has(ulQ, p) /\ ~InDl(p) /\ p \notin schedCfg
      /\ Unique(ctrlQ, p)
  BY <1>3 DEF IInv, WorkInv, WorkOf
<1>5. ~HasKind(ctrlQ, "ul_complete", p)
  BY <1>2, <1>4, HeadOnlyKind DEF Respond, IInv, TypeOK
<1>6. Stage(p) = "configured"
  BY <1>4, <1>5, StageValue DEF StageOf, IInv
<1>7. Stage(p)' = "responded"
  BY <1>2 DEF Respond, Stage, IInv, TypeOK
<1>8. ASSUME NEW r \in Procs \ {p} PROVE Stage(r)' = Stage(r)
  <2>1. \A k : HasKind(ctrlQ', k, r) <=> HasKind(ctrlQ, k, r)
    BY <1>2, HasTailOther DEF Respond, IInv, TypeOK
  <2>2. phase'[r] = phase[r]
    BY <1>2 DEF Respond, IInv, TypeOK
  <2>3. ulQ' = ulQ /\ dlQ' = dlQ /\ schedCfg' = schedCfg
    BY DEF Respond
  <2>4. QED
    BY <2>1, <2>2, <2>3, StageFrame
<1>9. Abs!Respond(p)
  BY <1>2, <1>6, <1>7, <1>8, StageStep DEF Abs!Respond, Respond
<1>10. QED
  BY <1>9


LEMMA InitRefines == Init => Abs!Init
BY DEF Init, Abs!Init, Stage

LEMMA NextRefines == IInv /\ [Next]_vars => [Abs!Next]_Abs!vars
<1> SUFFICES ASSUME IInv, [Next]_vars PROVE [Abs!Next]_Abs!vars
  OBVIOUS
<1>1. ASSUME NEW p \in Procs, Create(p) PROVE [Abs!Next]_Abs!vars
  BY <1>1, CreateRefines DEF Abs!Next
<1>2. ASSUME NEW p \in Procs, SchedUeConfigResponse(p) PROVE [Abs!Next]_Abs!vars
  BY <1>2, SchedUeConfigResponseRefines DEF Abs!Next
<1>3. CASE UlCreate
  BY <1>3, UlCreateRefines DEF Abs!Next
<1>4. CASE UeUlCreateComplete
  BY <1>4, UeUlCreateCompleteRefines
<1>5. ASSUME NEW c \in Cells, DlCreate(c) PROVE [Abs!Next]_Abs!vars
  BY <1>5, DlCreateRefines DEF Abs!Next
<1>6. CASE Respond
  BY <1>6, RespondRefines DEF Abs!Next
<1>7. CASE UNCHANGED vars
  <2>1. \A r \in Procs : Stage(r)' = Stage(r)
    BY <1>7 DEF vars, Stage
  <2>2. QED
    BY <1>7, <2>1 DEF vars, Abs!vars
<1>8. QED
  BY <1>1, <1>2, <1>3, <1>4, <1>5, <1>6, <1>7 DEF Next

(* The closure chain of mac_ue_create_request_procedure, hopping across   *)
(* the UL, control and DL executors and waiting for the scheduler, is a  *)
(* behaviour of the four atomic steps of MacUeCreationAbstract: the      *)
(* safety part of ImplementsAbstractCreation, for every number of         *)
(* requests and cells.                                                    *)
THEOREM Refinement == Spec => Abs!SafeSpec
BY SpecIInv, InitRefines, NextRefines, PTL DEF Spec, Abs!SafeSpec


(* The invariant of the abstract steps holds of the closure chain. *)
LEMMA SpecInstalled == Spec => []Abs!Installed
<1>1. Abs!FreshUes
  BY ReqAssumption DEF Abs!FreshUes
<1>2. QED
  BY Refinement, <1>1, Abs!InstalledInvariant, PTL

(* The DU manager hears that a UE was created only when the UE is in the  *)
(* UL demultiplexer, has a DL entity with the request's C-RNTI and is     *)
(* configured in the scheduler, whatever the interleaving of the UL,      *)
(* control and DL executors and of the scheduler's answers: the invariant *)
(* of the abstract steps, carried to the closure chain by the refinement. *)
THEOREM CreationSafety == Spec => []ResponseImpliesInstalled
<1>1. Abs!Installed => ResponseImpliesInstalled
  <2>1. SUFFICES ASSUME Abs!Installed, NEW p \in Procs, phase[p] = "responded"
                 PROVE  /\ ReqUe[p] \in DOMAIN demux /\ demux[ReqUe[p]].crnti = ReqCrnti[p]
                        /\ ReqUe[p] \in DOMAIN dlEntities
                        /\ dlEntities[ReqUe[p]] = ReqCrnti[p]
                        /\ ReqCrnti[p] \in schedUes
    BY DEF ResponseImpliesInstalled
  <2>2. Stage(p) = "responded"
    BY <2>1 DEF Stage
  <2>3. QED
    BY <2>1, <2>2 DEF Abs!Installed
<1>2. QED
  BY SpecInstalled, <1>1, PTL

(* DlCreate runs on the DL executor only after UlCreate has run on the UL *)
(* executor for the same request, so no UE ever has a DL entity without   *)
(* its UL demultiplexer entry with the same C-RNTI, in any interleaving.  *)
THEOREM UlBeforeDlSafety == Spec => []UlBeforeDl
<1>1. Abs!Installed => UlBeforeDl
  <2>1. SUFFICES ASSUME Abs!Installed, NEW u \in DOMAIN dlEntities
                 PROVE  u \in DOMAIN demux /\ demux[u].crnti = dlEntities[u]
    BY DEF UlBeforeDl
  <2>2. PICK p \in Procs : u = ReqUe[p]
    BY <2>1 DEF Abs!Installed
  <2>3. QED
    BY <2>1, <2>2 DEF Abs!Installed, Abs!Stages
<1>2. QED
  BY SpecInstalled, <1>1, PTL

-----------------------------------------------------------------------------
(***************************************************************************)
(* Outstanding work: counting what a procedure has posted.                 *)
(***************************************************************************)

(* The positions of p's items in a queue number one if p has an item      *)
(* there and none otherwise, when p has at most one.                      *)
LEMMA CardQueue ==
    ASSUME NEW s \in Seq(Work), NEW p, Unique(s, p)
    PROVE  Cardinality({i \in DOMAIN s : s[i].proc = p}) = IF Has(s, p) THEN 1 ELSE 0
<1>1. CASE Has(s, p)
  <2>1. PICK i \in 1..Len(s) : s[i].proc = p
    BY <1>1 DEF Has
  <2>2. {j \in DOMAIN s : s[j].proc = p} = {i}
    BY <2>1 DEF Unique
  <2>3. QED
    BY <1>1, <2>2, FS_Singleton
<1>2. CASE ~Has(s, p)
  <2>1. {j \in DOMAIN s : s[j].proc = p} = {}
    BY <1>2 DEF Has
  <2>2. QED
    BY <1>2, <2>1, FS_EmptySet
<1>3. QED
  BY <1>1, <1>2

(* The DL steps of p, over all DL executors, number one if p has one      *)
(* posted and none otherwise: a DL step sits only in the executor of its  *)
(* request's cell, once.                                                  *)
LEMMA CardDl ==
    ASSUME TypeOK, KindsOK, NEW p \in Procs, \A c \in Cells : Unique(dlQ[c], p)
    PROVE  Cardinality(UNION {{<<c, i>> : i \in {j \in DOMAIN dlQ[c] : dlQ[c][j].proc = p}}
                              : c \in Cells})
           = IF InDl(p) THEN 1 ELSE 0
<1> DEFINE D == UNION {{<<c, i>> : i \in {j \in DOMAIN dlQ[c] : dlQ[c][j].proc = p}}
                       : c \in Cells}
<1>1. CASE InDl(p)
  <2>1. PICK c \in Cells : Has(dlQ[c], p)
    BY <1>1 DEF InDl
  <2>2. PICK i \in 1..Len(dlQ[c]) : dlQ[c][i].proc = p
    BY <2>1 DEF Has
  <2>3. ReqCell[p] = c
    BY <2>2 DEF KindsOK
  <2>4. ASSUME NEW d \in Cells, NEW j \in DOMAIN dlQ[d], dlQ[d][j].proc = p
        PROVE  <<d, j>> = <<c, i>>
    <3>1. d = c
      BY <2>3, <2>4 DEF KindsOK, TypeOK
    <3>2. j = i
      BY <2>2, <2>4, <3>1 DEF Unique, TypeOK
    <3>3. QED
      BY <3>1, <3>2
  <2>5. D = {<<c, i>>}
    BY <2>2, <2>4 DEF TypeOK
  <2>6. QED
    BY <1>1, <2>5, FS_Singleton
<1>2. CASE ~InDl(p)
  <2>1. D = {}
    BY <1>2 DEF InDl, Has, TypeOK
  <2>2. QED
    BY <1>2, <2>1, FS_EmptySet
<1>3. QED
  BY <1>1, <1>2

(* The invariant's one piece of work per running procedure is what        *)
(* Outstanding counts.                                                    *)
LEMMA IInvSingleOutstanding == IInv => SingleOutstanding
<1> SUFFICES ASSUME IInv, NEW p \in Procs
             PROVE  Outstanding(p) = IF phase[p] = "running" THEN 1 ELSE 0
  BY DEF SingleOutstanding
<1>1. TypeOK /\ KindsOK /\ WorkOf(p)
  BY DEF IInv, WorkInv
<1>2. Cardinality({i \in DOMAIN ulQ : ulQ[i].proc = p}) = IF Has(ulQ, p) THEN 1 ELSE 0
  BY <1>1, CardQueue DEF TypeOK, WorkOf
<1>3. Cardinality({i \in DOMAIN ctrlQ : ctrlQ[i].proc = p}) = IF Has(ctrlQ, p) THEN 1 ELSE 0
  BY <1>1, CardQueue DEF TypeOK, WorkOf
<1>4. Cardinality(UNION {{<<c, i>> : i \in {j \in DOMAIN dlQ[c] : dlQ[c][j].proc = p}}
                         : c \in Cells})
      = IF InDl(p) THEN 1 ELSE 0
  BY <1>1, CardDl DEF WorkOf
<1>5. QED
  BY <1>1, <1>2, <1>3, <1>4 DEF Outstanding, WorkOf

(* Every closure the procedure posts captures `this`: in every reachable  *)
(* state a running procedure has exactly one closure posted to the UL,    *)
(* control or DL executors or one scheduler answer awaited, and a         *)
(* procedure that has responded has nothing left, for every number of     *)
(* requests and cells and every interleaving of the executors.            *)
THEOREM OutstandingWork == Spec => []SingleOutstanding
BY SpecIInv, IInvSingleOutstanding, PTL

=============================================================================
