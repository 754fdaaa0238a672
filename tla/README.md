# TLA+ models of the srsRAN control-plane sources

This directory holds TLA+ models of the code under `src/`. With them come TLC configurations that check the models on small instances, and TLAPS proofs, for every instance, of the safety properties of the scheduler, the MAC UE creation, the UDP gateway and the E1AP response translation. `PROJECT.json` records the following:

- the components of the sources and their status;
- every run and what it expects;
- the mutants each passing property must catch;
- the map from every modelling definition to the source lines it translates;
- the findings, the hazards and the theorems.

## The system and its parts

The sources are a slice of a gNB control plane, in five parts.

- **Per-UE task scheduler** (`lib/cu_cp/task_schedulers/ue_task_scheduler.cpp`). It creates one FIFO control loop per UE index, with room for 16 pending procedures. It forwards `handle_ue_async_task` and `clear_pending_tasks` to the loop of the UE. The procedures it runs, bearer context setup and modification among them, are suspendable async tasks.
- **MAC UE creation** (`lib/mac/ue_creation_procedure.h`). This is a chain of closures that hops across executors:
  1. the constructor posts the UL step to the UL executor;
  2. the UL step posts `ue_ul_create_complete` to the control executor;
  3. that posts the DL step to the DL executor of the UE's cell;
  4. the scheduler later answers through `sched_ue_config_response`;
  5. that posts the response to the control executor.
- **E1AP translation helpers** (`lib/cu_cp/helpers/rrc_ue_e1ap_asn1_helpers.h`). These are what a bearer procedure uses on each side of its await. One builds the ASN.1 bearer context setup request from the CU-CP's internal request. Two translate the E1AP setup and modification responses back into the RRC UE's messages, with partial success as parallel success and failure lists.
- **UDP network gateway** (`lib/gateways/udp_network_gateway.cpp`). It is the socket used by the user plane. Its operations are `create_and_connect`, `recreate_and_reconnect`, `handle_pdu`, `receive` and `close_socket`. `create_and_bind` (lines 59-136) is called only from `create_and_connect`, when a bind address is configured, and the class header that would make it public is not under `src/`. So it is modelled as the first half of `create_and_connect` (the bind loop `Try("bind")` and `BindDone`), not as an operation of its own.
- **Bit packing** (`lib/srsvec/bit.cpp`). It holds `bit_pack` and `bit_unpack` at value level and at byte level. Encoders and decoders across the stack use them.

The rest of `src/` is one of the following, and is listed as not modelled in `PROJECT.json` with the reason:

- declarations (`f1ap_du_impl.h`, `e1_cu_up.h`, `cu_up_factory.h`);
- wiring (`du_high.cpp`, whose one state change is a timer tick every subframe);
- a pass-through (`sdap_entity_tx_impl.h`);
- floating-point PHY code and configuration types;
- string formatting (`plmn_id.h`);
- tests.

## Modules and their correspondence to the code

| Module | Code | State | Actions |
|---|---|---|---|
| `UeTaskScheduler` | ue_task_scheduler.cpp, plus the FIFO loop (spec section 4.2, not under src/) | `queue[u]`, `status[t]`, `owner`, `resumes`, and the histories `accepted` and `started` | `HandleUeAsyncTask` (which starts the task now, enqueues it or rejects it), `ClearPendingTasks`, `Suspend`, `Complete` (completion with promotion of the next task in the same step) |
| `MacUeCreation` | ue_creation_procedure.h | one FIFO queue per executor (`ulQ`, `ctrlQ`, `dlQ[c]`), the demux, DL entities, scheduler state, the phases and the responses | `Create`, `UlCreate`, `UeUlCreateComplete`, `DlCreate`, `SchedUeConfigResponse`, `Respond` |
| `MacUeCreationAbstract` | ue_creation_procedure.h, as the DU manager sees it | `stage[p]`, the demux, DL entities, the scheduler's UEs and the responses | `Request`, `InstallUl`, `InstallDl`, `Configure`, `Respond`: the four steps of the procedure, each atomic, in order |
| `UdpGateway` | udp_network_gateway.cpp | `sockFd`; the kernel's open, bound, connected and non-blocking descriptors; the position `pc`/`idx` in the address loops; the history `overwritten` of open descriptors that `socket()` overwrote in `sock_fd` | `CreateAndConnect`, `RecreateAndReconnect`, `Try(loop)` (one address iteration with every failure), `BindDone`, `ConnectDone`, `HandlePdu`, `Receive` |
| `SrsvecBit` | bit.cpp | the byte-loop counter, the input and output buffers, and `pc` (including a `fault` state for an out-of-bounds access) | `UnpackByte`, `UnpackExit`, `PackByte`, `PackByteSse`, `PackExit` |
| `E1apTranslation` | rrc_ue_e1ap_asn1_helpers.h:378-795 | the E1AP response, the RRC UE message and the `value()` behaviour | `FillSetupResponse`, `FillModificationResponse` |
| `E1apSetupRequest` | rrc_ue_e1ap_asn1_helpers.h:18-376 | the internal request, the caller's ASN.1 message and the function's by-value copy | `FillSetupRequest` |

Each action models a whole handler or closure: its guard is the code's early return or assertion, and its effect is all of its assignments. Data is abstracted to what the properties tell apart:

- tasks, procedures, TNLs and causes are model values;
- an E1AP item is its ids, its lists and the set of its optional fields that hold a value;
- descriptors are small integers, with `socket()` returning the lowest free one.

Each MC module fixes the constants. `UdpGateway` has one configuration per question: the passing run with a bind address, and one per violation. In `SrsvecBit` the build (`HAVE_SSE` or not) is a variable chosen in `Init`, so one run covers both builds.

## Runs

Each run and what it shows is listed in `PROJECT.json`. In short:

- **ue_sched** (2 UEs, 4 tasks, queue capacity 2, one suspension per task). It checks these properties:
  - `MutualExclusion`: at most one active task per UE, even while it is suspended.
  - `WorkConserving`: a loop with queued tasks is never idle.
  - `FifoOrder`: tasks start in the order they were accepted, cancelled ones skipped.
  - `TaskLifeCycleProp`: an action property. Every step moves each task along its life cycle (`LifeCycle`): new to pending, active or dropped; pending to active or cancelled; active to done; done, cancelled and dropped never change. A promotion that left the head in the queue would start it twice; a `clear_pending_tasks` that touched the running task, or a cancellation that a later promotion undid, would break it too.
  - `QueuedTaskEventuallyHandled`: a liveness property.

  A queue of 2 is enough to make it fill up while a task runs. Two UEs show that their loops are independent.
- **ue_sched_lost** (violation): a task handed to a full queue is dropped without a word to the caller.
- **mac_create** (3 procedures, 2 cells, two of them sharing a C-RNTI). It checks these properties:
  - `SingleOutstanding`: one closure in flight per procedure.
  - `ResponseImpliesInstalled`: no response before the UL, DL and scheduler state exist.
  - `UlBeforeDl`.
  - `CreationCompletes`.
  - `ImplementsAbstractCreation`: the refinement `Abs!Spec`, fairness included. `Abs` is `MacUeCreationAbstract` with `stage[p]` replaced by `Stage(p)`. `Stage(p)` is read off where `p`'s one piece of outstanding work is: the UL step queued gives `requested`; `ue_ul_create_complete` or the DL step queued gives `ul_installed`; the scheduler's answer awaited gives `dl_installed`; the response queued gives `configured`. `UeUlCreateComplete` only moves the work from the control executor to a DL executor, so it is a stuttering step of the abstraction.

  Three procedures over two cells give every cross-executor interleaving of two procedures on one DL executor, and one on another.
- **udp_gateway** (bind address, `close()` may report failure) checks `LeakOnlyByOverwrite`. Every open descriptor is `sock_fd` or one that `socket()` overwrote in `sock_fd` while it was still open (the history `overwritten`, recorded by `Try`). So every failure branch of both address loops, the failed getaddrinfo of the bind half and a failing `close()` release what they opened. The only way to lose a descriptor is the assignment at lines 83 and 178. It uses 2 addresses, two descriptors and 3 calls of `create_and_connect` or `recreate_and_reconnect` in any order, including repeated calls on an initialized gateway. That covers every failure position in both loops, a retry after failure and a failed close on the last address.
- **udp_bind_leak** (violation): with a bind address, `create_and_connect` overwrites the bound `sock_fd` with a new socket, and `NoFdLeak` (no descriptor open besides `sock_fd` when idle) fails. The same assignment leaks on a repeated `create_and_connect` of an initialized gateway, with or without a bind address.
- **udp_stale_fd** (violation): without a bind address, a `close()` that fails on the last address leaves the released descriptor in `sock_fd` (line 337). `create_and_connect` returns true, and `UsableWhenInitialized` (an initialized gateway holds a connected, non-blocking socket) fails.
- **bit_pack_unpack** covers both builds, with and without `HAVE_SSE`. It checks that packing matches the reference `RefPack` and unpacking the reference `RefUnpack`, both defined bit by bit. Without `HAVE_SSE` it uses every length from 1 to 10 bits: below a byte, exactly a byte, and a byte plus a remainder. With `HAVE_SSE` it uses a whole byte of every value.
- **bit_unpack_unaligned** (violation): `bit_unpack` of a length that is not a multiple of 8 reads `packed[nbytes]`, one byte past the buffer.
- **e1ap_translate** checks both response paths under both outcomes of `value()` on an empty optional, abort or lost write:
  - `PartialResultsReported`: the sessions and DRBs set up, modified, failed or failed to modify in the E1AP response are exactly those in the RRC UE message's lists, with translated causes.

  Every list holds zero or one item, with two sessions and a failed flow. That is enough for a response that mixes success and failure.
- **e1ap_setup_tunnels** (violation): line 401 puts the NG DL tunnel in every UL param of the setup response, so `UlTunnelsPreserved` fails.
- **e1ap_request** checks `OptionalsEncoded`: every `has_value()` at the five levels of the request yields its `_present` flag and no other flag, and every session is carried.
- **e1ap_request_delivered** (violation): the request parameter is taken by value, so the caller's message is never filled in.

More issues were met while modelling: the gateway that counts as initialized while bound but unconnected, the SSE out-of-bounds pack, `success` never set to true, optionals written through `value()`, and one IE per session. They are recorded as hazards in `PROJECT.json`, each with the configuration change under which TLC shows it.

Every property of a passing run has a mutant in `PROJECT.json`: a plausible bug in the mapped code that TLC finds violating it.

## Fairness

- **`UeTaskScheduler`**: weak fairness on `Complete(u)`. A running procedure is resumed by its timer or its response. Timers are ticked every subframe (`du_high.cpp:36`) and bound every await. There is no fairness on handing in new tasks, suspending or clearing.
- **`MacUeCreation`**: weak fairness on every executor step and on the scheduler's answer. Executors run what is posted to them (spec section 5), and the scheduler answers every `config_ue`. There is none on `Create`, which is the DU manager's choice.

The translation, gateway and bit modules are checked for safety only. Their final states are the ends of calls, so those configurations disable deadlock checking.

## Proofs

`UeTaskSchedulerProofs` proves five theorems for every set of UEs and tasks, every `QueueCap > 0` and every `MaxSuspend`:

- `TypeCorrect`: `Spec => []TypeOK`, including the queue bound.
- `SchedulerSafety`: `Spec => []MutualExclusion`.
- `WorkConservingSafety`: `Spec => []WorkConserving`.
- `FifoPositionsSafety`: `Spec => []FifoPositions` (see below). `FifoPositions` states the FIFO order by positions instead of `SelectSeq`: for each UE, the started tasks followed by the queued ones (`Work(u)`) appear in `accepted[u]` in the same relative order, none of them is cancelled, and every accepted task that is not cancelled is among them.
- `TaskLifeCycleSafety`: `Spec => TaskLifeCycleProp`, the action property. The lemma `StepLifeCycle` shows `IInv /\ [Next]_vars => TaskLifeCycle` with one case per action. `ClearEffect` shows that `clear_pending_tasks` only turns pending tasks of its UE into cancelled ones, because `QueuedArePending` makes every queued task pending. `Complete` turns one active task into done and the head of the queue, pending by the same fact, into active. PTL then lifts the lemma from `[]IInv`.

Mutual exclusion alone is not inductive. A step that completes a task promotes the head of the queue, and that is safe only if every queued task is pending, owned by that UE, and queued once. The inductive invariant `IInv` therefore conjoins `TypeOK`, `QueuedArePending` and `QueueDistinct` with the two properties. TLC checks it on the ue_sched instance.

The proof has these parts:

- `InitIInv`: `Init => IInv`.
- `StepIInv`: `IInv /\ [Next]_vars => IInv'`, with one step per action and, under each, one step per conjunct the action can disturb.
- Lemmas `QueueEntryIsTask` and `QueueFrame` about queue entries and the unchanged queues of other UEs.
- A final PTL step.

`FifoPositions` is not inductive either, even with `IInv`, for two reasons:
- A step of `handle_ue_async_task` appends the new task to `accepted[u]`, and to `started[u]` or `queue[u]`. That keeps the order only if the task occurs in none of these sequences yet. The code guarantees this because a task is handed to the scheduler once, while its status is still `"new"`.
- `clear_pending_tasks` cancels exactly the queued tasks. That keeps the started prefix intact only if no started task is pending.

The inductive invariant `FifoInv` therefore conjoins `IInv` with two history facts and the property:
- `StartedRan`: every started task is active or done.
- `AcceptedNotNew`: no accepted task is still new.

TLC checks `FifoPositions` on the ue_sched instance. The proof (`InitFifo`, `StepFifo`, `SpecFifo`) works on `FifoOf(W, A, st)`, the property for one UE, with these lemmas:
- `FifoAppend`: accepting a fresh task at the end of both sequences.
- `FifoPrefix`: cancelling the queued suffix.
- `FifoKeep` and `FifoKeepSame`: status changes that cancel nothing in the work.
- `FifoFrameUE`: the other UEs.
- `AppendHeadTail` and `ConcatAppend`: the sequence identities of promotion and enqueueing.
- `HistoryStep`: the two history facts. It is stated over the opaque `StartedGrow` and `AcceptedGrow`, which say that each sequence grows by at most one active, resp. accepted, task.

`MacUeCreationProofs` proves five theorems for every set of procedures and cells. They assume `ReqAssumption`: each request's cell is a cell, and UE indexes are fresh.

- `MacTypeCorrect`: `Spec => []TypeOK`.
- `Refinement`: `Spec => Abs!SafeSpec`. This is the safety part of `ImplementsAbstractCreation`.
- `CreationSafety`: `Spec => []ResponseImpliesInstalled`.
- `UlBeforeDlSafety`: `Spec => []UlBeforeDl`.
- `OutstandingWork`: `Spec => []SingleOutstanding`. `SingleOutstanding` counts a procedure's closures with `Cardinality`. The lemmas `CardQueue` and `CardDl` show that a queue in which a procedure occurs at most once holds it 1 or 0 times. The DL count is a union over cells, and `KindsOK` puts a DL closure only on its request's cell. `WorkInv` then gives exactly one for a running procedure and none otherwise.

Neither `TypeOK` nor the refinement step is inductive on its own. A step of an executor is safe only if the procedure at the head of the queue has no other closure posted anywhere. The inductive invariant `IInv` is `TypeOK /\ KindsOK /\ WorkInv`:

- `KindsOK` says which closures each executor holds, and that a DL closure sits on its request's cell.
- `WorkInv` says that a procedure has at most one closure in each queue. A running procedure has its work in exactly one of the four places (the UL queue, the control queue, a DL queue, the scheduler). A procedure that is not running has work nowhere.

TLC checked `IInv` on the mac_create instance before it was proved. The proof has these parts:

- `InitIInv`.
- One preservation lemma per action, each with one step per conjunct. Queue lemmas on `Append` and `Tail` support them (`HasAppend`, `HasTailOther`, `HasTailSelf`, `UniqueAppend`, `HeadOnlyKind`).
- One refinement lemma per action (`CreateRefines` ... `RespondRefines`). Each one computes the acting procedure's `Stage` before and after from `WorkOf`, and shows with `StageFrame` that the other procedures' stages do not move.
- `InitRefines` and `NextRefines`, then a PTL step.

`MacUeCreationAbstract` proves `InstalledInvariant`: with fresh UE indexes, `SafeSpec => []Installed`. `CreationSafety` follows from `Refinement` and that theorem (the lemma `SpecInstalled`), because `Stage(p) = "responded"` exactly when `phase[p] = "responded"`. `UlBeforeDl` also needs the domain bounds of `Installed`.

`UdpGatewayProofs` proves two theorems for every set of descriptors, every number of getaddrinfo results, every bound on the calls, with or without a bind address and whether or not `close()` may fail. They assume `GatewayAssumption`.

- `GatewayTypeCorrect`: `Spec => []TypeOK`. `TypeOK` is inductive once `socket()` is known to return a free descriptor. The lemma `LowestFreeIsFree` shows this: `Fds` is a set of naturals, so it has a least free element (`WFMin` over `NatLessThanWellFounded`).
- `LeakOnlyByOverwriteSafety`: `Spec => []LeakOnlyByOverwrite`. The property is inductive as it stands. `TryLeak` covers one address iteration: `overwritten'` takes in the open descriptor that `sock_fd` named, so the old open set is covered after the step, a `close_socket` only removes descriptors, and `Take` opens exactly the new `sock_fd`. `NextLeak` adds the bind-address getaddrinfo failure, which closes `sock_fd` itself, and the steps that change neither `open` nor `sock_fd`.

`NoFdLeak` and `UsableWhenInitialized` are not proved: the violation runs udp_bind_leak and udp_stale_fd show that the code breaks them.

`E1apTranslationProofs` proves two theorems for every set of session, DRB and flow ids, tunnels and causes, for lists of every length, and for both outcomes of `value()` on an empty optional:

- `E1apTypeCorrect`: `Spec => []TypeOK`.
- `PartialResultsSafety`: `Spec => []PartialResultsReported`.

The properties talk about the filled message only after the fill, so they are not inductive. The inductive invariant `IInv` adds two facts. `InputOK` says the input is a response of its path's type. `Fresh` says that before the fill the message's lists are empty. TLC checked `IInv` on the e1ap_translate instance before it was proved. The proof has these parts:

- Type lemmas for every item translation (`UpParamsOutType` ... `SessionListTypes`). `MapIsSeq` shows that an item-by-item map of a sequence is a sequence.
- Fact lemmas for every item translation (`SetupItemFacts`, `SetupModItemFacts`, `ModifiedItemFacts`). Each shows that the output item keeps the session id and carries exactly the input session's DRB facts. The list lemmas (`SetupListFacts` ...) lift these to whole lists.
- `ElemsConcat`, `ImageOfUnion` and `UnionCup` handle the modification path, whose session list is the concatenation of the setup-mod and modified lists.
- One step lemma per branch of each fill function: failure (which keeps the lists empty), abort, success, and the modification response without the NG-RAN part. `SetupStep` and `ModStep` split the actions on the code's conditions. Then come `NextIInv` and a PTL step.

`E1apSetupRequestProofs` proves two theorems for every set of requests and for lists of every length:
- `SetupRequestTypeCorrect`: `Spec => []TypeOK`.
- `OptionalsEncodedSafety`: `Spec => []OptionalsEncoded`.

They assume `RequestAssumption`: every request is in `ReqIn`. That set is the set of values the C++ input types can hold. A loss rate can hold a value only inside the GBR flow info, and the PDCP receive status only inside the PDCP SN status info. The reason is that the C++ optionals are nested (helpers.h:184-202 and 269-281). Without this assumption, a loss rate would be in the input with no flag in the output.

The inductive invariant is `IInv == TypeOK /\ (pc = "returned" => local = Build(request))`. Its proof needs `BuildType`, which comes from one type lemma per item translation (`FlowMapOutType` ... `SessionOutType`). The property then follows from `BuildEncodes`: `FlagFacts(Build(r)) = OptionFacts(r)` and the session ids agree. `BuildEncodes` rests on one fact lemma per level (`FlowFacts`, `CgFacts`, `DrbFacts`, `SessFacts`, `BuildSessions`). Each shows that an item's flags are its input's options that hold a value, and `FactsSplit` assembles them.

These are only model-checked:

- Liveness (`QueuedTaskEventuallyHandled`, `CreationCompletes`, and the fairness part of `ImplementsAbstractCreation`): TLAPS does not reason about fairness and ENABLED.
- `FifoOrder`: it is stated with `SelectSeq`, whose definition is a recursive function over the sequence, and what that computes for every input needs induction over data. The provers cannot instantiate the library's induction theorems. Its positional form `FifoPositions` is proved instead. That the two agree when a task is accepted once is not proved; TLC checks `FifoOrder` on the ue_sched run, and `FifoPositions` held there as well when it was checked alongside.
- The bit-packing correctness: it rests on recursive functions over the data, for the same reason.

## Not modelled

- The FIFO loop's implementation and the async task primitive: they are not under `src/`, so the scheduler's loop is modelled from spec section 4.2 and marked `spec_modelled` in the map.
- The ASN.1 converters (`e1ap_cause_to_cu_cp_cause`, `asn1_to_up_transport_layer_info`): outside `src/`, taken as injective maps.
- `string_to_enum`, keys and bit rates: values are abstracted away.
- `fill_asn1_bearer_context_modification_request`: an empty TODO.
- The timer manager and the F1 setup retry: only declarations are present.
- PHY signal processing: floating point.

## Plan

Done so far:
- the five components above;
- their runs and mutants;
- the scheduler proofs;
- the MAC UE creation abstraction, its refinement (TLC with fairness, TLAPS for safety) and the MAC safety proofs;
- the gateway proofs;
- the E1AP response translation proofs and the scheduler's life-cycle action property;
- the request builder proofs and the positional FIFO order proof.

Next:
1. Model the value translation of `string_to_enum` in the request builder, to check the default-versus-absent hazard.
2. Add an abstract specification of a bearer procedure (request, await, translated response) and show that the translation modules refine its result relation.
