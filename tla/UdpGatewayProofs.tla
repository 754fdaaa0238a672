--------------------------- MODULE UdpGatewayProofs ---------------------------
(***************************************************************************)
(* Proofs about UdpGateway for every set of descriptors, every number of  *)
(* getaddrinfo results and every bound on the calls, with or without a    *)
(* bind address and whether or not close() may fail: the types, and that  *)
(* a descriptor is lost only where socket() overwrites an open sock_fd.   *)
(***************************************************************************)
EXTENDS UdpGateway, WellFoundedInduction, TLAPS

(***************************************************************************)
(* socket() finds a descriptor: when one of Fds is free, LowestFree is a  *)
(* free descriptor.  Fds is a set of naturals, and every non-empty set of *)
(* naturals has a least element.                                          *)
(***************************************************************************)
LEMMA LowestFreeIsFree ==
    ASSUME Fds \ open # {}
    PROVE  LowestFree \in Fds \ open
<1>1. \E x \in Fds \ open : \A y \in Fds \ open : ~(<<y, x>> \in OpToRel(<, Nat))
  BY NatLessThanWellFounded, WFMin, GatewayAssumption
<1>2. \E x \in Fds \ open : \A y \in Fds \ open : x <= y
  <2>1. PICK x \in Fds \ open : \A y \in Fds \ open : ~(<<y, x>> \in OpToRel(<, Nat))
    BY <1>1
  <2>2. ASSUME NEW y \in Fds \ open PROVE x <= y
    <3>1. x \in Nat /\ y \in Nat
      BY GatewayAssumption
    <3>2. ~(y < x)
      BY <2>1, <3>1 DEF OpToRel
    <3>3. QED
      BY <3>1, <3>2
  <2>3. QED
    BY <2>2
<1>3. QED
  BY <1>2 DEF LowestFree

(* A descriptor is never -1. *)
LEMMA NoFdNotFd == NoFd \notin Fds
BY GatewayAssumption DEF NoFd

-----------------------------------------------------------------------------
(***************************************************************************)
(* Types.                                                                  *)
(***************************************************************************)

LEMMA InitTypeOK == Init => TypeOK
BY GatewayAssumption DEF Init, TypeOK, NoFd, IoOutcome

(* The steps of one address iteration keep the kernel's sets inside open. *)
LEMMA TryTypeOK ==
    ASSUME TypeOK, NEW loop \in {"bind", "connect"}, Try(loop)
    PROVE  TypeOK'
<1>0. overwritten' \subseteq Fds
  BY DEF Try, TypeOK
<1>1. CASE sockFd' = NoFd /\ idx' = idx + 1 /\ UNCHANGED kernel
  BY <1>0, <1>1, GatewayAssumption DEF Try, TypeOK, kernel
<1>2. CASE /\ Fds \ open # {}
           /\ \/ idx' = idx + 1 /\ CloseSocketOf(LowestFree)
              \/ NonBlocking /\ idx' = idx + 1 /\ CloseSocketOf(LowestFree)
              \/ Take(loop, LowestFree)
  <2>1. LowestFree \in Fds
    BY <1>2, LowestFreeIsFree
  <2>2. idx' \in 0..(NAddrs + 1) /\ UNCHANGED <<pc, result, calls, io>>
    BY <1>2, GatewayAssumption DEF Try, TypeOK, Take
  <2>3. CASE CloseSocketOf(LowestFree)
    BY <1>0, <2>1, <2>2, <2>3 DEF TypeOK, CloseSocketOf, Release
  <2>4. CASE Take(loop, LowestFree)
    BY <1>0, <2>1, <2>2, <2>4 DEF TypeOK, Take
  <2>5. QED
    BY <1>2, <2>3, <2>4
<1>3. QED
  BY <1>1, <1>2 DEF Try

LEMMA NextTypeOK == TypeOK /\ [Next]_vars => TypeOK'
<1> SUFFICES ASSUME TypeOK, [Next]_vars PROVE TypeOK'
  OBVIOUS
<1>1. ASSUME calls < MaxCalls, CreateAndConnectBody PROVE TypeOK'
  <2>1. calls' \in 0..MaxCalls /\ io' \in IoOutcome /\ overwritten' \subseteq Fds
    BY <1>1, GatewayAssumption DEF CreateAndConnectBody, TypeOK
  <2>2. CASE HasBindAddress /\ IsInitialized /\ pc' = "idle" /\ result' = "false"
             /\ UNCHANGED idx /\ CloseSocketOf(sockFd)
    BY <2>1, <2>2 DEF TypeOK, CloseSocketOf, Release
  <2>3. CASE HasBindAddress /\ ~IsInitialized /\ pc' = "idle" /\ result' = "false"
             /\ UNCHANGED <<idx, sockFd, open, bound, connected, nonblock>>
    BY <2>1, <2>3 DEF TypeOK
  <2>4. CASE HasBindAddress /\ pc' = "bind" /\ idx' = 1
             /\ UNCHANGED <<sockFd, result>> /\ UNCHANGED kernel
    BY <2>1, <2>4, GatewayAssumption DEF TypeOK, kernel
  <2>5. CASE ~HasBindAddress /\ StartConnect
    <3>1. CASE pc' = "idle" /\ result' = "false" /\ UNCHANGED <<sockFd, idx>> /\ UNCHANGED kernel
      BY <2>1, <3>1 DEF TypeOK, kernel
    <3>2. CASE pc' = "connect" /\ idx' = 1 /\ UNCHANGED <<sockFd, result>> /\ UNCHANGED kernel
      BY <2>1, <3>2, GatewayAssumption DEF TypeOK, kernel
    <3>3. QED
      BY <2>5, <3>1, <3>2 DEF StartConnect
  <2>6. QED
    BY <1>1, <2>2, <2>3, <2>4, <2>5 DEF CreateAndConnectBody
<1>7. CASE CreateAndConnect \/ RecreateAndReconnect
  <2>1. CASE CreateAndConnect
    BY <2>1, <1>1 DEF CreateAndConnect
  <2>2. CASE RecreateAndReconnect /\ IsInitialized
    BY <2>2 DEF RecreateAndReconnect, TypeOK
  <2>3. CASE RecreateAndReconnect /\ ~IsInitialized
    BY <2>3, <1>1 DEF RecreateAndReconnect
  <2>4. QED
    BY <1>7, <2>1, <2>2, <2>3 DEF IsInitialized
<1>2. CASE Try("bind") \/ Try("connect")
  BY <1>2, TryTypeOK
<1>3. CASE BindDone \/ ConnectDone
  <2>1. CASE BindDone
    <3>1. UNCHANGED <<sockFd, open, bound, connected, nonblock, calls, io, overwritten>>
          /\ pc' \in {"idle", "connect"} /\ result' \in {"false", result}
          /\ idx' \in {idx, 1}
      BY <2>1 DEF BindDone, StartConnect, kernel
    <3>2. QED
      BY <3>1, GatewayAssumption DEF TypeOK
  <2>2. CASE ConnectDone
    BY <2>2 DEF ConnectDone, TypeOK
  <2>3. QED
    BY <1>3, <2>1, <2>2
<1>4. CASE HandlePdu \/ Receive
  BY <1>4 DEF HandlePdu, Receive, TypeOK, IoOutcome
<1>5. CASE UNCHANGED vars
  BY <1>5 DEF vars, TypeOK
<1>6. QED
  BY <1>7, <1>2, <1>3, <1>4, <1>5 DEF Next

(* Every descriptor the gateway or the kernel names is one of Fds, every  *)
(* loop index is within the getaddrinfo results and the calls stay within *)
(* their bound.                                                           *)
THEOREM GatewayTypeCorrect == Spec => []TypeOK
BY InitTypeOK, NextTypeOK, PTL DEF Spec


-----------------------------------------------------------------------------
(***************************************************************************)
(* Where descriptors are lost.  LeakOnlyByOverwrite is inductive together *)
(* with the types: a step either closes a descriptor, opens one into      *)
(* sock_fd, or assigns socket()'s result to sock_fd after the history has *)
(* taken in the open descriptor sock_fd named.                            *)
(***************************************************************************)

LEMMA TryLeak ==
    ASSUME LeakOnlyByOverwrite, NEW loop \in {"bind", "connect"}, Try(loop)
    PROVE  LeakOnlyByOverwrite'
<1>1. open \subseteq overwritten'
  BY DEF Try, LeakOnlyByOverwrite
<1>2. CASE UNCHANGED kernel
  BY <1>1, <1>2 DEF LeakOnlyByOverwrite, kernel
<1>3. CASE CloseSocketOf(LowestFree)
  BY <1>1, <1>3 DEF LeakOnlyByOverwrite, CloseSocketOf, Release
<1>4. CASE Take(loop, LowestFree)
  BY <1>1, <1>4 DEF LeakOnlyByOverwrite, Take
<1>5. QED
  BY <1>2, <1>3, <1>4 DEF Try

LEMMA NextLeak ==
    ASSUME LeakOnlyByOverwrite, [Next]_vars
    PROVE  LeakOnlyByOverwrite'
<1>1. ASSUME CreateAndConnectBody PROVE LeakOnlyByOverwrite'
  <2>1. CASE IsInitialized /\ CloseSocketOf(sockFd) /\ overwritten' = overwritten
    BY <2>1 DEF LeakOnlyByOverwrite, CloseSocketOf, Release
  <2>2. CASE UNCHANGED <<sockFd, open, overwritten>>
    BY <2>2 DEF LeakOnlyByOverwrite
  <2>3. QED
    BY <1>1, <2>1, <2>2 DEF CreateAndConnectBody, StartConnect, kernel
<1>2. CASE Try("bind") \/ Try("connect")
  BY <1>2, TryLeak
<1>3. CASE UNCHANGED <<sockFd, open, overwritten>>
  BY <1>3 DEF LeakOnlyByOverwrite
<1>4. QED
  BY <1>1, <1>2, <1>3 DEF Next, CreateAndConnect, RecreateAndReconnect, BindDone,
     StartConnect, ConnectDone, HandlePdu, Receive, vars, kernel

(* For every set of descriptors, every number of addresses and calls,    *)
(* with or without a bind address and whether or not close() reports     *)
(* failure, the gateway loses a descriptor only where socket()'s result  *)
(* overwrites a sock_fd that is still open (lines 83 and 178): every     *)
(* failure path of create_and_bind, create_and_connect and close_socket  *)
(* releases what it opened.                                                *)
THEOREM LeakOnlyByOverwriteSafety == Spec => []LeakOnlyByOverwrite
<1>1. Init => LeakOnlyByOverwrite
  BY DEF Init, LeakOnlyByOverwrite
<1>2. LeakOnlyByOverwrite /\ [Next]_vars => LeakOnlyByOverwrite'
  BY NextLeak
<1>3. QED
  BY <1>1, <1>2, PTL DEF Spec

=============================================================================
