------------------------------ MODULE UdpGateway ------------------------------
(***************************************************************************)
(* The UDP network gateway (lib/gateways/udp_network_gateway.cpp): the    *)
(* socket descriptor it keeps in sock_fd, the kernel's view of the        *)
(* descriptors the process owns, and the operations that open, bind,      *)
(* connect and close them.                                                 *)
(*                                                                         *)
(* create_and_connect first runs create_and_bind when a bind address is   *)
(* configured, then walks the addresses getaddrinfo returns for the       *)
(* connect address.  Each loop is a sequence of iterations, one step per  *)
(* address: socket(), the socket options, bind() or connect(), and        *)
(* fcntl() for non-blocking mode may each fail, and a failure after       *)
(* socket() calls close_socket() and tries the next address.  The gateway *)
(* is used from one thread, so no other operation runs while a loop is in *)
(* progress (pc # "idle").                                                 *)
(*                                                                         *)
(* Descriptors are small integers; socket() returns the lowest free one   *)
(* of Fds, or fails when none is free.  close() always releases the       *)
(* descriptor (Linux semantics, also on EINTR and EIO), and may still     *)
(* report -1 when CloseMayFail.                                            *)
(***************************************************************************)
EXTENDS Integers, FiniteSets

CONSTANTS
    Fds,                 \* the descriptors the process may be given
    NAddrs,              \* number of results getaddrinfo returns
    HasBindAddress,      \* config.bind_address is not empty
    NonBlocking,         \* config.non_blocking_mode
    CloseMayFail,        \* close() may return -1
    MaxCalls             \* bound on create_and_connect / recreate_and_reconnect calls

NoFd == -1

ASSUME GatewayAssumption ==
    /\ Fds \subseteq Nat /\ IsFiniteSet(Fds)
    /\ NAddrs \in Nat \ {0}
    /\ {HasBindAddress, NonBlocking, CloseMayFail} \subseteq BOOLEAN
    /\ MaxCalls \in Nat

VARIABLES
    sockFd,     \* sock_fd
    open,       \* descriptors the kernel holds open for the process
    bound,      \* open descriptors bound to a local address
    connected,  \* open descriptors connected to a peer
    nonblock,   \* open descriptors with O_NONBLOCK
    pc,         \* "idle", or the loop create_and_connect is in: "bind", "connect"
    idx,        \* the getaddrinfo result the loop tries next (NAddrs + 1 after break)
    result,     \* what the last create_and_connect returned: "none", "true", "false"
    calls,      \* create_and_connect calls so far
    io,         \* outcome of the last handle_pdu or receive
    overwritten \* history: open descriptors socket() overwrote in sock_fd

vars == <<sockFd, open, bound, connected, nonblock, pc, idx, result, calls, io, overwritten>>

kernel == <<open, bound, connected, nonblock>>

IoOutcome == {"none", "not_initialized", "sent", "send_error", "received", "recv_error"}

TypeOK ==
    /\ sockFd \in Fds \cup {NoFd}
    /\ open \subseteq Fds
    /\ bound \subseteq open /\ connected \subseteq open /\ nonblock \subseteq open
    /\ pc \in {"idle", "bind", "connect"}
    /\ idx \in 0..(NAddrs + 1)
    /\ result \in {"none", "true", "false"}
    /\ calls \in 0..MaxCalls
    /\ io \in IoOutcome
    /\ overwritten \subseteq Fds

(* is_initialized(): sock_fd != -1. *)
IsInitialized == sockFd # NoFd

Init ==
    /\ sockFd = NoFd
    /\ open = {} /\ bound = {} /\ connected = {} /\ nonblock = {}
    /\ pc = "idle"
    /\ idx = 0
    /\ result = "none"
    /\ calls = 0
    /\ io = "none"
    /\ overwritten = {}

(* The descriptor socket() returns: the lowest one not open. *)
LowestFree == CHOOSE fd \in Fds \ open : \A g \in Fds \ open : fd <= g

(* The kernel forgets descriptor fd. *)
Release(fd) ==
    /\ open' = open \ {fd}
    /\ bound' = bound \ {fd}
    /\ connected' = connected \ {fd}
    /\ nonblock' = nonblock \ {fd}

(* Mutant: close_socket resets sock_fd to 0 instead of -1. *)
CloseSocketOfZero(fd) ==
    /\ Release(fd)
    /\ sockFd' = 0

(* Mutant: close_socket resets sock_fd but never calls close(). *)
CloseSocketForget(fd) ==
    /\ open' = open \cup {fd}
    /\ UNCHANGED <<bound, connected, nonblock>>
    /\ sockFd' = NoFd

(***************************************************************************)
(* close_socket() with sock_fd = fd: close() releases the descriptor; on  *)
(* success sock_fd becomes -1, on a reported failure it is left as it was.*)
(***************************************************************************)
CloseSocketOf(fd) ==
    /\ Release(fd)
    /\ \/ sockFd' = NoFd
       \/ CloseMayFail /\ sockFd' = fd

(* Mutant: the address is taken without setting non-blocking mode. *)
TakeBlocking(loop, fd) ==
    /\ sockFd' = fd
    /\ open' = open \cup {fd}
    /\ bound' = IF loop = "bind" THEN bound \cup {fd} ELSE bound
    /\ connected' = IF loop = "connect" THEN connected \cup {fd} ELSE connected
    /\ nonblock' = nonblock
    /\ idx' = NAddrs + 1

(***************************************************************************)
(* The successful end of an iteration: bind() or connect() succeeded on   *)
(* the new socket fd, the address is stored, set_non_blocking() succeeded *)
(* when configured, and the loop breaks.                                  *)
(***************************************************************************)
Take(loop, fd) ==
    /\ sockFd' = fd
    /\ open' = open \cup {fd}
    /\ bound' = IF loop = "bind" THEN bound \cup {fd} ELSE bound
    /\ connected' = IF loop = "connect" THEN connected \cup {fd} ELSE connected
    /\ nonblock' = IF NonBlocking THEN nonblock \cup {fd} ELSE nonblock
    /\ idx' = NAddrs + 1

(***************************************************************************)
(* One iteration of the address loop of create_and_bind (loop = "bind")   *)
(* or create_and_connect (loop = "connect").  sock_fd is overwritten by   *)
(* socket(), whatever it held.  A failure of set_sockopts, of bind() or   *)
(* connect(), or of set_non_blocking closes the new socket and moves to   *)
(* the next address; success breaks out of the loop.  When sock_fd named  *)
(* an open descriptor, the assignment of socket()'s result loses it, and  *)
(* the history overwritten records that.                                   *)
(***************************************************************************)
Try(loop) ==
    /\ pc = loop /\ idx \in 1..NAddrs
    /\ overwritten' = overwritten \cup ({sockFd} \cap open)
    /\ \/ \* socket() fails
          /\ sockFd' = NoFd
          /\ idx' = idx + 1
          /\ UNCHANGED kernel
       \/ /\ Fds \ open # {}
          /\ LET fd == LowestFree IN
             \/ \* set_sockopts() fails, or bind()/connect() fails
                /\ idx' = idx + 1
                /\ CloseSocketOf(fd)
             \/ \* bind()/connect() succeeds, set_non_blocking() fails
                /\ NonBlocking
                /\ idx' = idx + 1
                /\ CloseSocketOf(fd)
             \/ Take(loop, fd)
    /\ UNCHANGED <<pc, result, calls, io>>

(***************************************************************************)
(* getaddrinfo() for the connect address, at the start of the connect    *)
(* half of create_and_connect: on failure create_and_connect returns     *)
(* false at once, whatever create_and_bind left in sock_fd.               *)
(***************************************************************************)
StartConnect ==
    \/ /\ pc' = "idle" /\ result' = "false"
       /\ UNCHANGED <<sockFd, idx>> /\ UNCHANGED kernel
    \/ /\ pc' = "connect" /\ idx' = 1
       /\ UNCHANGED <<sockFd, result>> /\ UNCHANGED kernel

(***************************************************************************)
(* The body of create_and_connect up to its first loop: create_and_bind's *)
(* getaddrinfo when a bind address is configured (its failure makes       *)
(* create_and_connect call close_socket() and return false), otherwise    *)
(* the connect address's getaddrinfo.                                     *)
(***************************************************************************)
CreateAndConnectBody ==
    /\ calls' = calls + 1
    /\ io' = io
    /\ overwritten' = overwritten
    /\ IF HasBindAddress
       THEN \/ /\ pc' = "idle" /\ result' = "false" /\ UNCHANGED idx
               /\ IF IsInitialized THEN CloseSocketOf(sockFd)
                  ELSE UNCHANGED <<sockFd, open, bound, connected, nonblock>>
            \/ /\ pc' = "bind" /\ idx' = 1
               /\ UNCHANGED <<sockFd, result>> /\ UNCHANGED kernel
       ELSE StartConnect

(* create_and_connect(), which the gateway's owner may call at any time   *)
(* between operations; MaxCalls bounds the calls of the whole run.         *)
CreateAndConnect ==
    /\ pc = "idle" /\ calls < MaxCalls
    /\ CreateAndConnectBody

(* recreate_and_reconnect(): keep an initialized socket, or run           *)
(* create_and_connect again.                                               *)
RecreateAndReconnect ==
    /\ pc = "idle" /\ calls < MaxCalls
    /\ \/ /\ IsInitialized
          /\ result' = "true"
          /\ UNCHANGED <<sockFd, open, bound, connected, nonblock, pc, idx, calls, io, overwritten>>
       \/ /\ ~IsInitialized
          /\ CreateAndConnectBody

(***************************************************************************)
(* The end of create_and_bind's loop (break or no address left): with    *)
(* sock_fd = -1 it returns false and create_and_connect calls             *)
(* close_socket(), a no-op on -1, and returns false; otherwise             *)
(* create_and_connect goes on with the connect address.                   *)
(***************************************************************************)
BindDone ==
    /\ pc = "bind" /\ idx = NAddrs + 1
    /\ \/ /\ ~IsInitialized
          /\ pc' = "idle" /\ result' = "false"
          /\ UNCHANGED <<sockFd, idx>> /\ UNCHANGED kernel
       \/ /\ IsInitialized
          /\ StartConnect
    /\ UNCHANGED <<calls, io, overwritten>>

(* The end of create_and_connect's loop: it returns sock_fd != -1. *)
ConnectDone ==
    /\ pc = "connect" /\ idx = NAddrs + 1
    /\ pc' = "idle"
    /\ result' = IF IsInitialized THEN "true" ELSE "false"
    /\ UNCHANGED <<sockFd, open, bound, connected, nonblock, idx, calls, io, overwritten>>

(***************************************************************************)
(* handle_pdu() of a PDU within network_gateway_udp_max_len: on an        *)
(* initialized gateway send() goes to sock_fd and fails unless that is an *)
(* open, connected socket.  An oversized PDU is dropped before send and  *)
(* changes nothing.                                                       *)
(***************************************************************************)
HandlePdu ==
    /\ pc = "idle"
    /\ io' = CASE ~IsInitialized -> "not_initialized"
               [] sockFd \in connected -> "sent"
               [] OTHER -> "send_error"
    /\ UNCHANGED <<sockFd, open, bound, connected, nonblock, pc, idx, result, calls, overwritten>>

(* receive(): recv() on sock_fd; it fails on a descriptor that is not open. *)
Receive ==
    /\ pc = "idle"
    /\ io' \in IF sockFd \in open THEN {"received", "recv_error"} ELSE {"recv_error"}
    /\ UNCHANGED <<sockFd, open, bound, connected, nonblock, pc, idx, result, calls, overwritten>>

Next ==
    \/ CreateAndConnect
    \/ RecreateAndReconnect
    \/ Try("bind") \/ BindDone
    \/ Try("connect") \/ ConnectDone
    \/ HandlePdu
    \/ Receive

Spec == Init /\ [][Next]_vars

-----------------------------------------------------------------------------
(***************************************************************************)
(* Properties.                                                             *)
(***************************************************************************)

(* Between operations the gateway owns at most one descriptor, the one in *)
(* sock_fd: create_and_connect's loops never leave a socket open that     *)
(* sock_fd no longer names, so no call sequence leaks descriptors.        *)
NoFdLeak == pc = "idle" => open \subseteq {sockFd}

(* The only way the gateway loses a descriptor is the assignment of       *)
(* socket()'s result to a sock_fd that still names an open one (lines 83  *)
(* and 178): every failure branch of both address loops, and the failed   *)
(* getaddrinfo of create_and_bind, closes what it opened, whether close() *)
(* reports success or not, on every call sequence and in every state.     *)
LeakOnlyByOverwrite == open \subseteq {sockFd} \cup overwritten

(* An initialized gateway has a usable socket: whenever is_initialized()  *)
(* holds between operations (the condition under which                    *)
(* recreate_and_reconnect keeps the socket and handle_pdu sends on it),  *)
(* sock_fd is open and connected, and non-blocking when configured so.    *)
UsableWhenInitialized ==
    pc = "idle" /\ IsInitialized =>
        /\ sockFd \in connected
        /\ NonBlocking => sockFd \in nonblock

=============================================================================
