------------------------------- MODULE FdManager -------------------------------
(***************************************************************************)
(* FdManager and FdCtx of fd_manager.{h,cpp}: a context per descriptor,    *)
(* made by get(fd, true), which looks under m_mutex, gives it up, and      *)
(* makes the context under a second lock.  The descriptors are sockets     *)
(* that their user did not make nonblocking; of the settings of a context  *)
(* the model keeps the receive timeout: set, or -1 as in the constructor.  *)
(***************************************************************************)
EXTENDS Integers, FiniteSets

CONSTANTS
  Fds,           (* descriptors                                            *)
  Fibers,        (* fibers, each on a thread of its own while it runs      *)
  InitialSize,   (* of m_datas, 64 in the code                             *)
  MaxCtxs        (* BOUND: contexts made for one descriptor                *)

ASSUME FdsAssumption == Fds \subseteq Nat /\ IsFiniteSet(Fds)
ASSUME SizeAssumption == InitialSize \in Nat /\ InitialSize >= 2
ASSUME CtxsAssumption == MaxCtxs \in Nat

VARIABLES
  size,          (* m_datas.size()                                         *)
  m_datas,       (* per descriptor, the number of its context, 0 for null  *)
  made,          (* how many contexts were made for it                     *)
  timed,         (* contexts <<fd, n>> with a timeout                      *)
  hold,          (* what get(fd, true) gave each fiber, <<>> for nothing   *)
  making         (* the descriptor a fiber is in get(fd, true) for, or -1, *)
                 (* between the two locks                                  *)

table == <<size, m_datas, made>>
fdvars == <<table, timed, hold, making>>

FdInit ==
  /\ size = InitialSize
  /\ m_datas = [fd \in Fds |-> 0]
  /\ made = [fd \in Fds |-> 0]
  /\ timed = {}
  /\ hold = [f \in Fibers |-> <<>>]
  /\ making = [f \in Fibers |-> -1]

(* get(fd): no context is made.                                            *)
get(fd) == IF size <= fd THEN 0 ELSE m_datas[fd]

(* get(fd, true) finds a context under the first lock, ...                 *)
GetFinds(f, fd) ==
  /\ making[f] = -1
  /\ get(fd) # 0
  /\ hold' = [hold EXCEPT ![f] = <<fd, get(fd)>>]
  /\ UNCHANGED <<table, timed, making>>

(* ... or finds none, ...                                                  *)
GetMisses(f, fd) ==
  /\ making[f] = -1
  /\ get(fd) = 0
  /\ making' = [making EXCEPT ![f] = fd]
  /\ UNCHANGED <<table, timed, hold>>

(* MUTANT of Resized: the vector never grows.                              *)
Resized_Never(fd) == size

Resized(fd) == IF fd >= size THEN (fd * 3) \div 2 ELSE size

(* ... and makes one under the second lock, where it does not look again.  *)
GetMakes(f) ==
  LET fd == making[f] IN
  /\ fd # -1
  /\ made[fd] < MaxCtxs
  /\ made' = [made EXCEPT ![fd] = @ + 1]
  /\ size' = Resized(fd)
  /\ m_datas' = [m_datas EXCEPT ![fd] = made[fd] + 1]
  /\ hold' = [hold EXCEPT ![f] = <<fd, made[fd] + 1>>]
  /\ making' = [making EXCEPT ![f] = -1]
  /\ UNCHANGED timed

(* FdCtx::setTimeout(SO_RCVTIMEO, ...).                                    *)
SetTimeout(f) ==
  /\ hold[f] # <<>>
  /\ timed' = timed \cup {hold[f]}
  /\ UNCHANGED <<table, hold, making>>

(* The last user of a descriptor closes it; a descriptor that is in use is *)
(* not closed.                                                             *)
InUse(fd) == \E f \in Fibers : making[f] = fd

del(fd) ==
  /\ ~ InUse(fd)
  /\ get(fd) # 0
  /\ m_datas' = [m_datas EXCEPT ![fd] = 0]
  /\ hold' = [f \in Fibers |-> IF hold[f] # <<>> /\ hold[f][1] = fd THEN <<>> ELSE hold[f]]
  /\ UNCHANGED <<size, made, timed, making>>

(* Every context in m_datas lies within the vector.                        *)
FdTypeOK ==
  /\ size \in Nat
  /\ made \in [Fds -> 0 .. MaxCtxs]
  /\ m_datas \in [Fds -> 0 .. MaxCtxs]
  /\ \A fd \in Fds : m_datas[fd] <= made[fd] /\ (m_datas[fd] # 0 => fd < size)
  /\ timed \subseteq Fds \X (1 .. MaxCtxs)
  /\ hold \in [Fibers -> (Fds \X (1 .. MaxCtxs)) \cup {<<>>}]
  /\ making \in [Fibers -> Fds \cup {-1}]
================================================================================
