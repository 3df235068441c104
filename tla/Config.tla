--------------------------------- MODULE Config ---------------------------------
(***************************************************************************)
(* Config and ConfigVar of config.{h,cpp}, for variables of one type (all  *)
(* in hook.cpp are int), used by several threads.                          *)
(*                                                                         *)
(* setValue() tells the listeners under the variable's mutex and assigns   *)
(* under a second lock of it.  addListener() is under the mutex too, but   *)
(* s_fun_id is a static of the template: all variables of the type share   *)
(* it, each with a mutex of its own, so that its accesses are steps.       *)
(* addListener() tells the listener nothing: its user has read the value   *)
(* in a call before (hook.cpp 59-61).  A listener does not use the         *)
(* variable it listens to: the mutex, which is not recursive, is held      *)
(* while it is called.                                                     *)
(***************************************************************************)
EXTENDS Integers, FiniteSets

CONSTANTS
  Names,       (* names of variables, without illegal characters           *)
  Values, Default,
  Threads,
  Listeners,   (* callbacks, each registered once at most                  *)
  MaxSets      (* BOUND: calls of setValue() that change a value           *)

ASSUME ValuesAssumption == Default \in Values
ASSUME SetsFinite == IsFiniteSet(Names) /\ IsFiniteSet(Listeners)
ASSUME SetsAssumption == MaxSets \in Nat

NoListener == "none"
ASSUME ListenersAssumption == NoListener \notin Listeners

Keys == 1 .. Cardinality(Listeners)

VARIABLES
  datas,       (* GetDatas(): names with a variable                        *)
  m_val,
  m_cbs,       (* per variable, the listener under each key                *)
  s_fun_id,
  pc, arg,     (* where each thread is, and in which call                  *)
  old_id,      (* the s_fun_id its ++ has loaded                           *)
  key,         (* what addListener() returned for each listener, 0 before, *)
               (* -1 when it has been deleted                              *)
  told,        (* the value each listener knows                            *)
  sets,        (* changes so far                                           *)
  alone,       (* history: variables whose last change met no other call   *)
  raced        (* history: two calls of addListener() met in s_fun_id      *)

ghost == <<alone, raced>>
vars == <<datas, m_val, m_cbs, s_fun_id, pc, arg, old_id, key, told, sets, ghost>>

NoCall == [name |-> "none", value |-> Default, cb |-> NoListener]

Init ==
  /\ datas = {}
  /\ m_val = [n \in Names |-> Default]
  /\ m_cbs = [n \in Names |-> [k \in Keys |-> NoListener]]
  /\ s_fun_id = 0
  /\ pc = [t \in Threads |-> "idle"]
  /\ arg = [t \in Threads |-> NoCall]
  /\ old_id = [t \in Threads |-> 0]
  /\ key = [l \in Listeners |-> 0]
  /\ told = [l \in Listeners |-> Default]
  /\ sets = 0
  /\ alone = Names
  /\ raced = FALSE

(* The mutex of a variable is held through addListener() only; what other  *)
(* functions do under it is one step.                                      *)
Adding(t) == pc[t] \in {"inc", "put", "return"}

(* A user that has read the value and is to be told of later ones.         *)
Joining(t) == pc[t] = "read" \/ Adding(t)

Free(n) == \A t \in Threads : arg[t].name = n => ~ Adding(t)

Assigning(n) == \E t \in Threads : pc[t] = "assign" /\ arg[t].name = n

Registered(n) == {m_cbs[n][k] : k \in Keys} \ {NoListener}

Call(t, next, n, v, l) ==
  /\ pc[t] = "idle"
  /\ n \in datas /\ Free(n)
  /\ pc' = [pc EXCEPT ![t] = next]
  /\ arg' = [arg EXCEPT ![t] = [name |-> n, value |-> v, cb |-> l]]

Return(t, from) ==
  /\ pc[t] = from
  /\ pc' = [pc EXCEPT ![t] = "idle"]
  /\ arg' = [arg EXCEPT ![t] = NoCall]

-----------------------------------------------------------------------------
(* Lookup() of a name that is not there yet; otherwise it finds the        *)
(* variable, or returns null for one of another type.                      *)
Lookup(n) ==
  /\ n \notin datas
  /\ datas' = datas \cup {n}
  /\ UNCHANGED <<m_val, m_cbs, s_fun_id, pc, arg, old_id, key, told, sets, ghost>>

(* MUTANT of Notified: the listener with the first key only.               *)
Notified_First(n) == {m_cbs[n][1]} \ {NoListener}

Notified(n) == Registered(n)

(* setValue(): with a value that differs, every listener is told, ...      *)
SetNotify(t, n, v) ==
  /\ sets < MaxSets
  /\ m_val[n] # v
  /\ Call(t, "assign", n, v, NoListener)
  /\ sets' = sets + 1
  /\ told' = [l \in Listeners |-> IF l \in Notified(n) THEN v ELSE told[l]]
  /\ alone' = IF Assigning(n) \/ \E u \in Threads : Joining(u) /\ arg[u].name = n
              THEN alone \ {n} ELSE alone \cup {n}
  /\ UNCHANGED <<datas, m_val, m_cbs, s_fun_id, old_id, key, raced>>

(* ... and the value is assigned, whatever it has become since.            *)
SetAssign(t) ==
  /\ Free(arg[t].name)
  /\ Return(t, "assign")
  /\ m_val' = [m_val EXCEPT ![arg[t].name] = arg[t].value]
  /\ UNCHANGED <<datas, m_cbs, s_fun_id, old_id, key, told, sets, ghost>>

-----------------------------------------------------------------------------
(* The user of a listener to be starts from getValue().                    *)
GetValue(t, n, l) ==
  /\ key[l] = 0 /\ \A u \in Threads : arg[u].cb # l
  /\ Call(t, "read", n, Default, l)
  /\ told' = [told EXCEPT ![l] = m_val[n]]
  /\ alone' = IF Assigning(n) THEN alone \ {n} ELSE alone
  /\ UNCHANGED <<datas, m_val, m_cbs, s_fun_id, old_id, key, sets, raced>>

(* addListener(): ++s_fun_id, loaded and stored, ...                       *)
AddLoad(t) ==
  /\ pc[t] = "read" /\ Free(arg[t].name)
  /\ pc' = [pc EXCEPT ![t] = "inc"]
  /\ old_id' = [old_id EXCEPT ![t] = s_fun_id]
  /\ raced' = (raced \/ \E u \in Threads : Adding(u))
  /\ UNCHANGED <<datas, m_val, m_cbs, s_fun_id, arg, key, told, sets, alone>>

AddStore(t) ==
  /\ pc[t] = "inc"
  /\ pc' = [pc EXCEPT ![t] = "put"]
  /\ s_fun_id' = old_id[t] + 1
  /\ UNCHANGED <<datas, m_val, m_cbs, arg, old_id, key, told, sets, ghost>>

(* ... m_cbs[s_fun_id] = cb, ...                                           *)
AddPut(t) ==
  LET n == arg[t].name IN
  /\ pc[t] = "put"
  /\ pc' = [pc EXCEPT ![t] = "return"]
  /\ m_cbs' = [m_cbs EXCEPT ![n][s_fun_id] = arg[t].cb]
  /\ UNCHANGED <<datas, m_val, s_fun_id, arg, old_id, key, told, sets, ghost>>

(* MUTANT of FunId: it counts after the mutex is given up.                 *)
FunId_Next == s_fun_id + 1

FunId == s_fun_id

(* ... return s_fun_id.                                                    *)
AddReturn(t) ==
  /\ Return(t, "return")
  /\ key' = [key EXCEPT ![arg[t].cb] = FunId]
  /\ UNCHANGED <<datas, m_val, m_cbs, s_fun_id, old_id, told, sets, ghost>>

(* delListener() with the key that addListener() returned, ...             *)
DelListener(n, l) ==
  /\ Free(n)
  /\ key[l] > 0 /\ l \in Registered(n)
  /\ m_cbs' = [m_cbs EXCEPT ![n][key[l]] = NoListener]
  /\ key' = [key EXCEPT ![l] = -1]
  /\ UNCHANGED <<datas, m_val, s_fun_id, pc, arg, old_id, told, sets, ghost>>

(* ... and clearListener().                                                *)
ClearListener(n) ==
  /\ Free(n)
  /\ Registered(n) # {}
  /\ m_cbs' = [m_cbs EXCEPT ![n] = [k \in Keys |-> NoListener]]
  /\ key' = [l \in Listeners |-> IF l \in Registered(n) THEN -1 ELSE key[l]]
  /\ UNCHANGED <<datas, m_val, s_fun_id, pc, arg, old_id, told, sets, ghost>>

-----------------------------------------------------------------------------
ThreadStep(t) ==
  \/ \E n \in Names :
       \/ \E v \in Values : SetNotify(t, n, v)
       \/ \E l \in Listeners : GetValue(t, n, l)
  \/ SetAssign(t)
  \/ AddLoad(t) \/ AddStore(t) \/ AddPut(t) \/ AddReturn(t)

Next ==
  \/ \E t \in Threads : ThreadStep(t)
  \/ \E n \in Names :
       \/ Lookup(n)
       \/ \E l \in Listeners : DelListener(n, l)
       \/ ClearListener(n)

Spec == Init /\ [][Next]_vars

-----------------------------------------------------------------------------
TypeOK ==
  /\ datas \subseteq Names
  /\ m_val \in [Names -> Values]
  /\ m_cbs \in [Names -> [Keys -> Listeners \cup {NoListener}]]
  /\ s_fun_id \in 0 .. Cardinality(Listeners)
  /\ pc \in [Threads -> {"idle", "assign", "read", "inc", "put", "return"}]
  /\ arg \in [Threads -> [name : Names \cup {"none"}, value : Values,
                          cb : Listeners \cup {NoListener}]]
  /\ old_id \in [Threads -> 0 .. Cardinality(Listeners)]
  /\ key \in [Listeners -> Keys \cup {0, -1}]
  /\ told \in [Listeners -> Values]
  /\ sets \in 0 .. MaxSets
  /\ alone \subseteq Names /\ raced \in BOOLEAN

(* config.h 93-94: listeners are told of a change.  Unless setValue() met  *)
(* another setValue(), or a user between getValue() and the end of         *)
(* addListener(), every listener knows the value, and knows a new one      *)
(* before getValue() can return it; a change that meets no other call      *)
(* restores that after any race (hook.cpp keeps s_connect_timeout by it).  *)
Pending(n) ==
  {arg[t].value : t \in {u \in Threads : pc[u] = "assign" /\ arg[u].name = n}}

ListenersFollow ==
  \A n \in alone : \A l \in Registered(n) :
    told[l] \in (IF Assigning(n) THEN Pending(n) ELSE {m_val[n]})

(* config.h 136: keys are unique.  Unless two calls, for whatever          *)
(* variables, met in s_fun_id, the key a caller got is the key of its own  *)
(* listener until that is deleted, and of no listener of another variable. *)
KeyIsOwn ==
  ~ raced =>
    /\ \A l \in Listeners : key[l] > 0 => \E n \in Names : m_cbs[n][key[l]] = l
    /\ \A m, n \in Names : \A k \in Keys :
         m_cbs[m][k] # NoListener /\ m_cbs[n][k] # NoListener => m = n
=============================================================================
