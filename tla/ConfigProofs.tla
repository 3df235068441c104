------------------------------ MODULE ConfigProofs ------------------------------
(***************************************************************************)
(* Proofs of Config's safety properties, for any variables, values,        *)
(* listeners and threads.                                                  *)
(***************************************************************************)
EXTENDS Config, FiniteSetTheorems, TLAPS

-----------------------------------------------------------------------------
(* What a thread has in its call: who joins, a callback of its own that    *)
(* has no key yet, and in addListener() the mutex of the variable.         *)
CallsKnow ==
  /\ \A t \in Threads :
       /\ pc[t] # "idle" => arg[t].name \in Names
       /\ Joining(t) => arg[t].cb \in Listeners /\ key[arg[t].cb] = 0
       /\ ~ Joining(t) => arg[t].cb = NoListener
  /\ \A t, u \in Threads :
       /\ Joining(t) /\ Joining(u) /\ arg[t].cb = arg[u].cb => t = u
       /\ Adding(t) /\ Adding(u) /\ arg[t].name = arg[u].name => t = u

(* A listener is registered once, with the variable it was added to, and   *)
(* not before its call has put it there.                                   *)
RegisteredOnce ==
  /\ \A m, n \in Names : \A j, k \in Keys :
       m_cbs[m][j] = m_cbs[n][k] /\ m_cbs[n][k] # NoListener => m = n /\ j = k
  /\ \A n \in Names : \A k \in Keys : m_cbs[n][k] # NoListener =>
       \/ key[m_cbs[n][k]] # 0
       \/ \E t \in Threads : pc[t] = "return" /\ arg[t].cb = m_cbs[n][k] /\ arg[t].name = n

(* A variable whose last change met no other call has one thread at most   *)
(* in setValue(), and while there is one, none that joins.                 *)
AloneMeans ==
  \A n \in alone : \A t, u \in Threads :
    /\ pc[t] = "assign" /\ arg[t].name = n
    /\ pc[u] = "assign" \/ Joining(u)
    /\ arg[u].name = n
    => t = u

(* What the user of a listener to be has read of such a variable is still  *)
(* its value when the listener is put into m_cbs.                          *)
ReadersKnow ==
  \A n \in alone : \A t \in Threads :
    pc[t] \in {"read", "inc", "put"} /\ arg[t].name = n => told[arg[t].cb] = m_val[n]

(* The listeners for which s_fun_id has been stored: it counts them, but   *)
(* for what is lost in races.                                              *)
Stored == {l \in Listeners : \/ key[l] # 0
                             \/ \E t \in Threads : pc[t] \in {"put", "return"} /\ arg[t].cb = l}

FunIdCounts ==
  /\ s_fun_id <= Cardinality(Stored)
  /\ \A t \in Threads :
       /\ old_id[t] <= Cardinality(Stored)
       /\ pc[t] \in {"put", "return"} => s_fun_id >= 1

(* With no race in s_fun_id, one thread is in addListener(), it finds      *)
(* s_fun_id as it has loaded and stored it, and no greater key is in use.  *)
KeysFollow ==
  ~ raced =>
    /\ \A t, u \in Threads : Adding(t) /\ Adding(u) => t = u
    /\ \A n \in Names : \A k \in Keys : m_cbs[n][k] # NoListener => k <= s_fun_id
    /\ \A t \in Threads :
         /\ pc[t] = "inc" => old_id[t] = s_fun_id
         /\ pc[t] = "put" =>
              \A n \in Names : \A k \in Keys : m_cbs[n][k] # NoListener => k < s_fun_id
         /\ pc[t] = "return" => m_cbs[arg[t].name][s_fun_id] = arg[t].cb

IInv ==
  /\ TypeOK /\ CallsKnow /\ RegisteredOnce /\ AloneMeans /\ ReadersKnow
  /\ FunIdCounts /\ KeysFollow /\ ListenersFollow /\ KeyIsOwn

-----------------------------------------------------------------------------
(* The listeners can be counted.                                           *)
LEMMA CardinalityNat == Cardinality(Listeners) \in Nat
  BY SetsFinite, FS_CardinalityType

(* Those s_fun_id has been stored for are some of them.                    *)
LEMMA StoredFits ==
  /\ IsFiniteSet(Stored)
  /\ Cardinality(Stored) \in Nat /\ Cardinality(Stored) <= Cardinality(Listeners)
  <1>1. Stored \subseteq Listeners
    BY DEF Stored
  <1> QED
    BY <1>1, SetsFinite, FS_Subset, FS_CardinalityType

(* At first there is no variable, and nobody calls.                        *)
LEMMA IInvInit == Init => IInv
  <1> SUFFICES ASSUME Init
               PROVE  IInv
    OBVIOUS
  <1>1. TypeOK
    <2>1. m_cbs \in [Names -> [Keys -> Listeners \cup {NoListener}]]
      BY DEF Init
    <2>2. arg \in [Threads -> [name : Names \cup {"none"}, value : Values,
                                cb : Listeners \cup {NoListener}]]
      BY ValuesAssumption DEF Init, NoCall
    <2>3. /\ s_fun_id \in 0 .. Cardinality(Listeners) /\ sets \in 0 .. MaxSets
          /\ old_id \in [Threads -> 0 .. Cardinality(Listeners)]
      BY CardinalityNat, SetsAssumption DEF Init
    <2> QED
      BY <2>1, <2>2, <2>3, ValuesAssumption DEF Init, TypeOK
  <1>2. \A t \in Threads : ~ Adding(t) /\ ~ Joining(t) /\ pc[t] = "idle" /\ arg[t].cb = NoListener
    BY DEF Init, Adding, Joining, NoCall
  <1>3. \A n \in Names : \A k \in Keys : m_cbs[n][k] = NoListener
    BY DEF Init
  <1>4. CallsKnow /\ RegisteredOnce /\ AloneMeans /\ ReadersKnow
    BY <1>2, <1>3 DEF CallsKnow, RegisteredOnce, AloneMeans, ReadersKnow
  <1>5. FunIdCounts /\ KeysFollow
    BY <1>2, <1>3, StoredFits DEF Init, FunIdCounts, KeysFollow
  <1>6. ListenersFollow /\ KeyIsOwn
    BY <1>3 DEF Init, ListenersFollow, KeyIsOwn, Registered
  <1> QED
    BY <1>1, <1>4, <1>5, <1>6 DEF IInv

-----------------------------------------------------------------------------
(* The typed values stay typed, with what is known of s_fun_id.            *)
LEMMA TypesStep == IInv /\ [Next]_vars => TypeOK'
  <1> SUFFICES ASSUME IInv, [Next]_vars
               PROVE  TypeOK'
    OBVIOUS
  <1>0. TypeOK /\ CallsKnow /\ FunIdCounts /\ Cardinality(Listeners) \in Nat
    BY CardinalityNat DEF IInv
  <1>a. s_fun_id \in Int /\ s_fun_id <= Cardinality(Listeners)
    BY <1>0 DEF TypeOK
  <1>1. ASSUME NEW n \in Names, Lookup(n)
        PROVE  TypeOK'
    BY <1>0, <1>1 DEF TypeOK, Lookup, ghost
  <1>2. ASSUME NEW t \in Threads, NEW n \in Names, NEW v \in Values, SetNotify(t, n, v)
        PROVE  TypeOK'
    <2>1. sets' \in 0 .. MaxSets
      BY <1>0, <1>2, SetsAssumption DEF TypeOK, SetNotify
    <2>2. told' \in [Listeners -> Values] /\ alone' \subseteq Names
      BY <1>0, <1>2 DEF TypeOK, SetNotify
    <2>3. /\ pc' \in [Threads -> {"idle", "assign", "read", "inc", "put", "return"}]
          /\ arg' \in [Threads -> [name : Names \cup {"none"}, value : Values,
                                   cb : Listeners \cup {NoListener}]]
      BY <1>0, <1>2 DEF TypeOK, SetNotify, Call
    <2> QED
      BY <1>0, <1>2, <2>1, <2>2, <2>3 DEF TypeOK, SetNotify
  <1>3. ASSUME NEW t \in Threads, SetAssign(t)
        PROVE  TypeOK'
    <2>1. arg[t].value \in Values
      BY <1>0 DEF TypeOK
    <2>2. m_val' \in [Names -> Values]
      BY <1>0, <1>3, <2>1 DEF TypeOK, SetAssign
    <2> QED
      BY <1>0, <1>3, <2>2, ValuesAssumption DEF TypeOK, SetAssign, Return, NoCall, ghost
  <1>4. ASSUME NEW t \in Threads, AddLoad(t)
        PROVE  TypeOK'
    <2>1. old_id' \in [Threads -> 0 .. Cardinality(Listeners)]
      BY <1>0, <1>4 DEF TypeOK, AddLoad
    <2>2. raced' \in BOOLEAN
      BY <1>0, <1>4 DEF TypeOK, AddLoad
    <2> QED
      BY <1>0, <1>4, <2>1, <2>2 DEF TypeOK, AddLoad
  <1>5. ASSUME NEW t \in Threads, AddStore(t)
        PROVE  TypeOK'
    <2> DEFINE l == arg[t].cb
    <2>1. Adding(t) /\ l \in Listeners /\ key[l] = 0
      BY <1>0, <1>5 DEF AddStore, Adding, Joining, CallsKnow
    <2>2. l \notin Stored
      BY <1>0, <1>5, <2>1 DEF Stored, CallsKnow, Adding, Joining, AddStore
    <2>3. Cardinality(Stored \cup {l}) = Cardinality(Stored) + 1
      BY <2>2, StoredFits, FS_AddElement
    <2>4. Cardinality(Stored \cup {l}) <= Cardinality(Listeners)
      BY <2>1, SetsFinite, FS_Subset DEF Stored
    <2>5. s_fun_id' \in 0 .. Cardinality(Listeners)
      BY <1>0, <1>5, <2>3, <2>4, StoredFits DEF AddStore, TypeOK, FunIdCounts
    <2> QED
      BY <1>0, <1>5, <2>5 DEF TypeOK, AddStore, ghost
  <1>6. ASSUME NEW t \in Threads, AddPut(t)
        PROVE  TypeOK'
    <2>1. Adding(t) /\ arg[t].cb \in Listeners /\ arg[t].name \in Names
      BY <1>0, <1>6 DEF AddPut, Adding, Joining, CallsKnow
    <2>2. m_cbs' \in [Names -> [Keys -> Listeners \cup {NoListener}]]
      BY <1>0, <1>6, <2>1 DEF TypeOK, AddPut
    <2> QED
      BY <1>0, <1>6, <2>2 DEF TypeOK, AddPut, ghost
  <1>7. ASSUME NEW t \in Threads, AddReturn(t)
        PROVE  TypeOK'
    <2>1. s_fun_id \in Keys
      BY <1>0, <1>a, <1>7 DEF AddReturn, Return, FunIdCounts, Keys, TypeOK
    <2>2. key' \in [Listeners -> Keys \cup {0, -1}]
      BY <1>0, <1>7, <2>1 DEF TypeOK, AddReturn, FunId
    <2> QED
      BY <1>0, <1>7, <2>2, ValuesAssumption DEF TypeOK, AddReturn, Return, NoCall, ghost
  <1>8. ASSUME NEW n \in Names, NEW l \in Listeners, DelListener(n, l)
        PROVE  TypeOK'
    <2>1. m_cbs' \in [Names -> [Keys -> Listeners \cup {NoListener}]]
      BY <1>0, <1>8 DEF TypeOK, DelListener
    <2> QED
      BY <1>0, <1>8, <2>1 DEF TypeOK, DelListener, ghost
  <1>9. ASSUME NEW n \in Names, ClearListener(n)
        PROVE  TypeOK'
    <2>1. m_cbs' \in [Names -> [Keys -> Listeners \cup {NoListener}]]
      BY <1>0, <1>9 DEF TypeOK, ClearListener
    <2> QED
      BY <1>0, <1>9, <2>1 DEF TypeOK, ClearListener, ghost
  <1>10. CASE UNCHANGED vars
    BY <1>0, <1>10 DEF TypeOK, vars, ghost
  <1>11. ASSUME NEW t \in Threads, NEW n \in Names, NEW l \in Listeners, GetValue(t, n, l)
         PROVE  TypeOK'
    <2>1. /\ pc' \in [Threads -> {"idle", "assign", "read", "inc", "put", "return"}]
          /\ arg' \in [Threads -> [name : Names \cup {"none"}, value : Values,
                                   cb : Listeners \cup {NoListener}]]
      BY <1>0, <1>11, ValuesAssumption DEF TypeOK, GetValue, Call
    <2>2. told' \in [Listeners -> Values] /\ alone' \subseteq Names
      BY <1>0, <1>11 DEF TypeOK, GetValue
    <2> QED
      BY <1>0, <1>11, <2>1, <2>2 DEF TypeOK, GetValue
  <1> QED
    BY <1>1, <1>2, <1>3, <1>4, <1>5, <1>6, <1>7, <1>8, <1>9, <1>10, <1>11
       DEF Next, ThreadStep

-----------------------------------------------------------------------------
(* A listener that is registered and has no key is one whose call is in    *)
(* addListener() of the variable.                                          *)
LEMMA KeylessHolds ==
  ASSUME IInv, NEW n \in Names, NEW l \in Registered(n), Free(n)
  PROVE  l \in Listeners /\ key[l] # 0
  <1>1. PICK k \in Keys : m_cbs[n][k] = l /\ l # NoListener
    BY DEF Registered
  <1>2. l \in Listeners
    BY <1>1 DEF IInv, TypeOK
  <1>3. \A t \in Threads : ~ (pc[t] = "return" /\ arg[t].name = n)
    BY DEF Free, Adding
  <1> QED
    BY <1>1, <1>2, <1>3 DEF IInv, RegisteredOnce

(* Callers keep their callbacks and the mutex to themselves.               *)
LEMMA CallsStep == IInv /\ [Next]_vars => CallsKnow'
  <1> SUFFICES ASSUME IInv, [Next]_vars
               PROVE  CallsKnow'
    OBVIOUS
  <1>0. TypeOK /\ CallsKnow
    BY DEF IInv
  <1>1. ASSUME NEW n \in Names, Lookup(n)
        PROVE  CallsKnow'
    BY <1>0, <1>1 DEF CallsKnow, Adding, Joining, Lookup
  <1>2. ASSUME NEW t \in Threads, NEW n \in Names, NEW v \in Values, SetNotify(t, n, v)
        PROVE  CallsKnow'
    BY <1>0, <1>2 DEF TypeOK, CallsKnow, Adding, Joining, SetNotify, Call
  <1>3. ASSUME NEW t \in Threads, SetAssign(t)
        PROVE  CallsKnow'
    BY <1>0, <1>3 DEF TypeOK, CallsKnow, Adding, Joining, SetAssign, Return, NoCall
  <1>4. ASSUME NEW t \in Threads, AddLoad(t)
        PROVE  CallsKnow'
    BY <1>0, <1>4 DEF TypeOK, CallsKnow, Adding, Joining, AddLoad, Free
  <1>5. ASSUME NEW t \in Threads, AddStore(t)
        PROVE  CallsKnow'
    BY <1>0, <1>5 DEF TypeOK, CallsKnow, Adding, Joining, AddStore
  <1>6. ASSUME NEW t \in Threads, AddPut(t)
        PROVE  CallsKnow'
    BY <1>0, <1>6 DEF TypeOK, CallsKnow, Adding, Joining, AddPut
  <1>7. ASSUME NEW t \in Threads, AddReturn(t)
        PROVE  CallsKnow'
    BY <1>0, <1>7 DEF TypeOK, CallsKnow, Adding, Joining, AddReturn, Return, NoCall
  <1>8. ASSUME NEW n \in Names, NEW l \in Listeners, DelListener(n, l)
        PROVE  CallsKnow'
    BY <1>0, <1>8 DEF TypeOK, CallsKnow, Adding, Joining, DelListener
  <1>9. ASSUME NEW n \in Names, ClearListener(n)
        PROVE  CallsKnow'
    <2>1. \A l \in Listeners : key[l] = 0 => key'[l] = 0
      BY <1>9, KeylessHolds DEF ClearListener
    <2> QED
      BY <1>0, <1>9, <2>1 DEF CallsKnow, Adding, Joining, ClearListener
  <1>10. CASE UNCHANGED vars
    BY <1>0, <1>10 DEF CallsKnow, Adding, Joining, vars
  <1>11. ASSUME NEW t \in Threads, NEW n \in Names, NEW l \in Listeners, GetValue(t, n, l)
         PROVE  CallsKnow'
    BY <1>0, <1>11 DEF TypeOK, CallsKnow, Adding, Joining, GetValue, Call
  <1> QED
    BY <1>1, <1>2, <1>3, <1>4, <1>5, <1>6, <1>7, <1>8, <1>9, <1>10, <1>11
       DEF Next, ThreadStep

(* The listener whose call is not yet at its second read of s_fun_id is    *)
(* registered nowhere.                                                     *)
LEMMA PutIsNew ==
  ASSUME IInv, NEW t \in Threads, pc[t] \in {"read", "inc", "put"}
  PROVE  \A n \in Names : \A k \in Keys : m_cbs[n][k] # arg[t].cb
  <1>1. Joining(t) /\ arg[t].cb \in Listeners /\ key[arg[t].cb] = 0
    BY DEF Adding, Joining, IInv, CallsKnow
  <1>2. \A u \in Threads : arg[u].cb = arg[t].cb => u = t
    BY <1>1, ListenersAssumption DEF IInv, CallsKnow
  <1> QED
    BY <1>1, <1>2, ListenersAssumption DEF IInv, RegisteredOnce

(* A listener is put into one place only, ...                              *)
LEMMA RegisteredStep == IInv /\ [Next]_vars => RegisteredOnce'
  <1> SUFFICES ASSUME IInv, [Next]_vars
               PROVE  RegisteredOnce'
    OBVIOUS
  <1>0. TypeOK /\ CallsKnow /\ RegisteredOnce
    BY DEF IInv
  <1>1. ASSUME NEW n \in Names, Lookup(n)
        PROVE  RegisteredOnce'
    BY <1>0, <1>1 DEF RegisteredOnce, Lookup
  <1>2. ASSUME NEW t \in Threads, NEW n \in Names, NEW v \in Values, SetNotify(t, n, v)
        PROVE  RegisteredOnce'
    <2>1. \A u \in Threads : pc[u] = "return" => pc'[u] = pc[u] /\ arg'[u] = arg[u]
      BY <1>0, <1>2 DEF TypeOK, SetNotify, Call
    <2>2. UNCHANGED <<m_cbs, key>>
      BY <1>2 DEF SetNotify
    <2> QED
      BY <1>0, <2>1, <2>2 DEF RegisteredOnce
  <1>3. ASSUME NEW t \in Threads, SetAssign(t)
        PROVE  RegisteredOnce'
    <2>1. \A u \in Threads : pc[u] = "return" => pc'[u] = pc[u] /\ arg'[u] = arg[u]
      BY <1>0, <1>3 DEF TypeOK, SetAssign, Return
    <2>2. UNCHANGED <<m_cbs, key>>
      BY <1>3 DEF SetAssign
    <2> QED
      BY <1>0, <2>1, <2>2 DEF RegisteredOnce
  <1>4. ASSUME NEW t \in Threads, AddLoad(t)
        PROVE  RegisteredOnce'
    <2>1. \A u \in Threads : pc[u] = "return" => pc'[u] = pc[u] /\ arg'[u] = arg[u]
      BY <1>0, <1>4 DEF TypeOK, AddLoad
    <2>2. UNCHANGED <<m_cbs, key>>
      BY <1>4 DEF AddLoad
    <2> QED
      BY <1>0, <2>1, <2>2 DEF RegisteredOnce
  <1>5. ASSUME NEW t \in Threads, AddStore(t)
        PROVE  RegisteredOnce'
    BY <1>0, <1>5 DEF TypeOK, RegisteredOnce, AddStore
  <1>6. ASSUME NEW t \in Threads, AddPut(t)
        PROVE  RegisteredOnce'
    <2> DEFINE c == arg[t].cb
               a == arg[t].name
    <2>1. c \in Listeners /\ a \in Names /\ c # NoListener
      BY <1>0, <1>6, ListenersAssumption DEF AddPut, Adding, Joining, CallsKnow
    <2>2. \A n \in Names : \A k \in Keys : m_cbs[n][k] # c
      BY <1>6, PutIsNew DEF AddPut
    <2>3. \A n \in Names : \A k \in Keys :
            m_cbs'[n][k] = IF n = a /\ k = s_fun_id THEN c ELSE m_cbs[n][k]
      BY <1>0, <1>6, <2>1 DEF TypeOK, AddPut
    <2>4. pc' = [pc EXCEPT ![t] = "return"] /\ UNCHANGED <<arg, key>>
      BY <1>6 DEF AddPut
    <2>5. pc'[t] = "return" /\ \A u \in Threads : pc[u] = "return" => pc'[u] = "return"
      BY <1>0, <2>4 DEF TypeOK
    <2>6. ASSUME NEW m \in Names, NEW n \in Names, NEW j \in Keys, NEW k \in Keys,
                 m_cbs'[m][j] = m_cbs'[n][k], m_cbs'[n][k] # NoListener
          PROVE  m = n /\ j = k
      BY <1>0, <2>2, <2>3, <2>6 DEF RegisteredOnce
    <2>7. ASSUME NEW n \in Names, NEW k \in Keys, m_cbs'[n][k] # NoListener
          PROVE  \/ key'[m_cbs'[n][k]] # 0
                 \/ \E u \in Threads : /\ pc'[u] = "return"
                                       /\ arg'[u].cb = m_cbs'[n][k] /\ arg'[u].name = n
      <3>1. CASE n = a /\ k = s_fun_id
        BY <2>3, <2>4, <2>5, <3>1
      <3>2. CASE ~ (n = a /\ k = s_fun_id)
        BY <1>0, <2>3, <2>4, <2>5, <2>7, <3>2 DEF RegisteredOnce
      <3> QED
        BY <3>1, <3>2
    <2> QED
      BY <2>6, <2>7 DEF RegisteredOnce
  <1>7. ASSUME NEW t \in Threads, AddReturn(t)
        PROVE  RegisteredOnce'
    <2>1. s_fun_id # 0
      BY <1>7 DEF AddReturn, Return, IInv, FunIdCounts, TypeOK
    <2>2. \A l \in Listeners : key'[l] = IF l = arg[t].cb THEN s_fun_id ELSE key[l]
      BY <1>0, <1>7 DEF TypeOK, AddReturn, FunId
    <2>3. \A u \in Threads : u # t => pc'[u] = pc[u] /\ arg'[u] = arg[u]
      BY <1>0, <1>7 DEF TypeOK, AddReturn, Return
    <2>4. ASSUME NEW n \in Names, NEW k \in Keys, m_cbs[n][k] # NoListener
          PROVE  \/ key'[m_cbs[n][k]] # 0
                 \/ \E u \in Threads : /\ pc'[u] = "return"
                                       /\ arg'[u].cb = m_cbs[n][k] /\ arg'[u].name = n
      <3>1. m_cbs[n][k] \in Listeners
        BY <1>0, <2>4 DEF TypeOK
      <3> QED
        BY <1>0, <2>1, <2>2, <2>3, <2>4, <3>1 DEF RegisteredOnce
    <2>5. m_cbs' = m_cbs
      BY <1>7 DEF AddReturn
    <2> QED
      BY <1>0, <2>4, <2>5 DEF RegisteredOnce
  <1>8. ASSUME NEW n \in Names, NEW l \in Listeners, DelListener(n, l)
        PROVE  RegisteredOnce'
    <2>1. \A m \in Names : \A k \in Keys :
            m_cbs'[m][k] = IF m = n /\ k = key[l] THEN NoListener ELSE m_cbs[m][k]
      BY <1>0, <1>8 DEF TypeOK, DelListener
    <2>2. \A j \in Listeners : key[j] # 0 => key'[j] # 0
      BY <1>0, <1>8 DEF TypeOK, DelListener
    <2>3. \A m \in Names : \A k \in Keys : m_cbs[m][k] # NoListener => m_cbs[m][k] \in Listeners
      BY <1>0 DEF TypeOK
    <2>4. UNCHANGED <<pc, arg>>
      BY <1>8 DEF DelListener
    <2> QED
      BY <1>0, <2>1, <2>2, <2>3, <2>4 DEF RegisteredOnce
  <1>9. ASSUME NEW n \in Names, ClearListener(n)
        PROVE  RegisteredOnce'
    <2>1. \A m \in Names : \A k \in Keys :
            m_cbs'[m][k] = IF m = n THEN NoListener ELSE m_cbs[m][k]
      BY <1>0, <1>9 DEF TypeOK, ClearListener
    <2>2. \A j \in Listeners : key[j] # 0 => key'[j] # 0
      BY <1>0, <1>9 DEF TypeOK, ClearListener
    <2>3. \A m \in Names : \A k \in Keys : m_cbs[m][k] # NoListener => m_cbs[m][k] \in Listeners
      BY <1>0 DEF TypeOK
    <2>4. UNCHANGED <<pc, arg>>
      BY <1>9 DEF ClearListener
    <2> QED
      BY <1>0, <2>1, <2>2, <2>3, <2>4 DEF RegisteredOnce
  <1>10. CASE UNCHANGED vars
    BY <1>0, <1>10 DEF RegisteredOnce, vars
  <1>11. ASSUME NEW t \in Threads, NEW n \in Names, NEW l \in Listeners, GetValue(t, n, l)
         PROVE  RegisteredOnce'
    <2>1. \A u \in Threads : pc[u] = "return" => pc'[u] = pc[u] /\ arg'[u] = arg[u]
      BY <1>0, <1>11 DEF TypeOK, GetValue, Call
    <2>2. UNCHANGED <<m_cbs, key>>
      BY <1>11 DEF GetValue
    <2> QED
      BY <1>0, <2>1, <2>2 DEF RegisteredOnce
  <1> QED
    BY <1>1, <1>2, <1>3, <1>4, <1>5, <1>6, <1>7, <1>8, <1>9, <1>10, <1>11
       DEF Next, ThreadStep

(* ... and the one change of a variable keeps to itself or is noticed.     *)
LEMMA AloneStep == IInv /\ [Next]_vars => AloneMeans'
  <1> SUFFICES ASSUME IInv, [Next]_vars
               PROVE  AloneMeans'
    OBVIOUS
  <1>0. TypeOK /\ CallsKnow /\ AloneMeans
    BY DEF IInv
  <1> DEFINE Busy(u) == pc[u] = "assign" \/ Joining(u)
  <1>a. ASSUME NEW t \in Threads, alone' = alone,
               \A u \in Threads : /\ u # t => pc'[u] = pc[u] /\ arg'[u] = arg[u]
                                  /\ Busy(u)' => Busy(u) /\ arg'[u] = arg[u]
                                  /\ pc'[u] = "assign" => pc[u] = "assign"
        PROVE  AloneMeans'
    BY <1>0, <1>a DEF AloneMeans, Adding, Joining
  <1>1. ASSUME NEW n \in Names, Lookup(n)
        PROVE  AloneMeans'
    BY <1>0, <1>1 DEF AloneMeans, Adding, Joining, Lookup, ghost
  <1>2. ASSUME NEW t \in Threads, NEW n \in Names, NEW v \in Values, SetNotify(t, n, v)
        PROVE  AloneMeans'
    <2>1. /\ pc'[t] = "assign" /\ arg'[t].name = n
          /\ \A u \in Threads : u # t => pc'[u] = pc[u] /\ arg'[u] = arg[u]
      BY <1>0, <1>2 DEF TypeOK, SetNotify, Call
    <2>2. n \in alone' => \A u \in Threads : arg[u].name = n => ~ Joining(u)
      BY <1>2 DEF SetNotify
    <2>3. n \in alone' => \A u \in Threads : ~ (pc[u] = "assign" /\ arg[u].name = n)
      BY <1>2 DEF SetNotify, Assigning
    <2>4. \A m \in alone' : m # n => m \in alone
      BY <1>2 DEF SetNotify
    <2>5. ASSUME NEW m \in alone', NEW u \in Threads, NEW w \in Threads,
                 pc'[u] = "assign", arg'[u].name = m, Busy(w)', arg'[w].name = m
          PROVE  u = w
      <3>1. CASE m = n
        BY <2>1, <2>2, <2>3, <2>5, <3>1 DEF Joining, Adding
      <3>2. CASE m # n
        <4>1. u # t /\ w # t
          BY <2>1, <2>5, <3>2
        <4> QED
          BY <1>0, <2>1, <2>4, <2>5, <3>2, <4>1 DEF AloneMeans, Adding, Joining
      <3> QED
        BY <3>1, <3>2
    <2> QED
      BY <2>5 DEF AloneMeans
  <1>3. ASSUME NEW t \in Threads, SetAssign(t)
        PROVE  AloneMeans'
    BY <1>0, <1>3, <1>a DEF TypeOK, Adding, Joining, SetAssign, Return, ghost
  <1>4. ASSUME NEW t \in Threads, AddLoad(t)
        PROVE  AloneMeans'
    BY <1>0, <1>4, <1>a DEF TypeOK, Adding, Joining, AddLoad
  <1>5. ASSUME NEW t \in Threads, AddStore(t)
        PROVE  AloneMeans'
    BY <1>0, <1>5, <1>a DEF TypeOK, Adding, Joining, AddStore, ghost
  <1>6. ASSUME NEW t \in Threads, AddPut(t)
        PROVE  AloneMeans'
    BY <1>0, <1>6, <1>a DEF TypeOK, Adding, Joining, AddPut, ghost
  <1>7. ASSUME NEW t \in Threads, AddReturn(t)
        PROVE  AloneMeans'
    BY <1>0, <1>7, <1>a DEF TypeOK, Adding, Joining, AddReturn, Return, ghost
  <1>8. ASSUME NEW n \in Names, NEW l \in Listeners, DelListener(n, l)
        PROVE  AloneMeans'
    BY <1>0, <1>8 DEF AloneMeans, Adding, Joining, DelListener, ghost
  <1>9. ASSUME NEW n \in Names, ClearListener(n)
        PROVE  AloneMeans'
    BY <1>0, <1>9 DEF AloneMeans, Adding, Joining, ClearListener, ghost
  <1>10. CASE UNCHANGED vars
    BY <1>0, <1>10 DEF AloneMeans, Adding, Joining, vars, ghost
  <1>11. ASSUME NEW t \in Threads, NEW n \in Names, NEW l \in Listeners, GetValue(t, n, l)
         PROVE  AloneMeans'
    <2>1. /\ pc'[t] = "read" /\ arg'[t].name = n
          /\ \A u \in Threads : u # t => pc'[u] = pc[u] /\ arg'[u] = arg[u]
      BY <1>0, <1>11 DEF TypeOK, GetValue, Call
    <2>2. n \in alone' => \A u \in Threads : ~ (pc[u] = "assign" /\ arg[u].name = n)
      BY <1>11 DEF GetValue, Assigning
    <2>3. alone' \subseteq alone
      BY <1>11 DEF GetValue
    <2>4. ASSUME NEW m \in alone', NEW u \in Threads, NEW w \in Threads,
                 pc'[u] = "assign", arg'[u].name = m, Busy(w)', arg'[w].name = m
          PROVE  u = w
      <3>1. u # t /\ pc[u] = "assign" /\ arg[u].name = m
        BY <2>1, <2>4
      <3>2. m # n
        BY <2>2, <2>4, <3>1
      <3>3. w # t
        BY <2>1, <2>4, <3>2
      <3> QED
        BY <1>0, <2>1, <2>3, <2>4, <3>1, <3>3 DEF AloneMeans, Adding, Joining
    <2> QED
      BY <2>4 DEF AloneMeans
  <1> QED
    BY <1>1, <1>2, <1>3, <1>4, <1>5, <1>6, <1>7, <1>8, <1>9, <1>10, <1>11
       DEF Next, ThreadStep

-----------------------------------------------------------------------------
(* s_fun_id has not counted further than the listeners it was stored for.  *)
LEMMA CountStep == IInv /\ [Next]_vars => FunIdCounts'
  <1> SUFFICES ASSUME IInv, [Next]_vars
               PROVE  FunIdCounts'
    OBVIOUS
  <1>0. TypeOK /\ CallsKnow /\ FunIdCounts
    BY DEF IInv
  <1>n. s_fun_id \in Int /\ s_fun_id >= 0 /\ \A t \in Threads : old_id[t] \in Int /\ old_id[t] >= 0
    BY <1>0, CardinalityNat DEF TypeOK
  <1>c. ASSUME Stored \subseteq Stored'
        PROVE  /\ Cardinality(Stored) \in Nat /\ Cardinality(Stored') \in Nat
               /\ Cardinality(Stored) <= Cardinality(Stored')
    <2>1. Stored' \subseteq Listeners
      BY DEF Stored
    <2>2. IsFiniteSet(Stored')
      BY <2>1, SetsFinite, FS_Subset
    <2> QED
      BY <1>c, <2>2, StoredFits, FS_Subset, FS_CardinalityType
  <1>a. ASSUME Stored \subseteq Stored', s_fun_id' = s_fun_id, old_id' = old_id,
               \A u \in Threads : pc'[u] \in {"put", "return"} => pc[u] \in {"put", "return"}
        PROVE  FunIdCounts'
    BY <1>0, <1>n, <1>a, <1>c DEF FunIdCounts
  <1>1. ASSUME NEW n \in Names, Lookup(n)
        PROVE  FunIdCounts'
    BY <1>1, <1>a DEF Stored, Lookup
  <1>2. ASSUME NEW t \in Threads, NEW n \in Names, NEW v \in Values, SetNotify(t, n, v)
        PROVE  FunIdCounts'
    <2>1. \A u \in Threads : /\ pc[u] \in {"put", "return"} => pc'[u] = pc[u] /\ arg'[u] = arg[u]
                             /\ pc'[u] \in {"put", "return"} => pc[u] \in {"put", "return"}
      BY <1>0, <1>2 DEF TypeOK, SetNotify, Call
    <2>2. UNCHANGED <<s_fun_id, old_id, key>>
      BY <1>2 DEF SetNotify
    <2>3. Stored \subseteq Stored'
      BY <2>1, <2>2 DEF Stored
    <2> QED
      BY <1>a, <2>1, <2>2, <2>3
  <1>3. ASSUME NEW t \in Threads, SetAssign(t)
        PROVE  FunIdCounts'
    <2>1. \A u \in Threads : /\ pc[u] \in {"put", "return"} => pc'[u] = pc[u] /\ arg'[u] = arg[u]
                             /\ pc'[u] \in {"put", "return"} => pc[u] \in {"put", "return"}
      BY <1>0, <1>3 DEF TypeOK, SetAssign, Return
    <2>2. UNCHANGED <<s_fun_id, old_id, key>>
      BY <1>3 DEF SetAssign
    <2>3. Stored \subseteq Stored'
      BY <2>1, <2>2 DEF Stored
    <2> QED
      BY <1>a, <2>1, <2>2, <2>3
  <1>4. ASSUME NEW t \in Threads, AddLoad(t)
        PROVE  FunIdCounts'
    <2>1. \A u \in Threads : /\ pc[u] \in {"put", "return"} => pc'[u] = pc[u] /\ arg'[u] = arg[u]
                             /\ pc'[u] \in {"put", "return"} => pc[u] \in {"put", "return"}
      BY <1>0, <1>4 DEF TypeOK, AddLoad
    <2>2. UNCHANGED <<s_fun_id, key>> /\ old_id' = [old_id EXCEPT ![t] = s_fun_id]
      BY <1>4 DEF AddLoad
    <2>3. Stored \subseteq Stored'
      BY <2>1, <2>2 DEF Stored
    <2>4. \A u \in Threads : old_id'[u] \in {old_id[u], s_fun_id}
      BY <1>0, <2>2 DEF TypeOK
    <2> QED
      BY <1>0, <1>n, <1>c, <2>1, <2>2, <2>3, <2>4 DEF FunIdCounts
  <1>5. ASSUME NEW t \in Threads, AddStore(t)
        PROVE  FunIdCounts'
    <2> DEFINE l == arg[t].cb
    <2>1. Adding(t) /\ l \in Listeners /\ key[l] = 0
      BY <1>0, <1>5 DEF AddStore, Adding, Joining, CallsKnow
    <2>2. l \notin Stored
      BY <1>0, <1>5, <2>1 DEF Stored, CallsKnow, Adding, Joining, AddStore
    <2>3. /\ pc' = [pc EXCEPT ![t] = "put"] /\ s_fun_id' = old_id[t] + 1
          /\ UNCHANGED <<arg, key, old_id>>
      BY <1>5 DEF AddStore
    <2>4. pc'[t] = "put" /\ \A u \in Threads : u # t => pc'[u] = pc[u]
      BY <1>0, <2>3 DEF TypeOK
    <2>5. pc[t] = "inc"
      BY <1>5 DEF AddStore
    <2>6. Stored' = Stored \cup {l}
      BY <2>1, <2>3, <2>4, <2>5 DEF Stored
    <2>7. Cardinality(Stored') = Cardinality(Stored) + 1
      BY <2>2, <2>6, StoredFits, FS_AddElement
    <2> QED
      BY <1>0, <1>n, <2>3, <2>7, StoredFits DEF FunIdCounts
  <1>6. ASSUME NEW t \in Threads, AddPut(t)
        PROVE  FunIdCounts'
    <2>1. \A u \in Threads : pc'[u] \in {"put", "return"} <=> pc[u] \in {"put", "return"}
      BY <1>0, <1>6 DEF TypeOK, AddPut
    <2>2. UNCHANGED <<s_fun_id, old_id, key, arg>>
      BY <1>6 DEF AddPut
    <2>3. Stored \subseteq Stored'
      BY <2>1, <2>2 DEF Stored
    <2> QED
      BY <1>a, <2>1, <2>2, <2>3
  <1>7. ASSUME NEW t \in Threads, AddReturn(t)
        PROVE  FunIdCounts'
    <2>1. \A u \in Threads : /\ u # t => pc'[u] = pc[u] /\ arg'[u] = arg[u]
                             /\ pc'[u] \in {"put", "return"} => pc[u] \in {"put", "return"}
      BY <1>0, <1>7 DEF TypeOK, AddReturn, Return
    <2>2. UNCHANGED <<s_fun_id, old_id>>
      BY <1>7 DEF AddReturn
    <2>3. s_fun_id # 0
      BY <1>0, <1>n, <1>7 DEF AddReturn, Return, FunIdCounts
    <2>4. \A l \in Listeners : key'[l] = IF l = arg[t].cb THEN s_fun_id ELSE key[l]
      BY <1>0, <1>7 DEF TypeOK, AddReturn, FunId
    <2>5. Stored \subseteq Stored'
      BY <2>1, <2>3, <2>4 DEF Stored
    <2> QED
      BY <1>a, <2>1, <2>2, <2>5
  <1>8. ASSUME NEW n \in Names, NEW l \in Listeners, DelListener(n, l)
        PROVE  FunIdCounts'
    <2>1. \A j \in Listeners : key[j] # 0 => key'[j] # 0
      BY <1>0, <1>8 DEF TypeOK, DelListener
    <2>2. UNCHANGED <<s_fun_id, old_id, pc, arg>>
      BY <1>8 DEF DelListener
    <2>3. Stored \subseteq Stored'
      BY <2>1, <2>2 DEF Stored
    <2> QED
      BY <1>a, <2>2, <2>3
  <1>9. ASSUME NEW n \in Names, ClearListener(n)
        PROVE  FunIdCounts'
    <2>1. \A j \in Listeners : key[j] # 0 => key'[j] # 0
      BY <1>0, <1>9 DEF TypeOK, ClearListener
    <2>2. UNCHANGED <<s_fun_id, old_id, pc, arg>>
      BY <1>9 DEF ClearListener
    <2>3. Stored \subseteq Stored'
      BY <2>1, <2>2 DEF Stored
    <2> QED
      BY <1>a, <2>2, <2>3
  <1>10. CASE UNCHANGED vars
    BY <1>10, <1>a DEF Stored, vars
  <1>11. ASSUME NEW t \in Threads, NEW n \in Names, NEW l \in Listeners, GetValue(t, n, l)
         PROVE  FunIdCounts'
    <2>1. \A u \in Threads : /\ pc[u] \in {"put", "return"} => pc'[u] = pc[u] /\ arg'[u] = arg[u]
                             /\ pc'[u] \in {"put", "return"} => pc[u] \in {"put", "return"}
      BY <1>0, <1>11 DEF TypeOK, GetValue, Call
    <2>2. UNCHANGED <<s_fun_id, old_id, key>>
      BY <1>11 DEF GetValue
    <2>3. Stored \subseteq Stored'
      BY <2>1, <2>2 DEF Stored
    <2> QED
      BY <1>a, <2>1, <2>2, <2>3
  <1> QED
    BY <1>1, <1>2, <1>3, <1>4, <1>5, <1>6, <1>7, <1>8, <1>9, <1>10, <1>11
       DEF Next, ThreadStep

-----------------------------------------------------------------------------
(* A change of the value that a user has read and not yet joined takes the *)
(* variable out of alone.                                                  *)
LEMMA ReadersStep == IInv /\ [Next]_vars => ReadersKnow'
  <1> SUFFICES ASSUME IInv, [Next]_vars
               PROVE  ReadersKnow'
    OBVIOUS
  <1>0. TypeOK /\ CallsKnow /\ AloneMeans /\ ReadersKnow /\ alone \subseteq Names
    BY DEF IInv, TypeOK
  <1> DEFINE Reads(u) == pc[u] \in {"read", "inc", "put"}
  <1>a. ASSUME alone' \subseteq alone, UNCHANGED <<m_val, told>>,
               \A u \in Threads : Reads(u)' => Reads(u) /\ arg'[u] = arg[u]
        PROVE  ReadersKnow'
    BY <1>0, <1>a DEF ReadersKnow
  <1>1. ASSUME NEW n \in Names, Lookup(n)
        PROVE  ReadersKnow'
    BY <1>1, <1>a DEF Lookup, ghost
  <1>2. ASSUME NEW t \in Threads, NEW n \in Names, NEW v \in Values, SetNotify(t, n, v)
        PROVE  ReadersKnow'
    <2>1. \A u \in Threads : Reads(u)' => u # t /\ Reads(u) /\ arg'[u] = arg[u]
      BY <1>0, <1>2 DEF TypeOK, SetNotify, Call
    <2>2. n \in alone' => \A u \in Threads : arg[u].name = n => ~ Reads(u)
      BY <1>2 DEF SetNotify, Joining, Adding
    <2>3. m_val' = m_val /\ \A m \in alone' : m # n => m \in alone
      BY <1>2 DEF SetNotify
    <2>4. ASSUME NEW u \in Threads, Reads(u)
          PROVE  told'[arg[u].cb] = told[arg[u].cb]
      <3>1. arg[u].cb \in Listeners
        BY <1>0, <2>4 DEF CallsKnow, Joining, Adding
      <3>2. arg[u].cb \notin Registered(n)
        BY <2>4, PutIsNew DEF Registered
      <3> QED
        BY <1>2, <3>1, <3>2 DEF SetNotify, Notified
    <2> QED
      BY <1>0, <2>1, <2>2, <2>3, <2>4 DEF ReadersKnow
  <1>3. ASSUME NEW t \in Threads, SetAssign(t)
        PROVE  ReadersKnow'
    <2>0. PICK x \in Names : x = arg[t].name
      BY <1>0, <1>3 DEF CallsKnow, SetAssign, Return
    <2>1. /\ pc[t] = "assign" /\ UNCHANGED <<told, alone>>
          /\ \A u \in Threads : Reads(u)' => Reads(u) /\ arg'[u] = arg[u]
      BY <1>0, <1>3 DEF TypeOK, SetAssign, Return, ghost
    <2>2. \A n \in Names : n # x => m_val'[n] = m_val[n]
      BY <1>0, <1>3, <2>0 DEF TypeOK, SetAssign
    <2>3. x \in alone => \A u \in Threads : arg[u].name = x => ~ Reads(u)
      BY <1>0, <2>0, <2>1 DEF AloneMeans, Joining, Adding
    <2> QED
      BY <1>0, <2>1, <2>2, <2>3 DEF ReadersKnow
  <1>4. ASSUME NEW t \in Threads, AddLoad(t)
        PROVE  ReadersKnow'
    BY <1>0, <1>4, <1>a DEF TypeOK, AddLoad
  <1>5. ASSUME NEW t \in Threads, AddStore(t)
        PROVE  ReadersKnow'
    BY <1>0, <1>5, <1>a DEF TypeOK, AddStore, ghost
  <1>6. ASSUME NEW t \in Threads, AddPut(t)
        PROVE  ReadersKnow'
    BY <1>0, <1>6, <1>a DEF TypeOK, AddPut, ghost
  <1>7. ASSUME NEW t \in Threads, AddReturn(t)
        PROVE  ReadersKnow'
    BY <1>0, <1>7, <1>a DEF TypeOK, AddReturn, Return, ghost
  <1>8. ASSUME NEW n \in Names, NEW l \in Listeners, DelListener(n, l)
        PROVE  ReadersKnow'
    BY <1>8, <1>a DEF DelListener, ghost
  <1>9. ASSUME NEW n \in Names, ClearListener(n)
        PROVE  ReadersKnow'
    BY <1>9, <1>a DEF ClearListener, ghost
  <1>10. CASE UNCHANGED vars
    BY <1>10, <1>a DEF vars, ghost
  <1>11. ASSUME NEW t \in Threads, NEW n \in Names, NEW l \in Listeners, GetValue(t, n, l)
         PROVE  ReadersKnow'
    <2>1. /\ m_val' = m_val /\ alone' \subseteq alone
          /\ \A c \in Listeners : told'[c] = IF c = l THEN m_val[n] ELSE told[c]
      BY <1>0, <1>11 DEF TypeOK, GetValue
    <2>2. /\ arg'[t].name = n /\ arg'[t].cb = l
          /\ \A u \in Threads : u # t => pc'[u] = pc[u] /\ arg'[u] = arg[u]
      BY <1>0, <1>11 DEF TypeOK, GetValue, Call
    <2>3. \A u \in Threads : Reads(u) => arg[u].cb \in Listeners /\ arg[u].cb # l
      BY <1>0, <1>11 DEF CallsKnow, Joining, Adding, GetValue
    <2>4. ASSUME NEW m \in alone', NEW u \in Threads, Reads(u)', arg'[u].name = m
          PROVE  told'[arg'[u].cb] = m_val'[m]
      <3>1. CASE u = t
        BY <2>1, <2>2, <2>4, <3>1
      <3>2. CASE u # t
        BY <1>0, <2>1, <2>2, <2>3, <2>4, <3>2 DEF ReadersKnow
      <3> QED
        BY <3>1, <3>2
    <2> QED
      BY <2>4 DEF ReadersKnow
  <1> QED
    BY <1>1, <1>2, <1>3, <1>4, <1>5, <1>6, <1>7, <1>8, <1>9, <1>10, <1>11
       DEF Next, ThreadStep

(* Listeners know the value, or the one that is about to be assigned.      *)
LEMMA FollowStep == IInv /\ [Next]_vars => ListenersFollow'
  <1> SUFFICES ASSUME IInv, [Next]_vars
               PROVE  ListenersFollow'
    OBVIOUS
  <1>0. TypeOK /\ CallsKnow /\ RegisteredOnce /\ AloneMeans /\ ReadersKnow /\ ListenersFollow
    BY DEF IInv
  <1> DEFINE Sets(u, n) == pc[u] = "assign" /\ arg[u].name = n
             Known(n) == IF Assigning(n) THEN Pending(n) ELSE {m_val[n]}
             Follow(n) == \A l \in Registered(n) : told[l] \in Known(n)
  <1>a. ASSUME NEW n \in alone,
               \A u \in Threads : /\ Sets(u, n)' <=> Sets(u, n)
                                  /\ Sets(u, n) => arg'[u] = arg[u]
        PROVE  /\ Assigning(n)' <=> Assigning(n)
               /\ Pending(n)' = Pending(n)
    BY <1>a DEF Assigning, Pending
  <1>b. ASSUME NEW n \in alone, m_val'[n] = m_val[n],
               \A u \in Threads : /\ Sets(u, n)' <=> Sets(u, n)
                                  /\ Sets(u, n) => arg'[u] = arg[u],
               Registered(n)' \subseteq Registered(n),
               \A l \in Registered(n)' : told'[l] = told[l]
        PROVE  Follow(n)'
    <2>1. Known(n)' = Known(n)
      BY <1>a, <1>b
    <2> QED
      BY <1>0, <1>b, <2>1 DEF ListenersFollow
  <1>c. alone \subseteq Names
    BY <1>0 DEF TypeOK
  <1>1. ASSUME NEW x \in Names, Lookup(x)
        PROVE  \A n \in alone' : Follow(n)'
    BY <1>1, <1>b DEF Registered, Lookup, ghost
  <1>2. ASSUME NEW t \in Threads, NEW x \in Names, NEW v \in Values, SetNotify(t, x, v)
        PROVE  \A n \in alone' : Follow(n)'
    <2>1. /\ pc'[t] = "assign" /\ arg'[t].name = x /\ arg'[t].value = v /\ pc[t] = "idle"
          /\ \A u \in Threads : u # t => pc'[u] = pc[u] /\ arg'[u] = arg[u]
      BY <1>0, <1>2 DEF TypeOK, SetNotify, Call
    <2>2. /\ m_val' = m_val /\ m_cbs' = m_cbs
          /\ \A l \in Listeners : told'[l] = IF l \in Registered(x) THEN v ELSE told[l]
      BY <1>2 DEF SetNotify, Notified
    <2>3. \A n \in Names : Registered(n)' = Registered(n) /\ Registered(n) \subseteq Listeners
      BY <1>0, <2>2 DEF Registered, TypeOK
    <2>4. ASSUME x \in alone'
          PROVE  Follow(x)'
      <3>1. v \in Pending(x)' /\ Assigning(x)'
        BY <2>1 DEF Pending, Assigning
      <3> QED
        BY <2>2, <2>3, <3>1
    <2>5. ASSUME NEW n \in alone', n # x
          PROVE  Follow(n)'
      <3>1. n \in alone
        BY <1>2, <2>5 DEF SetNotify
      <3>2. \A l \in Registered(n) : l \notin Registered(x)
        BY <1>0, <1>c, <2>5, <3>1 DEF Registered, RegisteredOnce
      <3>3. \A u \in Threads : (Sets(u, n)' <=> Sets(u, n)) /\ (Sets(u, n) => arg'[u] = arg[u])
        BY <2>1, <2>5
      <3> QED
        BY <1>b, <1>c, <2>2, <2>3, <3>1, <3>2, <3>3
    <2> QED
      BY <2>4, <2>5
  <1>3. ASSUME NEW t \in Threads, SetAssign(t)
        PROVE  \A n \in alone' : Follow(n)'
    <2>0. PICK x \in Names : x = arg[t].name
      BY <1>0, <1>3 DEF CallsKnow, SetAssign, Return
    <2>1. /\ pc'[t] = "idle" /\ pc[t] = "assign"
          /\ \A u \in Threads : u # t => pc'[u] = pc[u] /\ arg'[u] = arg[u]
      BY <1>0, <1>3 DEF TypeOK, SetAssign, Return
    <2>2. /\ UNCHANGED <<m_cbs, told, alone>>
          /\ \A n \in Names : m_val'[n] = IF n = x THEN arg[t].value ELSE m_val[n]
      BY <1>0, <1>3, <2>0 DEF TypeOK, SetAssign, ghost
    <2>3. \A n \in Names : Registered(n)' = Registered(n)
      BY <2>2 DEF Registered
    <2>4. ASSUME x \in alone
          PROVE  Follow(x)'
      <3>1. \A u \in Threads : Sets(u, x) => u = t
        BY <1>0, <2>0, <2>1, <2>4 DEF AloneMeans
      <3>2. Assigning(x) /\ Pending(x) = {arg[t].value}
        BY <2>0, <2>1, <3>1 DEF Pending, Assigning
      <3>3. ~ Assigning(x)'
        BY <2>1, <3>1 DEF Assigning
      <3> QED
        BY <1>0, <2>2, <2>3, <2>4, <3>2, <3>3 DEF ListenersFollow
    <2>5. ASSUME NEW n \in alone, n # x
          PROVE  Follow(n)'
      <3>1. \A u \in Threads : (Sets(u, n)' <=> Sets(u, n)) /\ (Sets(u, n) => arg'[u] = arg[u])
        BY <2>0, <2>1, <2>5
      <3> QED
        BY <1>b, <1>c, <2>2, <2>3, <2>5, <3>1
    <2> QED
      BY <2>2, <2>4, <2>5
  <1>4. ASSUME NEW t \in Threads, AddLoad(t)
        PROVE  \A n \in alone' : Follow(n)'
    <2>1. /\ pc'[t] = "inc" /\ pc[t] = "read" /\ arg' = arg
          /\ \A u \in Threads : u # t => pc'[u] = pc[u]
      BY <1>0, <1>4 DEF TypeOK, AddLoad
    <2>2. UNCHANGED <<m_val, m_cbs, told, alone>>
      BY <1>4 DEF AddLoad
    <2>3. \A n \in Names : Registered(n)' = Registered(n)
      BY <2>2 DEF Registered
    <2>4. \A n \in alone, u \in Threads :
            (Sets(u, n)' <=> Sets(u, n)) /\ (Sets(u, n) => arg'[u] = arg[u])
      BY <2>1
    <2> QED
      BY <1>b, <1>c, <2>2, <2>3, <2>4
  <1>5. ASSUME NEW t \in Threads, AddStore(t)
        PROVE  \A n \in alone' : Follow(n)'
    <2>1. /\ pc'[t] = "put" /\ pc[t] = "inc" /\ arg' = arg
          /\ \A u \in Threads : u # t => pc'[u] = pc[u]
      BY <1>0, <1>5 DEF TypeOK, AddStore
    <2>2. UNCHANGED <<m_val, m_cbs, told, alone>>
      BY <1>5 DEF AddStore, ghost
    <2>3. \A n \in Names : Registered(n)' = Registered(n)
      BY <2>2 DEF Registered
    <2>4. \A n \in alone, u \in Threads :
            (Sets(u, n)' <=> Sets(u, n)) /\ (Sets(u, n) => arg'[u] = arg[u])
      BY <2>1
    <2> QED
      BY <1>b, <1>c, <2>2, <2>3, <2>4
  <1>6. ASSUME NEW t \in Threads, AddPut(t)
        PROVE  \A n \in alone' : Follow(n)'
    <2>0. PICK x \in Names, c \in Listeners : x = arg[t].name /\ c = arg[t].cb
      BY <1>0, <1>6 DEF CallsKnow, Adding, Joining, AddPut
    <2>1. /\ pc'[t] = "return" /\ pc[t] = "put" /\ arg' = arg
          /\ \A u \in Threads : u # t => pc'[u] = pc[u]
      BY <1>0, <1>6 DEF TypeOK, AddPut
    <2>2. /\ UNCHANGED <<m_val, alone, told>>
          /\ x \in alone => told[c] = m_val[x]
      BY <1>0, <1>6, <2>0 DEF AddPut, ReadersKnow, ghost
    <2>3. \A n \in Names : c \notin Registered(n)
      BY <1>6, <2>0, PutIsNew DEF AddPut, Registered
    <2>4. \A n \in Names : \A k \in Keys :
            m_cbs'[n][k] = IF n = x /\ k = s_fun_id THEN c ELSE m_cbs[n][k]
      BY <1>0, <1>6, <2>0 DEF TypeOK, AddPut
    <2>5. /\ Registered(x)' \subseteq Registered(x) \cup {c}
          /\ \A n \in Names : n # x => Registered(n)' = Registered(n)
          /\ \A n \in Names : Registered(n) \subseteq Listeners
      <3>1. \A n \in Names : \A k \in Keys :
              m_cbs'[n][k] # NoListener => m_cbs'[n][k] \in Registered(n) \cup {c}
        BY <2>4 DEF Registered
      <3>2. Registered(x)' \subseteq Registered(x) \cup {c}
        BY <2>2, <3>1 DEF Registered
      <3>3. \A n \in Names : n # x => Registered(n)' = Registered(n)
        BY <2>4 DEF Registered
      <3>4. \A n \in Names : Registered(n) \subseteq Listeners
        BY <1>0 DEF Registered, TypeOK
      <3> QED
        BY <3>2, <3>3, <3>4
    <2>6. \A n \in alone, u \in Threads :
            (Sets(u, n)' <=> Sets(u, n)) /\ (Sets(u, n) => arg'[u] = arg[u])
      BY <2>1
    <2>7. ASSUME x \in alone
          PROVE  Follow(x)'
      <3>1. ~ Assigning(x)
        BY <1>0, <2>0, <2>1, <2>7 DEF AloneMeans, Assigning, Adding, Joining
      <3>2. ~ Assigning(x)'
        BY <1>a, <2>6, <2>7, <3>1
      <3>3. \A l \in Registered(x) : told[l] = m_val[x]
        BY <1>0, <2>7, <3>1 DEF ListenersFollow
      <3>4. ASSUME NEW l \in Registered(x)'
            PROVE  told'[l] = m_val[x]
        BY <2>2, <2>5, <2>7, <3>3, <3>4
      <3> QED
        BY <2>2, <3>2, <3>4
    <2>8. ASSUME NEW n \in alone, n # x
          PROVE  Follow(n)'
      <3>1. n \in Names
        BY <1>c
      <3>2. Registered(n)' = Registered(n) /\ \A l \in Registered(n) : told'[l] = told[l]
        BY <2>2, <2>3, <2>5, <2>8, <3>1
      <3> QED
        BY <1>b, <2>2, <2>6, <3>1, <3>2
    <2> QED
      BY <2>2, <2>7, <2>8
  <1>7. ASSUME NEW t \in Threads, AddReturn(t)
        PROVE  \A n \in alone' : Follow(n)'
    <2>1. /\ pc'[t] = "idle" /\ pc[t] = "return"
          /\ \A u \in Threads : u # t => pc'[u] = pc[u] /\ arg'[u] = arg[u]
      BY <1>0, <1>7 DEF TypeOK, AddReturn, Return
    <2>2. UNCHANGED <<m_val, m_cbs, told, alone>>
      BY <1>7 DEF AddReturn, ghost
    <2>3. \A n \in Names : Registered(n)' = Registered(n)
      BY <2>2 DEF Registered
    <2>4. \A n \in alone, u \in Threads :
            (Sets(u, n)' <=> Sets(u, n)) /\ (Sets(u, n) => arg'[u] = arg[u])
      BY <2>1
    <2> QED
      BY <1>b, <1>c, <2>2, <2>3, <2>4
  <1>d. ASSUME UNCHANGED <<m_val, told, alone, pc, arg>>,
               \A n \in Names : \A k \in Keys : m_cbs'[n][k] \in {m_cbs[n][k], NoListener}
        PROVE  \A n \in alone' : Follow(n)'
    <2>1. \A n \in Names : Registered(n)' \subseteq Registered(n)
      BY <1>d DEF Registered
    <2> QED
      BY <1>b, <1>c, <1>d, <2>1
  <1>8. ASSUME NEW x \in Names, NEW l \in Listeners, DelListener(x, l)
        PROVE  \A n \in alone' : Follow(n)'
    BY <1>0, <1>8, <1>d DEF TypeOK, DelListener, ghost
  <1>9. ASSUME NEW x \in Names, ClearListener(x)
        PROVE  \A n \in alone' : Follow(n)'
    BY <1>0, <1>9, <1>d DEF TypeOK, ClearListener, ghost
  <1>10. ASSUME UNCHANGED vars
         PROVE  \A n \in alone' : Follow(n)'
    BY <1>10, <1>d DEF vars, ghost
  <1>11. ASSUME NEW t \in Threads, NEW x \in Names, NEW l \in Listeners, GetValue(t, x, l)
         PROVE  \A n \in alone' : Follow(n)'
    <2>1. /\ pc'[t] = "read" /\ pc[t] = "idle"
          /\ \A u \in Threads : u # t => pc'[u] = pc[u] /\ arg'[u] = arg[u]
      BY <1>0, <1>11 DEF TypeOK, GetValue, Call
    <2>2. UNCHANGED <<m_val, m_cbs>> /\ alone' \subseteq alone
      BY <1>11 DEF GetValue
    <2>3. \A n \in Names : Registered(n)' = Registered(n) /\ Registered(n) \subseteq Listeners
      BY <1>0, <2>2 DEF TypeOK, Registered
    <2>4. \A n \in alone, u \in Threads :
            (Sets(u, n)' <=> Sets(u, n)) /\ (Sets(u, n) => arg'[u] = arg[u])
      BY <2>1
    <2>5. \A n \in Names : l \notin Registered(n)
      BY <1>0, <1>11 DEF GetValue, Registered, RegisteredOnce
    <2>6. \A n \in Names : \A c \in Registered(n) : told'[c] = told[c]
      BY <1>0, <1>11, <2>3, <2>5 DEF TypeOK, GetValue
    <2> QED
      BY <1>b, <1>c, <2>2, <2>3, <2>4, <2>6
  <1>12. \A n \in alone' : Follow(n)'
    BY <1>1, <1>2, <1>3, <1>4, <1>5, <1>6, <1>7, <1>8, <1>9, <1>10, <1>11
       DEF Next, ThreadStep
  <1> QED
    BY <1>12 DEF ListenersFollow

-----------------------------------------------------------------------------
(* What two calls of addListener() cannot spoil but by meeting in it.      *)
LEMMA KeysStep == IInv /\ [Next]_vars => KeysFollow' /\ KeyIsOwn'
  <1> SUFFICES ASSUME IInv, [Next]_vars, ~ raced'
               PROVE  KeysFollow' /\ KeyIsOwn'
    BY DEF KeysFollow, KeyIsOwn
  <1>0. TypeOK /\ CallsKnow /\ RegisteredOnce /\ FunIdCounts
    BY DEF IInv
  <1>r. ~ raced
    BY DEF Next, ThreadStep, Lookup, SetNotify, SetAssign, GetValue, AddLoad, AddStore, AddPut, AddReturn,
           DelListener, ClearListener, vars, ghost
  <1>k. /\ KeysFollow /\ KeyIsOwn /\ s_fun_id \in Int
        /\ \A t \in Threads : old_id[t] \in Int
        /\ Keys \subseteq Int
    BY <1>0, CardinalityNat DEF IInv, TypeOK, Keys
  <1>o. \A t, u \in Threads : Adding(t) /\ Adding(u) => t = u
    BY <1>k, <1>r DEF KeysFollow
  <1> DEFINE Below(b) == \A n \in Names : \A k \in Keys : m_cbs[n][k] # NoListener => k <= b
  (* Calls of setValue() and getValue(), and of nobody. *)
  <1>a. ASSUME UNCHANGED <<m_cbs, s_fun_id, old_id, key>>,
               \A u \in Threads : Adding(u)' => pc'[u] = pc[u] /\ arg'[u] = arg[u]
        PROVE  KeysFollow' /\ KeyIsOwn'
    <2>1. \A u \in Threads : Adding(u)' => Adding(u)
      BY <1>a DEF Adding
    <2>2. KeyIsOwn'
      BY <1>a, <1>k, <1>r DEF KeyIsOwn
    <2>3. \A t, u \in Threads : Adding(t)' /\ Adding(u)' => t = u
      BY <1>o, <2>1
    <2>4. Below(s_fun_id)'
      BY <1>a, <1>k, <1>r DEF KeysFollow
    <2>5. ASSUME NEW t \in Threads
          PROVE  /\ pc'[t] = "inc" => old_id'[t] = s_fun_id'
                 /\ pc'[t] = "put" =>
                      \A n \in Names : \A k \in Keys : m_cbs'[n][k] # NoListener => k < s_fun_id'
                 /\ pc'[t] = "return" => m_cbs'[arg'[t].name][s_fun_id'] = arg'[t].cb
      BY <1>a, <1>k, <1>r DEF KeysFollow, Adding
    <2> QED
      BY <2>2, <2>3, <2>4, <2>5 DEF KeysFollow
  <1>1. ASSUME NEW n \in Names, Lookup(n)
        PROVE  KeysFollow' /\ KeyIsOwn'
    BY <1>1, <1>a DEF Lookup
  <1>2. ASSUME NEW t \in Threads, NEW n \in Names, NEW v \in Values, SetNotify(t, n, v)
        PROVE  KeysFollow' /\ KeyIsOwn'
    <2>1. \A u \in Threads : Adding(u)' => pc'[u] = pc[u] /\ arg'[u] = arg[u]
      BY <1>0, <1>2 DEF TypeOK, SetNotify, Call, Adding
    <2> QED
      BY <1>2, <1>a, <2>1 DEF SetNotify
  <1>3. ASSUME NEW t \in Threads, SetAssign(t)
        PROVE  KeysFollow' /\ KeyIsOwn'
    <2>1. \A u \in Threads : Adding(u)' => pc'[u] = pc[u] /\ arg'[u] = arg[u]
      BY <1>0, <1>3 DEF TypeOK, SetAssign, Return, Adding
    <2> QED
      BY <1>3, <1>a, <2>1 DEF SetAssign
  <1>4. ASSUME NEW t \in Threads, AddLoad(t)
        PROVE  KeysFollow' /\ KeyIsOwn'
    <2>1. \A u \in Threads : ~ Adding(u)
      BY <1>4 DEF AddLoad
    <2>2. /\ pc'[t] = "inc"
          /\ \A u \in Threads : u # t => pc'[u] = pc[u]
          /\ old_id'[t] = s_fun_id
          /\ UNCHANGED <<s_fun_id, m_cbs, key>>
      BY <1>0, <1>4 DEF TypeOK, AddLoad
    <2>3. \A u \in Threads : Adding(u)' => u = t
      BY <2>1, <2>2 DEF Adding
    <2>4. KeyIsOwn'
      BY <1>k, <1>r, <2>2 DEF KeyIsOwn
    <2>5. Below(s_fun_id)'
      BY <1>k, <1>r, <2>2 DEF KeysFollow
    <2>6. \A u \in Threads : pc'[u] \in {"inc", "put", "return"} => u = t
      BY <2>3 DEF Adding
    <2> QED
      BY <2>2, <2>3, <2>4, <2>5, <2>6 DEF KeysFollow
  <1>5. ASSUME NEW t \in Threads, AddStore(t)
        PROVE  KeysFollow' /\ KeyIsOwn'
    <2>1. /\ pc'[t] = "put" /\ pc[t] = "inc" /\ arg' = arg
          /\ \A u \in Threads : u # t => pc'[u] = pc[u]
          /\ UNCHANGED <<m_cbs, key>> /\ s_fun_id' = old_id[t] + 1
      BY <1>0, <1>5 DEF TypeOK, AddStore
    <2>2. s_fun_id' = s_fun_id + 1
      BY <1>k, <1>r, <2>1 DEF KeysFollow
    <2>3. \A u \in Threads : Adding(u)' => u = t
      BY <1>o, <2>1 DEF Adding
    <2>4. KeyIsOwn'
      BY <1>k, <1>r, <2>1 DEF KeyIsOwn
    <2>5. \A n \in Names : \A k \in Keys :
            m_cbs'[n][k] # NoListener => k < s_fun_id' /\ k <= s_fun_id'
      BY <1>k, <1>r, <2>1, <2>2 DEF KeysFollow
    <2>6. \A u \in Threads : pc'[u] \in {"inc", "put", "return"} => u = t
      BY <2>3 DEF Adding
    <2> QED
      BY <2>1, <2>3, <2>4, <2>5, <2>6 DEF KeysFollow
  <1>6. ASSUME NEW t \in Threads, AddPut(t)
        PROVE  KeysFollow' /\ KeyIsOwn'
    <2>0. PICK x \in Names, c \in Listeners : x = arg[t].name /\ c = arg[t].cb
      BY <1>0, <1>6 DEF CallsKnow, Adding, Joining, AddPut
    <2>1. /\ pc'[t] = "return" /\ pc[t] = "put" /\ arg' = arg
          /\ \A u \in Threads : u # t => pc'[u] = pc[u]
          /\ UNCHANGED <<s_fun_id, key>>
      BY <1>0, <1>6 DEF TypeOK, AddPut
    <2>2. \A n \in Names : \A k \in Keys :
            m_cbs'[n][k] = IF n = x /\ k = s_fun_id THEN c ELSE m_cbs[n][k]
      BY <1>0, <1>6, <2>0 DEF TypeOK, AddPut
    <2>3. s_fun_id \in Keys
      BY <1>0, <1>k, <2>1, CardinalityNat DEF FunIdCounts, Keys, TypeOK
    <2>4. \A n \in Names : \A k \in Keys : m_cbs[n][k] # NoListener => k < s_fun_id
      BY <1>k, <1>r, <2>1 DEF KeysFollow
    <2>5. KeyIsOwn'
      <3>1. ASSUME NEW l \in Listeners, key[l] > 0
            PROVE  \E n \in Names : m_cbs'[n][key[l]] = l
        <4>1. PICK n \in Names : m_cbs[n][key[l]] = l
          BY <1>k, <1>r, <3>1 DEF KeyIsOwn
        <4>2. key[l] \in Keys
          BY <1>0, <3>1, CardinalityNat DEF TypeOK
        <4>3. key[l] < s_fun_id
          BY <2>4, <4>1, <4>2, ListenersAssumption
        <4>4. key[l] # s_fun_id
          BY <1>k, <4>2, <4>3
        <4> QED
          BY <2>2, <4>1, <4>2, <4>4
      <3>2. ASSUME NEW m \in Names, NEW n \in Names, NEW k \in Keys,
                   m_cbs'[m][k] # NoListener, m_cbs'[n][k] # NoListener
            PROVE  m = n
        <4>1. CASE k = s_fun_id
          <5>1. \A o \in Names : m_cbs[o][k] = NoListener
            BY <1>k, <2>4, <4>1
          <5> QED
            BY <2>2, <3>2, <5>1
        <4>2. CASE k # s_fun_id
          BY <1>k, <1>r, <2>2, <3>2, <4>2 DEF KeyIsOwn
        <4> QED
          BY <4>1, <4>2
      <3> QED
        BY <2>1, <3>1, <3>2 DEF KeyIsOwn
    <2>6. Below(s_fun_id)'
      <3>1. ASSUME NEW n \in Names, NEW k \in Keys, m_cbs'[n][k] # NoListener
            PROVE  k <= s_fun_id
        <4>1. k = s_fun_id \/ k < s_fun_id
          BY <2>2, <2>4, <3>1
        <4> QED
          BY <1>k, <4>1
      <3> QED
        BY <2>1, <3>1
    <2>7. \A u \in Threads : Adding(u)' => u = t
      BY <1>o, <2>1 DEF Adding
    <2>8. \A u \in Threads : pc'[u] \in {"inc", "put", "return"} => u = t
      BY <2>7 DEF Adding
    <2>9. m_cbs'[arg'[t].name][s_fun_id'] = arg'[t].cb
      BY <2>0, <2>1, <2>2, <2>3
    <2> QED
      BY <2>1, <2>5, <2>6, <2>7, <2>8, <2>9 DEF KeysFollow
  <1>7. ASSUME NEW t \in Threads, AddReturn(t)
        PROVE  KeysFollow' /\ KeyIsOwn'
    <2>1. /\ pc'[t] = "idle" /\ pc[t] = "return"
          /\ \A u \in Threads : u # t => pc'[u] = pc[u]
          /\ UNCHANGED <<m_cbs, s_fun_id, old_id>>
      BY <1>0, <1>7 DEF TypeOK, AddReturn, Return
    <2>2. \A l \in Listeners : key'[l] = IF l = arg[t].cb THEN s_fun_id ELSE key[l]
      BY <1>0, <1>7 DEF TypeOK, AddReturn, FunId
    <2>3. \A u \in Threads : ~ Adding(u)'
      BY <1>o, <2>1 DEF Adding
    <2>4. arg[t].name \in Names /\ m_cbs[arg[t].name][s_fun_id] = arg[t].cb
      BY <1>0, <1>k, <1>r, <2>1 DEF KeysFollow, CallsKnow
    <2>5. KeyIsOwn'
      BY <1>k, <1>r, <2>1, <2>2, <2>4 DEF KeyIsOwn
    <2>6. Below(s_fun_id)'
      BY <1>k, <1>r, <2>1 DEF KeysFollow
    <2>7. \A u \in Threads : pc'[u] \notin {"inc", "put", "return"}
      BY <2>3 DEF Adding
    <2> QED
      BY <2>3, <2>5, <2>6, <2>7 DEF KeysFollow
  (* Listeners go: what is left is in its place, and no call is disturbed. *)
  <1>b. ASSUME NEW x \in Names, Free(x), UNCHANGED <<s_fun_id, old_id, pc, arg>>,
               \A n \in Names : n # x => m_cbs'[n] = m_cbs[n],
               \A k \in Keys : m_cbs'[x][k] \in {m_cbs[x][k], NoListener},
               \A l \in Listeners : key'[l] > 0 =>
                 key'[l] = key[l] /\ (m_cbs[x][key[l]] = l => m_cbs'[x][key[l]] = l)
        PROVE  KeysFollow' /\ KeyIsOwn'
    <2>1. KeyIsOwn'
      <3>1. ASSUME NEW l \in Listeners, key'[l] > 0
            PROVE  \E n \in Names : m_cbs'[n][key'[l]] = l
        <4>1. key'[l] = key[l] /\ (m_cbs[x][key[l]] = l => m_cbs'[x][key[l]] = l)
          BY <1>b, <3>1
        <4>2. PICK n \in Names : m_cbs[n][key[l]] = l
          BY <1>k, <1>r, <3>1, <4>1 DEF KeyIsOwn
        <4> QED
          BY <1>b, <4>1, <4>2
      <3>2. \A n \in Names : \A k \in Keys :
              m_cbs'[n][k] # NoListener => m_cbs[n][k] # NoListener
        BY <1>b
      <3>3. ASSUME NEW m \in Names, NEW n \in Names, NEW k \in Keys,
                   m_cbs'[m][k] # NoListener, m_cbs'[n][k] # NoListener
            PROVE  m = n
        BY <1>k, <1>r, <3>2, <3>3 DEF KeyIsOwn
      <3> QED
        BY <3>1, <3>3 DEF KeyIsOwn
    <2>2. \A n \in Names : \A k \in Keys :
            m_cbs'[n][k] # NoListener => m_cbs[n][k] # NoListener
      BY <1>b
    <2>3. Below(s_fun_id)'
      BY <1>b, <1>k, <1>r, <2>2 DEF KeysFollow
    <2>4. \A t, u \in Threads : Adding(t)' /\ Adding(u)' => t = u
      BY <1>b, <1>o DEF Adding
    <2>5. ASSUME NEW t \in Threads
          PROVE  /\ pc'[t] = "inc" => old_id'[t] = s_fun_id'
                 /\ pc'[t] = "put" =>
                      \A n \in Names : \A k \in Keys : m_cbs'[n][k] # NoListener => k < s_fun_id'
      BY <1>b, <1>k, <1>r, <2>2 DEF KeysFollow
    <2>6. ASSUME NEW t \in Threads, pc'[t] = "return"
          PROVE  m_cbs'[arg'[t].name][s_fun_id'] = arg'[t].cb
      <3>1. Adding(t) /\ pc[t] = "return"
        BY <1>b, <2>6 DEF Adding
      <3>2. arg[t].name \in Names /\ arg[t].name # x
        BY <1>0, <1>b, <3>1 DEF Free, CallsKnow, Adding
      <3> QED
        BY <1>b, <1>k, <1>r, <3>1, <3>2 DEF KeysFollow
    <2> QED
      BY <2>1, <2>3, <2>4, <2>5, <2>6 DEF KeysFollow
  <1>8. ASSUME NEW n \in Names, NEW l \in Listeners, DelListener(n, l)
        PROVE  KeysFollow' /\ KeyIsOwn'
    <2>1. /\ Free(n) /\ UNCHANGED <<s_fun_id, old_id, pc, arg>> /\ key[l] \in Keys /\ key[l] > 0
          /\ \A m \in Names : m # n => m_cbs'[m] = m_cbs[m]
          /\ \A k \in Keys : m_cbs'[n][k] = IF k = key[l] THEN NoListener ELSE m_cbs[n][k]
      BY <1>0, <1>8 DEF TypeOK, DelListener
    <2>2. m_cbs[n][key[l]] = l
      <3>1. PICK m \in Names : m_cbs[m][key[l]] = l
        BY <1>k, <1>r, <2>1 DEF KeyIsOwn
      <3>2. PICK k \in Keys : m_cbs[n][k] = l /\ l # NoListener
        BY <1>8 DEF DelListener, Registered
      <3> QED
        BY <1>0, <2>1, <3>1, <3>2 DEF RegisteredOnce
    <2>3. \A j \in Listeners : key'[j] = IF j = l THEN -1 ELSE key[j]
      BY <1>0, <1>8 DEF TypeOK, DelListener
    <2>4. ASSUME NEW j \in Listeners, key'[j] > 0
          PROVE  key'[j] = key[j] /\ (m_cbs[n][key[j]] = j => m_cbs'[n][key[j]] = j)
      <3>1. j # l /\ key'[j] = key[j] /\ key[j] \in Keys
        BY <1>0, <2>3, <2>4 DEF TypeOK
      <3> QED
        BY <2>1, <2>2, <3>1
    <2> QED
      BY <1>b, <2>1, <2>4
  <1>9. ASSUME NEW n \in Names, ClearListener(n)
        PROVE  KeysFollow' /\ KeyIsOwn'
    <2>1. /\ Free(n) /\ UNCHANGED <<s_fun_id, old_id, pc, arg>>
          /\ \A m \in Names : m # n => m_cbs'[m] = m_cbs[m]
          /\ \A k \in Keys : m_cbs'[n][k] = NoListener
          /\ \A l \in Listeners : key'[l] = IF l \in Registered(n) THEN -1 ELSE key[l]
      BY <1>0, <1>9 DEF TypeOK, ClearListener
    <2>2. ASSUME NEW l \in Listeners, key'[l] > 0
          PROVE  key'[l] = key[l] /\ m_cbs[n][key[l]] # l
      <3>1. l \notin Registered(n) /\ key'[l] = key[l] /\ key[l] \in Keys
        BY <1>0, <2>1, <2>2 DEF TypeOK
      <3> QED
        BY <3>1, ListenersAssumption DEF Registered
    <2> QED
      BY <1>b, <2>1, <2>2
  <1>10. CASE UNCHANGED vars
    BY <1>10, <1>a DEF vars
  <1>11. ASSUME NEW t \in Threads, NEW n \in Names, NEW l \in Listeners, GetValue(t, n, l)
         PROVE  KeysFollow' /\ KeyIsOwn'
    <2>1. \A u \in Threads : Adding(u)' => pc'[u] = pc[u] /\ arg'[u] = arg[u]
      BY <1>0, <1>11 DEF TypeOK, GetValue, Call, Adding
    <2> QED
      BY <1>11, <1>a, <2>1 DEF GetValue
  <1> QED
    BY <1>1, <1>2, <1>3, <1>4, <1>5, <1>6, <1>7, <1>8, <1>9, <1>10, <1>11
       DEF Next, ThreadStep

-----------------------------------------------------------------------------
(* All of it holds at first and is kept.                                   *)
LEMMA IInvInvariant == Spec => []IInv
  <1>1. IInv /\ [Next]_vars => IInv'
    BY TypesStep, CallsStep, RegisteredStep, AloneStep, CountStep, ReadersStep, FollowStep,
       KeysStep DEF IInv
  <1> QED
    BY IInvInit, <1>1, PTL DEF Spec

(* Types: s_fun_id, which races may set back, never counts further than    *)
(* the listeners that were added.                                          *)
THEOREM TypeCorrect == Spec => []TypeOK
  BY IInvInvariant, PTL DEF IInv

(* config.h 93-108: the listeners of a variable know its value, or, while  *)
(* setValue() is between its two locks, the one it is about to assign, if  *)
(* the last change met no other call for the variable.                     *)
THEOREM ListenersKnow == Spec => []ListenersFollow
  BY IInvInvariant, PTL DEF IInv

(* config.h 110-116: unless two calls of addListener() have met, a key is  *)
(* that of the caller's listener until it is deleted, and a listener of    *)
(* another variable has a different one.                                   *)
THEOREM KeysTheirOwn == Spec => []KeyIsOwn
  BY IInvInvariant, PTL DEF IInv
=============================================================================
