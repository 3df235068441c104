---------------------------- MODULE LogFileProofs ----------------------------
(***************************************************************************)
(* Proofs of LogFile's safety properties, for any lengths, sizes, times    *)
(* and processes.                                                          *)
(***************************************************************************)
EXTENDS LogFile, SequenceTheorems, TLAPS

-----------------------------------------------------------------------------
Items == 1 .. MaxAppends

Ascends(s) == \A i, j \in DOMAIN s : i < j => s[i] < s[j]

NotBehind(m, n) == m[1] <= n[1]

(* The files, in the order of their seconds, and then what stdio holds for *)
(* the newest of them that has anything give the items in order.           *)
Ordered(files, newest, held) ==
  /\ \A n \in Names : Ascends(files[n])
  /\ \A m, n \in Names : NameBefore(m, n) => InOrder(files[m], files[n])
  /\ Ascends(held)
  /\ \A n \in Names : InOrder(files[n], held)
  /\ \A n \in Names : files[n] # <<>> => NotBehind(n, newest)

(* A file is named by the time it was opened at, and a process that was    *)
(* killed holds nothing.                                                   *)
FileLeft ==
  /\ file_[1] <= now
  /\ pc = "killed" => buffered = <<>>

(* While no write has failed, count_ has the items stdio may hold, but for *)
(* the one being appended, and a file is left with nothing held for it.    *)
CountHolds ==
  ~ ferror =>
    /\ pc \in {"ready", "size"} => Len(buffered) <= count_
    /\ pc = "count" => Len(buffered) <= count_ + 1
    /\ pc = "roll" => buffered = <<>>

IInv == TypeOK /\ NothingLost /\ Ordered(disk, file_, buffered) /\ FileLeft /\ CountHolds

-----------------------------------------------------------------------------
(* Names are ordered by their seconds.                                     *)
LEMMA NamesOrdered ==
  ASSUME NEW m \in Names, NEW n \in Names
  PROVE  m[1] \in Nat /\ n[1] \in Nat /\ ~ (NameBefore(m, n) /\ NotBehind(n, m))
  <1>1. m[1] \in Nat /\ n[1] \in Nat
    BY LogFileBoundsAssumption DEF Names
  <1> QED
    BY <1>1 DEF NameBefore, NotBehind

(* Of an ascending sequence the items up to the n-th are one part, those   *)
(* up to the k-th another, and the rest a third.                           *)
LEMMA InThree ==
  ASSUME NEW held \in Seq(Items), Ascends(held),
         NEW n \in 0 .. Len(held), NEW k \in 0 .. Len(held), n <= k
  PROVE  LET a == SubSeq(held, 1, n)
             b == SubSeq(held, k + 1, Len(held))
             c == Part(held, n + 1, k)
         IN /\ a \in Seq(Items) /\ b \in Seq(Items)
            /\ Len(b) = Len(held) - k
            /\ Ascends(a) /\ Ascends(b) /\ InOrder(a, b)
            /\ Range(held) = Range(a) \cup c \cup Range(b)
            /\ c \cap (Range(a) \cup Range(b)) = {}
            /\ \A s \in Seq(Items) : InOrder(s, held) => InOrder(s, a) /\ InOrder(s, b)
  <1> DEFINE a == SubSeq(held, 1, n)
             b == SubSeq(held, k + 1, Len(held))
             c == Part(held, n + 1, k)
  <1>1. Len(held) \in Nat /\ DOMAIN held = 1 .. Len(held)
        /\ \A i \in 1 .. Len(held) : held[i] \in Items
    BY LenProperties, ElementOfSeq
  <1>2. PICK l \in Nat : l = Len(held)
    BY <1>1
  <1>3. a \in Seq(Items) /\ Len(a) = n /\ \A i \in 1 .. n : a[i] = held[i]
    BY <1>1, SubSeqProperties
  <1>4. /\ SubSeq(held, k + 1, l) \in Seq(Items)
        /\ Len(SubSeq(held, k + 1, l)) = l - k
        /\ \A i \in 1 .. l - k : SubSeq(held, k + 1, l)[i] = held[k + i]
    <2>1. k + 1 \in Int /\ \A i \in k + 1 .. l : held[i] \in Items
      BY <1>1, <1>2
    <2>2. /\ SubSeq(held, k + 1, l) \in Seq(Items)
          /\ Len(SubSeq(held, k + 1, l)) = IF k + 1 <= l THEN l - (k + 1) + 1 ELSE 0
          /\ \A i \in 1 .. l - (k + 1) + 1 : SubSeq(held, k + 1, l)[i] = held[k + 1 + i - 1]
      BY <2>1, SubSeqProperties
    <2> QED
      BY <1>2, <2>2
  <1>5. b \in Seq(Items) /\ Len(b) = l - k /\ \A i \in 1 .. l - k : b[i] = held[k + i]
    BY <1>2, <1>4
  <1>6. DOMAIN a = 1 .. n /\ DOMAIN b = 1 .. l - k
    BY <1>3, <1>5, LenProperties
  <1> HIDE DEF a, b
  <1>7. n \in Nat /\ k \in Nat /\ n <= k /\ k <= l /\ DOMAIN held = 1 .. l
    BY <1>1, <1>2
  <1>8. /\ \A i \in DOMAIN a : i \in 1 .. n /\ i \in DOMAIN held /\ a[i] = held[i]
        /\ \A i \in DOMAIN b : i \in Nat \ {0} /\ k + i \in DOMAIN held /\ b[i] = held[k + i]
    <2>1. ASSUME NEW i \in DOMAIN a
          PROVE  i \in 1 .. n /\ i \in DOMAIN held /\ a[i] = held[i]
      BY <1>3, <1>6, <1>7
    <2>2. ASSUME NEW i \in DOMAIN b
          PROVE  i \in Nat \ {0} /\ k + i \in DOMAIN held /\ b[i] = held[k + i]
      BY <1>5, <1>6, <1>7
    <2> QED
      BY <2>1, <2>2
  <1>9. Ascends(a) /\ Ascends(b) /\ InOrder(a, b)
    <2>1. Ascends(a)
      BY <1>8 DEF Ascends
    <2>2. Ascends(b)
      BY <1>7, <1>8 DEF Ascends
    <2>3. InOrder(a, b)
      BY <1>7, <1>8 DEF Ascends, InOrder
    <2> QED
      BY <2>1, <2>2, <2>3
  <1>10. /\ Range(a) = {held[i] : i \in 1 .. n}
         /\ Range(b) = {held[i] : i \in k + 1 .. l}
         /\ Range(held) = {held[i] : i \in 1 .. l}
    <2>1. Range(a) = {held[i] : i \in 1 .. n}
      BY <1>3, <1>6 DEF Range
    <2>2. ASSUME NEW i \in k + 1 .. l
          PROVE  held[i] \in Range(b)
      <3>1. i - k \in DOMAIN b /\ b[i - k] = held[i]
        BY <1>5, <1>6, <1>7
      <3> QED
        BY <3>1 DEF Range
    <2>3. ASSUME NEW i \in DOMAIN b
          PROVE  b[i] \in {held[j] : j \in k + 1 .. l}
      BY <1>7, <1>8
    <2>4. Range(b) = {held[i] : i \in k + 1 .. l}
      BY <2>2, <2>3 DEF Range
    <2>5. Range(held) = {held[i] : i \in 1 .. l}
      BY <1>7 DEF Range
    <2> QED
      BY <2>1, <2>4, <2>5
  <1>11. Range(held) = Range(a) \cup c \cup Range(b)
    <2>1. 1 .. l = (1 .. n) \cup (n + 1 .. k) \cup (k + 1 .. l)
      BY <1>7
    <2> QED
      BY <1>10, <2>1 DEF Part
  <1>12. c \cap (Range(a) \cup Range(b)) = {}
    <2>1. ASSUME NEW i \in n + 1 .. k, NEW j \in (1 .. n) \cup (k + 1 .. l)
          PROVE  held[i] # held[j]
      <3>1. i \in DOMAIN held /\ j \in DOMAIN held /\ (i < j \/ j < i)
        BY <1>7
      <3>2. held[i] \in Nat /\ held[j] \in Nat
        BY <1>1, <3>1 DEF Items
      <3> QED
        BY <3>1, <3>2 DEF Ascends
    <2> QED
      BY <1>10, <2>1 DEF Part
  <1>13. \A s \in Seq(Items) : InOrder(s, held) => InOrder(s, a) /\ InOrder(s, b)
    BY <1>8 DEF InOrder
  <1> QED
    BY <1>2, <1>3, <1>5, <1>9, <1>11, <1>12, <1>13 DEF a, b

(* Two ascending sequences, one behind the other.                          *)
LEMMA PutTogether ==
  ASSUME NEW s \in Seq(Items), NEW t \in Seq(Items),
         Ascends(s), Ascends(t), InOrder(s, t)
  PROVE  /\ s \o t \in Seq(Items)
         /\ Ascends(s \o t)
         /\ Range(s \o t) = Range(s) \cup Range(t)
         /\ \A u \in Seq(Items) : InOrder(u, s) /\ InOrder(u, t) => InOrder(u, s \o t)
         /\ \A u \in Seq(Items) : InOrder(s, u) /\ InOrder(t, u) => InOrder(s \o t, u)
  <1>1. /\ Len(s) \in Nat /\ DOMAIN s = 1 .. Len(s)
        /\ Len(t) \in Nat /\ DOMAIN t = 1 .. Len(t)
    BY LenProperties
  <1>2. /\ s \o t \in Seq(Items)
        /\ Len(s \o t) = Len(s) + Len(t)
        /\ \A i \in 1 .. Len(s) + Len(t) :
             (s \o t)[i] = IF i <= Len(s) THEN s[i] ELSE t[i - Len(s)]
    BY ConcatProperties
  <1>3. DOMAIN (s \o t) = 1 .. Len(s) + Len(t)
    BY <1>2, LenProperties
  <1>4. Ascends(s \o t)
    BY <1>1, <1>2, <1>3 DEF Ascends, InOrder
  <1>5. ASSUME NEW i \in DOMAIN (s \o t)
        PROVE  \/ i \in DOMAIN s /\ (s \o t)[i] = s[i]
               \/ i - Len(s) \in DOMAIN t /\ (s \o t)[i] = t[i - Len(s)]
    BY <1>1, <1>2, <1>3
  <1>6. \A u \in Seq(Items) : InOrder(u, s) /\ InOrder(u, t) => InOrder(u, s \o t)
    BY <1>5 DEF InOrder
  <1>7. \A u \in Seq(Items) : InOrder(s, u) /\ InOrder(t, u) => InOrder(s \o t, u)
    BY <1>5 DEF InOrder
  <1> QED
    BY <1>2, <1>4, <1>6, <1>7, RangeConcatenation

-----------------------------------------------------------------------------
(* An item in order is in no two places.                                   *)
LEMMA HeldApart ==
  ASSUME NEW files \in [Names -> Seq(Items)], NEW newest, NEW held \in Seq(Items),
         Ordered(files, newest, held)
  PROVE  Range(held) \cap UNION {Range(files[n]) : n \in Names} = {}
  <1> SUFFICES ASSUME NEW n \in Names,
                      NEW i \in DOMAIN files[n], NEW j \in DOMAIN held,
                      files[n][i] = held[j]
               PROVE  FALSE
    BY DEF Range
  <1>1. files[n][i] < held[j]
    BY DEF Ordered, InOrder
  <1>2. held[j] \in Items
    BY LenProperties, ElementOfSeq
  <1> QED
    BY <1>1, <1>2 DEF Items

(* The first n items of what stdio then holds are written to the newest    *)
(* file, and what is behind the k-th is still held.                        *)
LEMMA WrittenKeeps ==
  ASSUME TypeOK,
         NEW held \in Seq(Items), NEW n \in 0 .. Len(held), NEW k \in 0 .. Len(held), n <= k,
         Ordered(disk, file_, held)
  PROVE  LET files == Written(held, n)
             rest == SubSeq(held, k + 1, Len(held))
             new == Part(held, n + 1, k)
             there == UNION {Range(files[m]) : m \in Names}
         IN /\ files \in [Names -> Seq(Items)] /\ rest \in Seq(Items)
            /\ Len(rest) = Len(held) - k
            /\ Ordered(files, file_, rest)
            /\ there \cup Range(rest) \cup new = OnDisk \cup Range(held)
            /\ OnDisk \subseteq there
            /\ there \cap Range(rest) = {}
            /\ new \cap (there \cup Range(rest)) = {}
            /\ new \subseteq Range(held)
  <1> DEFINE a == SubSeq(held, 1, n)
             b == SubSeq(held, k + 1, Len(held))
             c == Part(held, n + 1, k)
             files == Written(held, n)
             there == UNION {Range(files[m]) : m \in Names}
  <1>1. /\ a \in Seq(Items) /\ b \in Seq(Items)
        /\ Len(b) = Len(held) - k
        /\ Ascends(a) /\ Ascends(b) /\ InOrder(a, b)
        /\ Range(held) = Range(a) \cup c \cup Range(b)
        /\ c \cap (Range(a) \cup Range(b)) = {}
        /\ \A s \in Seq(Items) : InOrder(s, held) => InOrder(s, a) /\ InOrder(s, b)
    BY InThree DEF Ordered
  <1>2. file_ \in Names /\ disk \in [Names -> Seq(Items)]
    BY DEF TypeOK, Items
  <1>3. PICK old \in Seq(Items) : old = disk[file_]
    BY <1>2
  <1>4. PICK more \in Seq(Items) : more = old \o a
    BY <1>1, <1>3, ConcatProperties
  <1>5. Ascends(old) /\ InOrder(old, a) /\ InOrder(old, b)
    BY <1>1, <1>2, <1>3 DEF Ordered
  <1>6. /\ Ascends(more)
        /\ Range(more) = Range(old) \cup Range(a)
        /\ \A u \in Seq(Items) : InOrder(u, old) /\ InOrder(u, a) => InOrder(u, more)
        /\ \A u \in Seq(Items) : InOrder(old, u) /\ InOrder(a, u) => InOrder(more, u)
    BY <1>1, <1>4, <1>5, PutTogether
  <1>7. files = [disk EXCEPT ![file_] = more]
    BY <1>3, <1>4 DEF Written
  <1> HIDE DEF files, a, b, c
  <1>8. /\ files \in [Names -> Seq(Items)]
        /\ files[file_] = more
        /\ \A m \in Names \ {file_} : files[m] = disk[m]
    BY <1>2, <1>7
  <1>9. Ordered(files, file_, b)
    <2>1. \A m \in Names : Ascends(files[m])
      BY <1>6, <1>8 DEF Ordered
    <2>2. ASSUME NEW l \in Names, NEW m \in Names, NameBefore(l, m)
          PROVE  InOrder(files[l], files[m])
      <3>1. InOrder(disk[l], disk[m]) /\ disk[l] \in Seq(Items) /\ disk[m] \in Seq(Items)
        BY <1>2, <2>2 DEF Ordered
      <3>2. l # m
        BY <2>2, NamesOrdered DEF NotBehind, NameBefore
      <3>3. CASE l = file_
        <4>1. disk[m] = <<>>
          BY <1>2, <2>2, <3>3, NamesOrdered DEF Ordered
        <4>2. files[m] = <<>> /\ DOMAIN files[m] = {}
          BY <1>8, <3>2, <3>3, <4>1
        <4> QED
          BY <4>2 DEF InOrder
      <3>4. CASE m = file_
        <4>1. InOrder(disk[l], a)
          BY <1>1, <1>2, <3>1 DEF Ordered
        <4> QED
          BY <1>3, <1>6, <1>8, <3>1, <3>2, <3>4, <4>1
      <3>5. CASE l # file_ /\ m # file_
        BY <1>8, <3>1, <3>5
      <3> QED
        BY <3>3, <3>4, <3>5
    <2>3. \A m \in Names : InOrder(files[m], b)
      BY <1>1, <1>2, <1>5, <1>6, <1>8 DEF Ordered
    <2>4. \A m \in Names : files[m] # <<>> => NotBehind(m, file_)
      <3>1. NotBehind(file_, file_)
        BY <1>2, NamesOrdered DEF NotBehind
      <3> QED
        BY <1>8, <3>1 DEF Ordered
    <2> QED
      BY <1>1, <2>1, <2>2, <2>3, <2>4 DEF Ordered
  <1>10. there = OnDisk \cup Range(a)
    <2>1. \A m \in Names \ {file_} : Range(files[m]) = Range(disk[m])
      BY <1>8
    <2>2. Range(files[file_]) = Range(disk[file_]) \cup Range(a)
      BY <1>3, <1>6, <1>8
    <2> QED
      BY <1>2, <2>1, <2>2 DEF OnDisk
  <1>11. Range(held) \cap OnDisk = {}
    BY <1>2, HeldApart DEF OnDisk
  <1>12. there \cap Range(b) = {}
    BY <1>1, <1>8, <1>9, HeldApart
  <1> HIDE DEF there
  <1>13. /\ there \cup Range(b) \cup c = OnDisk \cup Range(held)
         /\ c \cap (there \cup Range(b)) = {} /\ c \subseteq Range(held)
    BY <1>1, <1>10, <1>11
  <1> QED
    BY <1>1, <1>8, <1>9, <1>10, <1>12, <1>13 DEF files, b, c, there

(* All that was appended and is in a file or held is known by number.      *)
LEMMA ItemsKnown ==
  ASSUME TypeOK, NothingLost
  PROVE  /\ OnDisk \subseteq 1 .. appends /\ Held \subseteq 1 .. appends
         /\ \A n \in Names : Range(disk[n]) \subseteq 1 .. appends
         /\ Len(buffered) \in Nat /\ DOMAIN buffered = 1 .. Len(buffered)
  BY LenProperties DEF TypeOK, NothingLost, OnDisk

(* stdio keeps, writes or loses what it then holds, and nothing else.      *)
LEMMA StdioKeeps ==
  ASSUME TypeOK,
         NEW held \in Seq(Items), NEW n \in 0 .. Len(held), NEW k \in 0 .. Len(held), n <= k,
         Ordered(disk, file_, held), Stdio(held, n, k), UNCHANGED file_
  PROVE  /\ disk' \in [Names -> Seq(Items)] /\ buffered' \in Seq(Items)
         /\ ferror' \in BOOLEAN /\ (ferror => ferror') /\ (n < k => ferror')
         /\ Len(buffered') = Len(held) - k
         /\ Ordered(disk', file_', buffered')
         /\ OnDisk \subseteq OnDisk'
         /\ Held' \cap OnDisk' = {}
         /\ \E new \in SUBSET Range(held) :
              /\ lost' = lost \cup new
              /\ OnDisk' \cup Held' \cup new = OnDisk \cup Range(held)
              /\ new \cap (OnDisk' \cup Held') = {}
  <1>1. /\ disk' = Written(held, n) /\ buffered' = SubSeq(held, k + 1, Len(held))
        /\ lost' = lost \cup Part(held, n + 1, k)
        /\ ferror' \in {ferror, TRUE} /\ (n < k => ferror')
    BY DEF Stdio
  <1>2. /\ disk' \in [Names -> Seq(Items)] /\ buffered' \in Seq(Items)
        /\ Len(buffered') = Len(held) - k
        /\ Ordered(disk', file_, buffered')
        /\ OnDisk' \cup Held' \cup Part(held, n + 1, k) = OnDisk \cup Range(held)
        /\ OnDisk \subseteq OnDisk'
        /\ OnDisk' \cap Held' = {}
        /\ Part(held, n + 1, k) \cap (OnDisk' \cup Held') = {}
        /\ Part(held, n + 1, k) \subseteq Range(held)
    <2> DEFINE files == Written(held, n)
               rest == SubSeq(held, k + 1, Len(held))
               there == UNION {Range(files[m]) : m \in Names}
               new == Part(held, n + 1, k)
    <2>1. /\ files \in [Names -> Seq(Items)] /\ rest \in Seq(Items)
          /\ Len(rest) = Len(held) - k
          /\ Ordered(files, file_, rest)
          /\ there \cup Range(rest) \cup new = OnDisk \cup Range(held)
          /\ OnDisk \subseteq there
          /\ there \cap Range(rest) = {}
          /\ new \cap (there \cup Range(rest)) = {}
          /\ new \subseteq Range(held)
      BY WrittenKeeps
    <2>2. OnDisk' = there /\ Held' = Range(rest)
      BY <1>1 DEF OnDisk, Held
    <2> QED
      BY <1>1, <2>1, <2>2
  <1>3. ferror' \in BOOLEAN /\ (ferror => ferror')
    <2>1. ferror' = ferror \/ ferror' = TRUE
      BY <1>1
    <2>2. ferror \in BOOLEAN
      BY DEF TypeOK
    <2>3. CASE ferror' = ferror
      BY <2>2, <2>3, Zenon
    <2>4. CASE ferror' = TRUE
      BY <2>4, Zenon
    <2> QED
      BY <2>1, <2>3, <2>4
  <1> QED
    BY <1>1, <1>2, <1>3

(* What a call of stdio makes of the items, when none is appended.         *)
LEMMA StdioAccounted ==
  ASSUME IInv, NEW n \in 0 .. Len(buffered), NEW k \in 0 .. Len(buffered), n <= k,
         Stdio(buffered, n, k), UNCHANGED file_
  PROVE  /\ disk' \in [Names -> Seq(Items)] /\ buffered' \in Seq(Items)
         /\ ferror' \in BOOLEAN /\ (ferror => ferror') /\ (n < k => ferror')
         /\ Len(buffered') = Len(buffered) - k
         /\ Ordered(disk', file_', buffered')
         /\ OnDisk \subseteq OnDisk'
         /\ Held' \cap OnDisk' = {}
         /\ \E new \in SUBSET Held :
              /\ lost' = lost \cup new
              /\ OnDisk' \cup Held' \cup new = OnDisk \cup Held
              /\ new \cap (OnDisk' \cup Held') = {}
  <1>1. buffered \in Seq(Items) /\ TypeOK /\ Ordered(disk, file_, buffered)
    BY DEF IInv, TypeOK, Items
  <1>2. Range(buffered) = Held
    BY DEF Held
  <1> QED
    BY <1>1, <1>2, StdioKeeps

(* fflush() keeps the order and accounts for every item; if no write has   *)
(* failed, nothing is held any more.                                       *)
LEMMA FflushKeeps ==
  ASSUME IInv, fflush, UNCHANGED <<file_, appends, cut, killed>>,
         flushed' \subseteq OnDisk'
  PROVE  /\ disk' \in [Names -> Seq(Items)] /\ buffered' \in Seq(Items)
         /\ ferror' \in BOOLEAN /\ (ferror => ferror')
         /\ ~ ferror' => buffered' = <<>>
         /\ lost' \subseteq 1 .. appends
         /\ Ordered(disk', file_', buffered')
         /\ NothingLost'
  <1>1. PICK n \in 0 .. Len(buffered), k \in 0 .. Len(buffered) :
          n <= k /\ Stdio(buffered, n, k) /\ (n < Len(buffered) => ferror')
    BY DEF fflush
  <1>2. /\ disk' \in [Names -> Seq(Items)] /\ buffered' \in Seq(Items)
        /\ ferror' \in BOOLEAN /\ (ferror => ferror')
        /\ Len(buffered') = Len(buffered) - k
        /\ Ordered(disk', file_', buffered')
        /\ Held' \cap OnDisk' = {}
        /\ \E new \in SUBSET Held :
             /\ lost' = lost \cup new
             /\ OnDisk' \cup Held' \cup new = OnDisk \cup Held
             /\ new \cap (OnDisk' \cup Held') = {}
    BY <1>1, StdioAccounted
  <1>3. PICK new \in SUBSET Held :
          /\ lost' = lost \cup new
          /\ OnDisk' \cup Held' \cup new = OnDisk \cup Held
          /\ new \cap (OnDisk' \cup Held') = {}
    BY <1>2
  <1>4. ~ ferror' => buffered' = <<>>
    <2>1. Len(buffered) \in Nat
      BY ItemsKnown DEF IInv
    <2>2. ~ ferror' => Len(buffered') = 0
      BY <1>1, <1>2, <2>1
    <2> QED
      BY <1>2, <2>2, EmptySeq
  <1>5. lost' \subseteq 1 .. appends
    BY <1>3, ItemsKnown DEF IInv, TypeOK
  <1>6. NothingLost'
    BY <1>2, <1>3 DEF IInv, NothingLost, Gone
  <1> QED
    BY <1>2, <1>4, <1>5, <1>6

(* fflush() takes nothing from a file.                                     *)
LEMMA FlushWrites ==
  ASSUME IInv, fflush, UNCHANGED file_
  PROVE  OnDisk \subseteq OnDisk'
  <1>1. PICK n \in 0 .. Len(buffered), k \in 0 .. Len(buffered) :
          n <= k /\ Stdio(buffered, n, k)
    BY DEF fflush
  <1> QED
    BY <1>1, StdioAccounted

-----------------------------------------------------------------------------
(* At first there is one file to be opened, and nothing in it.             *)
LEMMA IInvInit == Init => IInv
  <1> SUFFICES ASSUME Init
               PROVE  IInv
    OBVIOUS
  <1>1. <<>> \in Seq(Items) /\ Len(<<>>) = 0 /\ DOMAIN <<>> = {} /\ Range(<<>>) = {}
    BY EmptySeq DEF Range
  <1>2. <<0, pid>> \in Names
    BY LogFileBoundsAssumption DEF Init, Names
  <1>3. disk \in [Names -> Seq(Items)] /\ \A n \in Names : disk[n] = <<>>
    BY <1>1 DEF Init
  <1>4. TypeOK
    <2>1. ferror \in BOOLEAN
      BY DEF Init
    <2>2. /\ now \in 0 .. EndTime /\ count_ \in 0 .. FlushEveryN - 1
          /\ appends \in 0 .. MaxAppends /\ curSize_ \in Nat
      BY LogFileBoundsAssumption, SizesAssumption DEF Init
    <2> QED
      BY <1>1, <1>2, <1>3, <2>1, <2>2 DEF Init, TypeOK, Items
  <1>5. NothingLost
    BY <1>1, <1>3 DEF Init, NothingLost, OnDisk, Held, Gone
  <1>6. Ordered(disk, file_, buffered)
    BY <1>1, <1>3 DEF Init, Ordered, Ascends, InOrder
  <1>7. FileLeft /\ CountHolds
    BY <1>1 DEF Init, FileLeft, CountHolds
  <1> QED
    BY <1>4, <1>5, <1>6, <1>7 DEF IInv

(* Steps that leave the items where they are.                              *)
LEMMA ItemsStay ==
  ASSUME IInv, UNCHANGED <<stdio, file_, appends, flushed, cut, killed>>
  PROVE  NothingLost' /\ Ordered(disk', file_', buffered')
  BY DEF IInv, NothingLost, OnDisk, Held, Gone, stdio

(* The clock goes on.                                                      *)
LEMMA TickStep ==
  ASSUME IInv, Tick
  PROVE  IInv'
  <1>1. NothingLost' /\ Ordered(disk', file_', buffered')
    BY ItemsStay DEF Tick, stdio
  <1>2. TypeOK' /\ FileLeft' /\ CountHolds'
    BY LogFileBoundsAssumption DEF IInv, Tick, TypeOK, FileLeft, CountHolds, Names
  <1> QED
    BY <1>1, <1>2 DEF IInv

(* The item is the greatest so far, and stdio takes it behind the others.  *)
LEMMA WriteStep ==
  ASSUME IInv, Write
  PROVE  IInv'
  <1>1. PICK item \in Items : item = appends + 1 /\ item = appends'
    BY LogFileBoundsAssumption DEF IInv, TypeOK, Write, Items
  <1>2. PICK held \in Seq(Items) : held = Append(buffered, item)
    BY AppendProperties DEF IInv, TypeOK, Items
  <1>3. /\ buffered \in Seq(Items) /\ disk \in [Names -> Seq(Items)]
        /\ Len(buffered) \in Nat /\ DOMAIN buffered = 1 .. Len(buffered)
    BY ItemsKnown DEF IInv, TypeOK, Items
  <1>4. /\ <<item>> \in Seq(Items) /\ DOMAIN <<item>> = {1}
        /\ <<item>>[1] = item /\ Range(<<item>>) = {item}
    BY DEF Range
  <1>5. held = buffered \o <<item>>
    BY <1>2, <1>3, AppendIsConcat
  <1>6. /\ \A i \in DOMAIN buffered : buffered[i] \in 1 .. appends
        /\ \A n \in Names : \A i \in DOMAIN disk[n] : disk[n][i] \in 1 .. appends
    BY ItemsKnown DEF IInv, Held, Range
  <1>7. /\ Ascends(<<item>>) /\ InOrder(buffered, <<item>>)
        /\ \A n \in Names : InOrder(disk[n], <<item>>)
    BY <1>1, <1>4, <1>6 DEF IInv, TypeOK, Ascends, InOrder
  <1>8. Ordered(disk, file_, held) /\ Range(held) = Held \cup {item}
    BY <1>3, <1>4, <1>5, <1>7, PutTogether DEF IInv, Ordered, Held
  <1>9. Len(held) = Len(buffered) + 1
    BY <1>2, <1>3, AppendProperties
  <1>10. PICK n \in 0 .. Len(held), k \in 0 .. Len(held) : n <= k /\ Stdio(held, n, k)
    BY <1>1, <1>2 DEF Write
  <1>11. /\ disk' \in [Names -> Seq(Items)] /\ buffered' \in Seq(Items)
         /\ ferror' \in BOOLEAN /\ (ferror => ferror')
         /\ Len(buffered') = Len(held) - k
         /\ Ordered(disk', file_', buffered')
         /\ OnDisk \subseteq OnDisk'
         /\ Held' \cap OnDisk' = {}
         /\ \E new \in SUBSET Range(held) :
              /\ lost' = lost \cup new
              /\ OnDisk' \cup Held' \cup new = OnDisk \cup Range(held)
              /\ new \cap (OnDisk' \cup Held') = {}
    BY <1>8, <1>10, StdioKeeps DEF IInv, Write
  <1>12. PICK new \in SUBSET (Held \cup {item}) :
           /\ lost' = lost \cup new
           /\ OnDisk' \cup Held' \cup new = OnDisk \cup Held \cup {item}
           /\ new \cap (OnDisk' \cup Held') = {}
    BY <1>8, <1>11
  <1>13. item \notin Gone /\ 1 .. appends' = (1 .. appends) \cup {item}
    BY <1>1 DEF IInv, TypeOK, Gone
  <1>14. NothingLost'
    <2>1. Gone' = Gone \cup new
      BY <1>12 DEF Gone, Write
    <2> QED
      BY <1>11, <1>12, <1>13, <2>1 DEF IInv, NothingLost, Write
  <1>15. TypeOK'
    <2>1. appends \in Nat /\ MaxAppends \in Nat /\ appends' = appends + 1 /\ appends < MaxAppends
      BY LogFileBoundsAssumption DEF IInv, TypeOK, Write
    <2>2. appends' \in 0 .. MaxAppends /\ 1 .. appends \subseteq 1 .. appends'
      BY <2>1
    <2>3. /\ flushed' \subseteq 1 .. appends' /\ cut' \subseteq 1 .. appends'
          /\ killed' \subseteq 1 .. appends'
      BY <2>2 DEF IInv, TypeOK, Write
    <2>4. lost' \subseteq 1 .. appends'
      BY <1>12, <1>13, ItemsKnown DEF IInv, TypeOK
    <2> QED
      BY <1>11, <2>2, <2>3, <2>4 DEF IInv, TypeOK, Write, Goto, Items
  <1>16. FileLeft' /\ CountHolds'
    BY <1>3, <1>9, <1>11 DEF IInv, TypeOK, FileLeft, CountHolds, Write, Goto
  <1> QED
    BY <1>11, <1>14, <1>15, <1>16 DEF IInv

(* What fwrite does not take to the end is gone.                           *)
LEMMA WriteBreaksStep ==
  ASSUME IInv, WriteBreaks
  PROVE  IInv'
  <1>1. PICK n \in 0 .. Len(buffered), k \in 0 .. Len(buffered) :
          n <= k /\ Stdio(buffered, n, k)
    BY DEF WriteBreaks
  <1>2. /\ disk' \in [Names -> Seq(Items)] /\ buffered' \in Seq(Items)
        /\ ferror' \in BOOLEAN
        /\ Ordered(disk', file_', buffered')
        /\ OnDisk \subseteq OnDisk'
        /\ Held' \cap OnDisk' = {}
        /\ \E new \in SUBSET Held :
             /\ lost' = lost \cup new
             /\ OnDisk' \cup Held' \cup new = OnDisk \cup Held
             /\ new \cap (OnDisk' \cup Held') = {}
    BY <1>1, StdioAccounted DEF WriteBreaks
  <1>3. PICK new \in SUBSET Held :
          /\ lost' = lost \cup new
          /\ OnDisk' \cup Held' \cup new = OnDisk \cup Held
          /\ new \cap (OnDisk' \cup Held') = {}
    BY <1>2
  <1>4. /\ appends + 1 \notin OnDisk \cup Held
        /\ 1 .. appends' = (1 .. appends) \cup {appends + 1}
    BY ItemsKnown DEF IInv, TypeOK, WriteBreaks
  <1>5. NothingLost'
    <2>1. Gone' = Gone \cup new \cup {appends + 1}
      BY <1>3 DEF WriteBreaks, Gone
    <2>2. appends + 1 \notin OnDisk' \cup Held'
      BY <1>3, <1>4
    <2> QED
      BY <1>2, <1>3, <1>4, <2>1, <2>2 DEF IInv, NothingLost, WriteBreaks
  <1>6. TypeOK'
    <2>1. /\ appends' \in 0 .. MaxAppends /\ cut' \subseteq 1 .. appends'
          /\ flushed' \subseteq 1 .. appends' /\ killed' \subseteq 1 .. appends'
      BY <1>4, LogFileBoundsAssumption DEF IInv, TypeOK, WriteBreaks
    <2>2. lost' \subseteq 1 .. appends'
      BY <1>3, <1>4, ItemsKnown DEF IInv, TypeOK
    <2> QED
      BY <1>2, <2>1, <2>2 DEF IInv, TypeOK, WriteBreaks, Goto, Items
  <1>7. FileLeft' /\ CountHolds'
    BY DEF IInv, FileLeft, CountHolds, WriteBreaks, Goto
  <1> QED
    BY <1>2, <1>5, <1>6, <1>7 DEF IInv

(* Every flushEveryN_-th call flushes, and the others are counted.         *)
LEMMA CountStep ==
  ASSUME IInv, Count
  PROVE  IInv'
  <1>1. CASE CountDue
    <2>1. fflush /\ UNCHANGED <<file_, appends, flushed, cut, killed>>
      BY <1>1 DEF Count
    <2>2. flushed' \subseteq OnDisk'
      BY <2>1, FlushWrites DEF IInv, NothingLost
    <2>3. /\ disk' \in [Names -> Seq(Items)] /\ buffered' \in Seq(Items)
          /\ ferror' \in BOOLEAN /\ (~ ferror' => buffered' = <<>>)
          /\ lost' \subseteq 1 .. appends
          /\ Ordered(disk', file_', buffered') /\ NothingLost'
      BY <2>1, <2>2, FflushKeeps
    <2>4. TypeOK'
      <3>1. count_' \in 0 .. FlushEveryN - 1
        BY <1>1, SizesAssumption DEF Count
      <3>2. /\ UNCHANGED <<now, pid, file_, curSize_, appends, len, flushed, cut, killed>>
            /\ pc' = "size"
        BY DEF Count, Goto
      <3> QED
        BY <2>3, <3>1, <3>2 DEF IInv, TypeOK, Items
    <2>5. FileLeft' /\ CountHolds'
      BY <1>1, <2>3, EmptySeq DEF IInv, FileLeft, CountHolds, Count, Goto
    <2> QED
      BY <2>3, <2>4, <2>5 DEF IInv
  <1>2. CASE ~ CountDue
    <2>1. NothingLost' /\ Ordered(disk', file_', buffered')
      BY <1>2, ItemsStay DEF Count
    <2>2. TypeOK'
      <3>1. count_' \in 0 .. FlushEveryN - 1
        BY <1>2, SizesAssumption DEF IInv, TypeOK, Count, CountDue
      <3>2. /\ UNCHANGED <<now, pid, file_, curSize_, appends, len, flushed, cut, killed>>
            /\ UNCHANGED <<buffered, ferror, disk, lost>> /\ pc' = "size"
        BY <1>2 DEF Count, Goto, stdio
      <3> QED
        BY <3>1, <3>2 DEF IInv, TypeOK
    <2>3. FileLeft' /\ CountHolds'
      BY <1>2 DEF IInv, FileLeft, CountHolds, Count, Goto, stdio
    <2> QED
      BY <2>1, <2>2, <2>3 DEF IInv
  <1> QED
    BY <1>1, <1>2

(* A file that is full is flushed before it is left.                       *)
LEMMA SizeStep ==
  ASSUME IInv, Size
  PROVE  IInv'
  <1>1. CASE fflush /\ pc' = "roll"
    <2>1. UNCHANGED <<file_, appends, flushed, cut, killed>>
      BY DEF Size
    <2>2. flushed' \subseteq OnDisk'
      BY <1>1, <2>1, FlushWrites DEF IInv, NothingLost
    <2>3. /\ disk' \in [Names -> Seq(Items)] /\ buffered' \in Seq(Items)
          /\ ferror' \in BOOLEAN /\ (~ ferror' => buffered' = <<>>)
          /\ lost' \subseteq 1 .. appends
          /\ Ordered(disk', file_', buffered') /\ NothingLost'
      BY <1>1, <2>1, <2>2, FflushKeeps
    <2>4. TypeOK'
      <3>1. curSize_' \in Nat
        BY LensAssumption DEF IInv, TypeOK, Size
      <3>2. /\ UNCHANGED <<now, pid, file_, count_, appends, flushed, cut, killed>>
            /\ len' = 0 /\ pc' = "roll"
        BY <1>1 DEF Size
      <3> QED
        BY <2>3, <3>1, <3>2 DEF IInv, TypeOK, Items
    <2>5. FileLeft' /\ CountHolds'
      BY <1>1, <2>3 DEF IInv, FileLeft, CountHolds, Size, Goto
    <2> QED
      BY <2>3, <2>4, <2>5 DEF IInv
  <1>2. CASE UNCHANGED stdio /\ pc' = "ready"
    <2>1. NothingLost' /\ Ordered(disk', file_', buffered')
      BY <1>2, ItemsStay DEF Size
    <2>2. TypeOK'
      BY <1>2, LensAssumption DEF IInv, TypeOK, Size, Goto, stdio
    <2>3. FileLeft' /\ CountHolds'
      BY <1>2 DEF IInv, FileLeft, CountHolds, Size, Goto, stdio
    <2> QED
      BY <2>1, <2>2, <2>3 DEF IInv
  <1> QED
    BY <1>1, <1>2 DEF Size, Goto

(* The file that is opened is the last in order, or one of the same        *)
(* second, and what was still held is written or gone.                     *)
LEMMA rollFileStep ==
  ASSUME IInv, rollFile
  PROVE  IInv'
  <1>1. PICK n \in 0 .. Len(buffered) :
          /\ disk' = Written(buffered, n)
          /\ lost' = lost \cup Part(buffered, n + 1, Len(buffered))
    BY DEF rollFile, fopen
  <1>2. /\ UNCHANGED <<now, pid, appends, flushed, cut, killed>>
        /\ file_' = <<now, pid>> /\ buffered' = <<>> /\ ferror' = FALSE
    BY DEF rollFile, fopen, getFilename
  <1>3. /\ buffered \in Seq(Items) /\ Len(buffered) \in Nat
        /\ Len(buffered) \in 0 .. Len(buffered) /\ n <= Len(buffered)
    BY <1>1, ItemsKnown DEF IInv, TypeOK, Items
  <1> DEFINE rest == SubSeq(buffered, Len(buffered) + 1, Len(buffered))
             new == Part(buffered, n + 1, Len(buffered))
  <1>4. /\ disk' \in [Names -> Seq(Items)] /\ rest \in Seq(Items)
        /\ Len(rest) = Len(buffered) - Len(buffered)
        /\ Ordered(disk', file_, rest)
        /\ OnDisk' \cup Range(rest) \cup new = OnDisk \cup Held
        /\ OnDisk \subseteq OnDisk'
        /\ new \cap (OnDisk' \cup Range(rest)) = {}
        /\ new \subseteq Held
    <2> DEFINE files == Written(buffered, n)
               there == UNION {Range(files[m]) : m \in Names}
    <2>1. /\ files \in [Names -> Seq(Items)] /\ rest \in Seq(Items)
          /\ Len(rest) = Len(buffered) - Len(buffered)
          /\ Ordered(files, file_, rest)
          /\ there \cup Range(rest) \cup new = OnDisk \cup Range(buffered)
          /\ OnDisk \subseteq there
          /\ new \cap (there \cup Range(rest)) = {}
          /\ new \subseteq Range(buffered)
      BY <1>3, WrittenKeeps DEF IInv
    <2>2. OnDisk' = there /\ Held = Range(buffered)
      BY <1>1 DEF OnDisk, Held
    <2> QED
      BY <1>1, <2>1, <2>2
  <1>5. rest = <<>> /\ Range(<<>>) = {}
    BY <1>3, <1>4, EmptySeq DEF Range
  <1> HIDE DEF rest, new
  <1>6. <<now, pid>> \in Names
    BY DEF IInv, TypeOK, Names
  <1>7. ASSUME NEW m \in Names, NotBehind(m, file_)
        PROVE  NotBehind(m, <<now, pid>>)
    <2>1. m[1] \in Nat /\ file_[1] \in Nat /\ now \in Nat
      BY <1>6, NamesOrdered DEF IInv, TypeOK
    <2> QED
      BY <1>7, <2>1 DEF NotBehind, IInv, FileLeft
  <1>8. Ordered(disk', file_', buffered')
    BY <1>2, <1>4, <1>5, <1>7 DEF Ordered
  <1>9. NothingLost'
    <2>1. Held' = {} /\ Gone' = Gone \cup new
      BY <1>1, <1>2, <1>5 DEF Held, Gone, new
    <2> QED
      BY <1>2, <1>4, <1>5, <2>1 DEF IInv, NothingLost
  <1>10. TypeOK'
    <2>1. lost' \subseteq 1 .. appends
      BY <1>1, <1>4, ItemsKnown DEF IInv, TypeOK, new
    <2>2. buffered' \in Seq(Items)
      BY <1>2, <1>4, <1>5
    <2>3. ferror' \in BOOLEAN /\ count_' \in 0 .. FlushEveryN - 1 /\ curSize_' \in Nat
      <3>1. count_' = 0 /\ curSize_' = 0
        BY DEF rollFile
      <3>2. ferror' \in BOOLEAN
        BY <1>2
      <3> QED
        BY <3>1, <3>2, SizesAssumption
    <2> QED
      BY <1>2, <1>4, <1>6, <2>1, <2>2, <2>3 DEF IInv, TypeOK, rollFile, Goto, Items
  <1>11. FileLeft' /\ CountHolds'
    BY <1>2, <1>10, EmptySeq DEF IInv, TypeOK, FileLeft, CountHolds, rollFile, Goto
  <1> QED
    BY <1>8, <1>9, <1>10, <1>11 DEF IInv

(* When a flush() has succeeded, all that is not gone is in a file.        *)
LEMMA FlushStep ==
  ASSUME IInv, Flush
  PROVE  IInv'
  <1>1. fflush /\ UNCHANGED <<file_, appends, cut, killed>>
    BY DEF Flush
  <1>2. flushed' \subseteq 1 .. appends
    BY DEF Flush, IInv, TypeOK
  <1>3. flushed' \subseteq OnDisk'
    <2>1. CASE buffered' = <<>> /\ lost' = lost
      <3>1. PICK n \in 0 .. Len(buffered), k \in 0 .. Len(buffered) :
              n <= k /\ Stdio(buffered, n, k)
        BY <1>1 DEF fflush
      <3>2. \E new \in SUBSET Held :
              /\ lost' = lost \cup new
              /\ OnDisk' \cup Held' \cup new = OnDisk \cup Held
        BY <1>1, <3>1, StdioAccounted
      <3>3. Held' = {}
        BY <2>1 DEF Held, Range
      <3>4. flushed' = (1 .. appends) \ Gone
        BY <2>1 DEF Flush, Gone
      <3>5. (1 .. appends) \ Gone \subseteq OnDisk \cup Held
        BY DEF IInv, NothingLost
      <3>6. lost \subseteq Gone
        BY DEF Gone
      <3> QED
        BY <2>1, <3>2, <3>3, <3>4, <3>5, <3>6
    <2>2. CASE ~ (buffered' = <<>> /\ lost' = lost)
      <3>1. flushed' = flushed
        BY <2>2 DEF Flush
      <3> QED
        BY <1>1, <3>1, FlushWrites DEF IInv, NothingLost
    <2> QED
      BY <2>1, <2>2
  <1>4. /\ disk' \in [Names -> Seq(Items)] /\ buffered' \in Seq(Items)
        /\ ferror' \in BOOLEAN /\ (~ ferror' => buffered' = <<>>)
        /\ lost' \subseteq 1 .. appends
        /\ Ordered(disk', file_', buffered') /\ NothingLost'
    BY <1>1, <1>3, FflushKeeps
  <1>5. TypeOK'
    BY <1>2, <1>4 DEF IInv, TypeOK, Flush, Items
  <1>6. FileLeft' /\ CountHolds'
    BY <1>4, EmptySeq DEF IInv, TypeOK, FileLeft, CountHolds, Flush
  <1> QED
    BY <1>4, <1>5, <1>6 DEF IInv

(* A kill costs what stdio holds.                                          *)
LEMMA KillStep ==
  ASSUME IInv, Kill
  PROVE  IInv'
  <1>1. /\ buffered' = <<>> /\ killed' = killed \cup Held
        /\ UNCHANGED <<disk, file_, appends, flushed, cut, lost>>
    BY DEF Kill, Held
  <1>2. <<>> \in Seq(Items) /\ Len(<<>>) = 0 /\ DOMAIN <<>> = {} /\ Range(<<>>) = {}
    BY EmptySeq DEF Range
  <1>3. NothingLost'
    <2>1. Gone' = Gone \cup Held /\ Held' = {} /\ OnDisk' = OnDisk
      BY <1>1, <1>2 DEF Gone, Held, OnDisk
    <2> QED
      BY <1>1, <2>1 DEF IInv, NothingLost
  <1>4. Ordered(disk', file_', buffered')
    BY <1>1, <1>2 DEF IInv, Ordered, Ascends, InOrder
  <1>5. TypeOK'
    BY <1>1, <1>2, ItemsKnown DEF IInv, TypeOK, Kill, Items
  <1>6. FileLeft' /\ CountHolds'
    BY <1>1 DEF IInv, FileLeft, CountHolds, Kill
  <1> QED
    BY <1>3, <1>4, <1>5, <1>6 DEF IInv

(* The next process has any pid, and rolls before it appends.              *)
LEMMA RestartStep ==
  ASSUME IInv, Restart
  PROVE  IInv'
  <1>1. NothingLost' /\ Ordered(disk', file_', buffered')
    BY ItemsStay DEF Restart, stdio
  <1>2. TypeOK'
    BY DEF IInv, TypeOK, Restart, Goto
  <1>3. FileLeft' /\ CountHolds'
    BY DEF IInv, FileLeft, CountHolds, Restart, Goto
  <1> QED
    BY <1>1, <1>2, <1>3 DEF IInv

-----------------------------------------------------------------------------
(* The parts of the invariant, together, are inductive.                    *)
LEMMA IInvNext == IInv /\ [Next]_vars => IInv'
  <1> SUFFICES ASSUME IInv, [Next]_vars
               PROVE  IInv'
    OBVIOUS
  <1>1. CASE UNCHANGED vars
    BY <1>1, ItemsStay DEF vars, stdio, IInv, TypeOK, FileLeft, CountHolds
  <1>2. CASE Next
    BY <1>2, TickStep, WriteStep, WriteBreaksStep, CountStep, SizeStep, rollFileStep,
       FlushStep, KillStep, RestartStep DEF Next
  <1> QED
    BY <1>1, <1>2

(* So it holds in every state.                                             *)
LEMMA IInvInvariant == Spec => []IInv
  BY IInvInit, IInvNext, PTL DEF Spec

(* Types, for any lengths, sizes, times and processes; count_ stays below  *)
(* flushEveryN_.                                                           *)
THEOREM TypeCorrect == Spec => []TypeOK
  <1>1. IInv => TypeOK
    BY DEF IInv
  <1> QED
    BY <1>1, IInvInvariant, PTL

(* Each append is in one file or with stdio, unless a write failed or it   *)
(* was killed, and what was written when a flush() succeeded is in a file, *)
(* whatever fails, rolls and is killed later.                              *)
THEOREM AppendsAccounted == Spec => []NothingLost
  <1>1. IInv => NothingLost
    BY DEF IInv
  <1> QED
    BY <1>1, IInvInvariant, PTL

(* The files read in the order of the seconds in their names give the      *)
(* appends in order, whatever numbers the processes have.                  *)
THEOREM FilesReadInOrder == Spec => []FilesInOrder
  <1>1. IInv => FilesInOrder
    BY DEF IInv, Ordered, Ascends, FilesInOrder
  <1> QED
    BY <1>1, IInvInvariant, PTL

(* While no write of the open file has failed, a kill costs at most the    *)
(* last flushEveryN_ appends, and between two calls fewer.                 *)
THEOREM KillCostsLittle == Spec => []LossBounded
  <1>1. IInv => LossBounded
    BY ItemsKnown, SizesAssumption, EmptySeq
       DEF IInv, TypeOK, FileLeft, CountHolds, LossBounded
  <1> QED
    BY <1>1, IInvInvariant, PTL
=============================================================================
