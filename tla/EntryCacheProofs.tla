-------------------------- MODULE EntryCacheProofs --------------------------
(***************************************************************************)
(* For every buffer size, every weight and every bound: the cache never    *)
(* answers with another entry than the log's, and the assertion of         *)
(* EntryCacheAppend never fails.                                           *)
(***************************************************************************)
EXTENDS EntryCache, SequenceTheorems, TLAPS

(* The slot of entry k, without the remainder operator. *)
LEMMA SlotIs ==
    ASSUME NEW sz \in Nat \ {0}, NEW st \in 0 .. sz - 1, NEW k \in 0 .. sz
    PROVE  (st + k) % sz = IF st + k < sz THEN st + k ELSE st + k - sz
<1>1. CASE st + k < sz
  BY <1>1, SMT
<1>2. CASE ~ (st + k < sz)
  BY <1>2, SMT
<1> QED
  BY <1>1, <1>2

(* Live slots hold the log's entries, from start_idx on. *)
Agreement ==
    \A k \in 0 .. len - 1 :
        /\ start_idx + k \in 1 .. Len(log)
        /\ ptrs[Slot(k)] = log[start_idx + k]
        /\ log[start_idx + k] # NULL

(* The inductive invariant. *)
IInv == TypeOK /\ CacheEndsAtLogEnd /\ Agreement

LEMMA InitIInv == Init => IInv
  BY SizeAssumption DEF Init, IInv, TypeOK, CacheEndsAtLogEnd, Agreement

(* DropHead(n) keeps the last len - n entries where they were. *)
LEMMA DropHeadIInv ==
    ASSUME IInv, NEW n \in 0 .. len, DropHead(n),
           UNCHANGED log, first' \in 1 .. Len(log) + 1
    PROVE  IInv'
<1> USE DEF IInv
<1>1. \A k \in 0 .. size : Slot(k) = IF start + k < size THEN start + k
                                                     ELSE start + k - size
  BY SlotIs, Zenon DEF Slot, TypeOK
<1>2. start' = IF start + n < size THEN start + n ELSE start + n - size
  BY <1>1 DEF DropHead, TypeOK
<1>3. TypeOK'
  BY <1>2 DEF DropHead, TypeOK
<1>4. \A k \in 0 .. size' : Slot(k)' = IF start' + k < size' THEN start' + k
                                                     ELSE start' + k - size'
  BY <1>3, SlotIs DEF Slot, TypeOK
<1>5. ASSUME NEW k \in 0 .. len' - 1
      PROVE  /\ k + n \in 0 .. len - 1
             /\ Slot(k)' = Slot(k + n)
             /\ \A j \in 0 .. n - 1 : Slot(k)' # Slot(j)
             /\ Slot(k)' \in 0 .. size - 1
  <2>1. /\ size \in Nat \ {0} /\ size' = size
        /\ start \in 0 .. size - 1 /\ len \in 0 .. size
        /\ len' = len - n
    BY DEF DropHead, TypeOK
  <2>2. k + n \in 0 .. len - 1 /\ k \in 0 .. size /\ k \in 0 .. size'
    BY <2>1
  <2>3. Slot(k)' = IF start' + k < size THEN start' + k ELSE start' + k - size
    BY <1>4, <2>1, <2>2
  <2>4. Slot(k + n) = IF start + (k + n) < size THEN start + (k + n)
                                               ELSE start + (k + n) - size
    BY <1>1, <2>1, <2>2
  <2>5. Slot(k)' = Slot(k + n) /\ Slot(k)' \in 0 .. size - 1
    BY <1>2, <2>1, <2>2, <2>3, <2>4
  <2>6. ASSUME NEW j \in 0 .. n - 1 PROVE Slot(k)' # Slot(j)
    <3>1. Slot(j) = IF start + j < size THEN start + j ELSE start + j - size
      BY <1>1, <2>1
    <3> QED
      BY <3>1, <2>1, <2>2, <2>4, <2>5
  <2> QED
    BY <2>2, <2>5, <2>6
<1>6. CacheEndsAtLogEnd'
  <2>1. Len(log') = Len(log) /\ Len(log) \in Nat
    BY DEF TypeOK
  <2>2. CASE n = len
    BY <2>2 DEF DropHead, TypeOK, CacheEndsAtLogEnd
  <2>3. CASE n # len
    <3>1. /\ len \in Nat /\ start_idx \in Nat /\ n \in 0 .. len
          /\ len' = len - n /\ start_idx' = start_idx + n
      BY <2>3 DEF DropHead, TypeOK
    <3>2. len > 0 => start_idx >= 1 /\ start_idx + len = Len(log) + 1
      BY Zenon DEF CacheEndsAtLogEnd
    <3>3. start_idx' >= 1 /\ start_idx' + len' = Len(log') + 1 /\ len' # 0
      BY <2>1, <2>3, <3>1, <3>2
    <3> QED
      BY <3>3, Zenon DEF CacheEndsAtLogEnd
  <2> QED
    BY <2>2, <2>3
<1>7. Agreement'
  <2> SUFFICES ASSUME NEW k \in 0 .. len' - 1
               PROVE  /\ start_idx' + k \in 1 .. Len(log')
                      /\ ptrs'[Slot(k)'] = log'[start_idx' + k]
                      /\ log'[start_idx' + k] # NULL
    BY DEF Agreement
  <2>1. start_idx' = start_idx + n
    BY DEF DropHead, TypeOK
  <2>2. ptrs'[Slot(k)'] = ptrs[Slot(k + n)]
    BY <1>5 DEF DropHead, TypeOK
  <2>3. start_idx' + k = start_idx + (k + n)
    BY <2>1 DEF TypeOK
  <2> QED
    BY <1>5, <2>2, <2>3 DEF Agreement
<1> QED
  BY <1>3, <1>6, <1>7

(* Appending, with or without doubling the buffer. *)
LEMMA AppendIInv ==
    ASSUME IInv, NEW ety \in Entry, LogAppend(ety)
    PROVE  IInv'
<1> USE DEF IInv
<1>1. /\ size \in Nat \ {0} /\ start \in 0 .. size - 1 /\ len \in 0 .. size
      /\ start_idx \in Nat /\ Len(log) \in Nat
      /\ start' = start /\ len' = len + 1
      /\ size' = IF len = size THEN 2 * size ELSE size
      /\ log' = Append(log, ety)
  BY DEF LogAppend, EntryCacheAppend, TypeOK
<1>2. /\ Len(log') = Len(log) + 1
      /\ log' \in Seq(Entry \cup {NULL})
      /\ log'[Len(log) + 1] = ety
      /\ \A i \in 1 .. Len(log) : log'[i] = log[i]
  BY <1>1 DEF TypeOK
<1>3. /\ size' \in Nat \ {0} /\ start' \in 0 .. size' - 1
      /\ len' \in 0 .. size'
  BY <1>1
<1>4. start_idx' \in Nat /\ start_idx' >= 1 /\ start_idx' + len = Len(log) + 1
      /\ (len > 0 => start_idx' = start_idx)
  BY <1>1 DEF LogAppend, EntryCacheAppend, CacheEndsAtLogEnd
<1>5. \A k \in 0 .. size : Slot(k) = IF start + k < size THEN start + k
                                                     ELSE start + k - size
  BY <1>1, SlotIs, Zenon DEF Slot
<1>6. \A k \in 0 .. size' : Slot(k)' = IF start + k < size' THEN start + k
                                                     ELSE start + k - size'
  BY <1>1, <1>3, SlotIs DEF Slot
<1> DEFINE tail == (start + len) % size'
<1> DEFINE slots == IF len = size THEN Enlarged ELSE ptrs
<1>7. slots \in [0 .. size' - 1 -> Entry \cup {NULL}]
  BY <1>1 DEF Enlarged, TypeOK
<1>8. tail = IF start + len < size' THEN start + len ELSE start + len - size'
  <2>1. size' \in Nat \ {0} /\ start \in 0 .. size' - 1 /\ len \in 0 .. size'
    BY <1>1
  <2> QED
    BY <2>1, SlotIs, Zenon
<1>9. ptrs' = [slots EXCEPT ![tail] = ety]
  BY <1>1 DEF LogAppend, EntryCacheAppend, Slot
<1> HIDE DEF tail
<1>10. tail \in 0 .. size' - 1
  BY <1>1, <1>8
<1>11. ptrs' \in [0 .. size' - 1 -> Entry \cup {NULL}]
  BY <1>7, <1>9, <1>10
<1>12. TypeOK'
  BY <1>1, <1>2, <1>3, <1>4, <1>11, SMTT(30) DEF TypeOK, LogAppend
<1>13. CacheEndsAtLogEnd'
  <2>1. len' > 0 /\ len' # 0 /\ len' = len + 1 /\ len \in Nat
    BY <1>1
  <2>2. start_idx' + len' = Len(log') + 1
    <3>1. Len(log') = Len(log) + 1 /\ Len(log) \in Nat
      BY <1>1, <1>2
    <3>2. start_idx' \in Nat /\ start_idx' + len = Len(log) + 1
      BY <1>4
    <3> QED
      BY <2>1, <3>1, <3>2
  <2> QED
    BY <1>4, <2>1, <2>2 DEF CacheEndsAtLogEnd
<1>14. ASSUME NEW k \in 0 .. len - 1
       PROVE  /\ Slot(k)' \in 0 .. size' - 1
              /\ Slot(k)' # tail
              /\ slots[Slot(k)'] = ptrs[Slot(k)]
  <2>1. Slot(k)' = IF start + k < size' THEN start + k ELSE start + k - size'
    BY <1>1, <1>3, <1>6
  <2>3. Slot(k) = IF start + k < size THEN start + k ELSE start + k - size
    BY <1>1, <1>5
  <2>4. Slot(k)' \in 0 .. size' - 1 /\ Slot(k)' # tail
    BY <1>1, <1>8, <2>1
  <2>5. CASE len # size
    BY <2>1, <2>3, <2>4, <2>5, <1>1
  <2>6. CASE len = size /\ start + k < size
    <3>1. Slot(k) = start + k /\ Slot(k)' = start + k /\ start + k \in 0 .. 2 * size - 1
      BY <2>1, <2>3, <2>6, <1>1
    <3>2. ~ (start + k < start)
      BY <1>1
    <3>3. Enlarged[start + k] = ptrs[start + k]
      BY <3>1, <3>2, <2>6, <1>1 DEF Enlarged
    <3> QED
      BY <3>1, <3>3, <2>4, <2>6
  <2>7. CASE len = size /\ ~ (start + k < size)
    <3>1. /\ Slot(k) = start + k - size /\ Slot(k)' = start + k
          /\ start + k \in 0 .. 2 * size - 1
          /\ ~ (start + k < start) /\ ~ (start + k < size)
          /\ start + k >= size /\ (start + k) - size < start
      BY <2>1, <2>3, <2>7, <1>1
    <3>2. Enlarged[start + k] = ptrs[start + k - size]
      BY <3>1, <1>1 DEF Enlarged
    <3> QED
      BY <3>1, <3>2, <2>4, <2>7
  <2> QED
    BY <2>4, <2>5, <2>6, <2>7
<1>15. Agreement'
  <2> SUFFICES ASSUME NEW k \in 0 .. len' - 1
               PROVE  /\ start_idx' + k \in 1 .. Len(log')
                      /\ ptrs'[Slot(k)'] = log'[start_idx' + k]
                      /\ log'[start_idx' + k] # NULL
    BY DEF Agreement
  <2>1. CASE k = len
    <3>1. Slot(k)' = tail
      BY <2>1, <1>1 DEF Slot, tail
    <3>2. ptrs'[tail] = ety
      BY <1>7, <1>9, <1>10
    <3>3. start_idx' + k = Len(log) + 1
      BY <2>1, <1>4
    <3> QED
      BY <3>1, <3>2, <3>3, <1>1, <1>2, EntryAssumption
  <2>2. CASE k # len
    <3>1. k \in 0 .. len - 1 /\ start_idx' = start_idx
      BY <2>2, <1>1, <1>4
    <3>2. ptrs'[Slot(k)'] = ptrs[Slot(k)]
      BY <3>1, <1>7, <1>9, <1>10, <1>14
    <3>3. /\ start_idx + k \in 1 .. Len(log)
          /\ ptrs[Slot(k)] = log[start_idx + k]
          /\ log[start_idx + k] # NULL
      BY <3>1, Zenon DEF Agreement
    <3>4. log'[start_idx + k] = log[start_idx + k]
      BY <3>3, <1>2, Zenon
    <3>5. start_idx + k \in 1 .. Len(log')
      <4>1. Len(log') = Len(log) + 1 /\ Len(log) \in Nat
        BY <1>1, <1>2, Zenon
      <4> QED
        BY <4>1, <3>3
    <3> QED
      BY <3>1, <3>2, <3>3, <3>4, <3>5, Zenon
  <2> QED
    BY <2>1, <2>2
<1> QED
  BY <1>12, <1>13, <1>15

(* Truncating the last entry of the log. *)
LEMMA PopIInv ==
    ASSUME IInv, LogPop
    PROVE  IInv'
<1> USE DEF IInv
<1>1. /\ size \in Nat \ {0} /\ start \in 0 .. size - 1 /\ len \in 0 .. size
      /\ start_idx \in Nat /\ Len(log) \in Nat /\ Len(log) >= 1
      /\ size' = size /\ start' = start
      /\ log' = SubSeq(log, 1, Len(log) - 1)
  BY DEF LogPop, EntryCacheDeleteTail, TypeOK, cache
<1>2. /\ Len(log') = Len(log) - 1
      /\ log' \in Seq(Entry \cup {NULL})
      /\ \A i \in 1 .. Len(log) - 1 : log'[i] = log[i]
  <2> DEFINE m == Len(log) - 1
  <2>1. m \in Nat /\ m \in 1 - 1 .. Len(log) /\ log \in Seq(Entry \cup {NULL})
    BY <1>1 DEF TypeOK
  <2> HIDE DEF m
  <2>2. /\ SubSeq(log, 1, m) \in Seq(Entry \cup {NULL})
        /\ Len(SubSeq(log, 1, m)) = m
        /\ \A i \in 1 .. m : SubSeq(log, 1, m)[i] = log[i]
    BY <2>1
  <2> QED
    BY <1>1, <2>2 DEF m
<1>3. first' \in 1 .. Len(log') + 1
  BY <1>1, <1>2 DEF LogPop, TypeOK
<1>4. CASE len = 0
  <2>1. UNCHANGED cache
    BY <1>1, <1>4 DEF LogPop, EntryCacheDeleteTail, CacheEndsAtLogEnd
  <2> QED
    BY <1>1, <1>2, <1>3, <1>4, <2>1
    DEF TypeOK, CacheEndsAtLogEnd, Agreement, cache
<1>5. CASE len > 0
  <2>1. /\ start_idx >= 1 /\ start_idx + len = Len(log) + 1
        /\ len' = len - 1
        /\ start_idx' = IF len = 1 THEN 0 ELSE start_idx
        /\ ptrs' = [s \in 0 .. size - 1 |->
                        IF \E k \in len - 1 .. len - 1 : s = Slot(k)
                        THEN NULL ELSE ptrs[s]]
    BY <1>1, <1>5 DEF LogPop, EntryCacheDeleteTail, CacheEndsAtLogEnd
  <2>2. TypeOK'
    BY <1>1, <1>2, <1>3, <1>5, <2>1 DEF TypeOK
  <2>3. CacheEndsAtLogEnd'
    <3>1. CASE len = 1
      BY <1>1, <2>1, <3>1 DEF CacheEndsAtLogEnd
    <3>2. CASE len # 1
      <4>1. start_idx' + len' = Len(log') + 1
        BY <1>1, <1>2, <2>1, <3>2
      <4> QED
        BY <1>1, <1>5, <2>1, <3>2, <4>1 DEF CacheEndsAtLogEnd
    <3> QED
      BY <3>1, <3>2
  <2>4. \A k \in 0 .. size : Slot(k) = IF start + k < size THEN start + k
                                                       ELSE start + k - size
    BY <1>1, SlotIs DEF Slot
  <2>5. ASSUME NEW k \in 0 .. len - 2
        PROVE  /\ Slot(k)' = Slot(k)
               /\ Slot(k) \in 0 .. size - 1 /\ Slot(k) # Slot(len - 1)
    <3>1. Slot(k) = IF start + k < size THEN start + k ELSE start + k - size
      BY <1>1, <2>4
    <3>2. Slot(len - 1) = IF start + (len - 1) < size THEN start + (len - 1)
                                             ELSE start + (len - 1) - size
      BY <1>1, <1>5, <2>4
    <3>3. Slot(k)' = Slot(k)
      BY <1>1 DEF Slot
    <3> QED
      BY <1>1, <3>1, <3>2, <3>3
  <2>6. Agreement'
    <3> SUFFICES ASSUME NEW k \in 0 .. len' - 1
                 PROVE  /\ start_idx' + k \in 1 .. Len(log')
                        /\ ptrs'[Slot(k)'] = log'[start_idx' + k]
                        /\ log'[start_idx' + k] # NULL
      BY DEF Agreement
    <3>1. k \in 0 .. len - 2 /\ k \in 0 .. len - 1 /\ start_idx' = start_idx
      BY <1>1, <1>5, <2>1
    <3>2. ptrs'[Slot(k)'] = ptrs[Slot(k)]
      BY <1>1, <1>5, <2>1, <2>5, <3>1
    <3>3. start_idx + k \in 1 .. Len(log) - 1
      BY <1>1, <2>1, <3>1
    <3> QED
      BY <1>2, <3>1, <3>2, <3>3 DEF Agreement
  <2> QED
    BY <2>2, <2>3, <2>6
<1> QED
  BY <1>1, <1>4, <1>5

(* A snapshot replaces the log: the cache starts over. *)
LEMMA ResetIInv ==
    ASSUME IInv, NEW index \in 1 .. MaxIndex, LogReset(index)
    PROVE  IInv'
<1>1. index - 1 \in Nat /\ index \in Nat
  BY BoundAssumption
<1>2. log' \in Seq(Entry \cup {NULL}) /\ Len(log') = index - 1
  BY <1>1, SMT DEF LogReset
<1>3. TypeOK'
  BY <1>1, <1>2, SizeAssumption DEF LogReset, EntryCacheNew, TypeOK
<1>4. CacheEndsAtLogEnd' /\ Agreement'
  BY DEF LogReset, EntryCacheNew, CacheEndsAtLogEnd, Agreement
<1> QED
  BY <1>3, <1>4 DEF IInv

LEMMA NextIInv == IInv /\ [Next]_vars => IInv'
<1> SUFFICES ASSUME IInv, [Next]_vars PROVE IInv'
  OBVIOUS
<1>1. ASSUME NEW ety \in Entry, LogAppend(ety) PROVE IInv'
  BY <1>1, AppendIInv
<1>2. CASE LogPop
  BY <1>2, PopIInv
<1>3. ASSUME NEW i \in 1 .. Len(log) + 1, LogPoll(i) PROVE IInv'
  <2>1. UNCHANGED log /\ first' \in 1 .. Len(log) + 1
    BY <1>3 DEF LogPoll
  <2>2. CASE i < start_idx
    <3>1. UNCHANGED <<size, len, start_idx, start, ptrs>>
      BY <1>3, <2>2 DEF LogPoll, EntryCacheDeleteHead, cache
    <3> QED
      BY <2>1, <3>1
      DEF IInv, TypeOK, CacheEndsAtLogEnd, Agreement, Slot
  <2>3. CASE ~ (i < start_idx)
    <3> DEFINE n == IF i - start_idx < len THEN i - start_idx ELSE len
    <3>1. n \in 0 .. len
      BY <2>3 DEF IInv, TypeOK
    <3>2. DropHead(n)
      BY <1>3, <2>3 DEF LogPoll, EntryCacheDeleteHead
    <3> QED
      BY <2>1, <3>1, <3>2, DropHeadIInv
  <2> QED
    BY <2>2, <2>3
<1>4. ASSUME NEW i \in 1 .. MaxIndex, LogReset(i) PROVE IInv'
  BY <1>4, ResetIInv
<1>5. CASE Periodic
  <2>1. PICK n \in 0 .. len : DropHead(n)
    BY <1>5 DEF Periodic, EntryCacheCompact
  <2>2. UNCHANGED log /\ first' \in 1 .. Len(log) + 1
    BY <1>5 DEF Periodic, IInv, TypeOK
  <2> QED
    BY <2>1, <2>2, DropHeadIInv
<1>6. CASE UNCHANGED vars
  BY <1>6 DEF vars, IInv, TypeOK, CacheEndsAtLogEnd, Agreement, Slot
<1> QED
  BY <1>1, <1>2, <1>3, <1>4, <1>5, <1>6 DEF Next

LEMMA SpecIInv == Spec => []IInv
  BY InitIInv, NextIInv, PTL DEF Spec

(* The assertion start_idx + len == idx of EntryCacheAppend never fails. *)
THEOREM AppendAssertionHolds == Spec => []CacheEndsAtLogEnd
<1>1. IInv => CacheEndsAtLogEnd
  BY DEF IInv
<1> QED
  BY <1>1, SpecIInv, PTL

(* EntryCacheGet answers with the log's entry, or not at all. *)
THEOREM CacheNeverLies == Spec => []GetAgreesWithLog
<1>1. IInv => GetAgreesWithLog
  <2> SUFFICES ASSUME IInv, NEW i \in Cached
               PROVE  /\ i \in 1 .. Len(log)
                      /\ EntryCacheGet(i) = log[i] /\ log[i] # NULL
    BY DEF GetAgreesWithLog
  <2>1. PICK k \in 0 .. len - 1 : i = start_idx + k
    BY DEF Cached
  <2>2. i - start_idx = k /\ ~ (i < start_idx) /\ ~ (k >= len)
    BY <2>1 DEF IInv, TypeOK
  <2>3. EntryCacheGet(i) = ptrs[Slot(k)]
    BY <2>2 DEF EntryCacheGet
  <2> QED
    BY <2>1, <2>3 DEF IInv, Agreement
<1> QED
  BY <1>1, SpecIInv, PTL
=============================================================================
