------------------------- MODULE BatchWriterProofs -------------------------
(* Proofs about BatchWriter, for any batch and buffer size, any number of  *)
(* callers and records, with flushes overlapping, failing and cancelled.   *)
EXTENDS BatchWriter, FiniteSetTheorems, TLAPS

Once(s) == \A i, j \in DOMAIN s : s[i] = s[j] => i = j
Apart(s, t) == \A i \in DOMAIN s, j \in DOMAIN t : s[i] # t[j]
UpTo(n, s) == \A i \in DOMAIN s : s[i] <= n
Prefix(t, s) == DOMAIN t \subseteq DOMAIN s /\ \A i \in DOMAIN t : t[i] = s[i]

(* Every accepted record waits in at most one place, the buffer or the     *)
(* batch of one flusher, and what has not been accepted is nowhere.        *)
Owned ==
  /\ Once(buffer) /\ \A f \in Flushers : Once(batch[f])
  /\ \A f \in Flushers : Apart(batch[f], buffer)
  /\ \A f, g \in Flushers : f # g => Apart(batch[f], batch[g])
Accepted ==
  /\ \A r \in 1..MaxRecords : r > accepted => table[r] = 0
  /\ UpTo(accepted, buffer) /\ \A f \in Flushers : UpTo(accepted, batch[f])

IInv == TypeOK /\ Owned /\ Accepted

-----------------------------------------------------------------------------
(* Sequences. *)
LEMMA SeqFacts ==
  ASSUME NEW S, NEW s \in Seq(S)
  PROVE  Len(s) \in Nat /\ DOMAIN s = 1..Len(s) /\ \A i \in DOMAIN s : s[i] \in S
  OBVIOUS

LEMMA AppendFacts ==
  ASSUME NEW S, NEW s \in Seq(S), NEW e \in S
  PROVE  /\ Append(s, e) \in Seq(S) /\ Len(Append(s, e)) = Len(s) + 1
         /\ \A i \in 1..Len(s) : Append(s, e)[i] = s[i]
         /\ Append(s, e)[Len(s) + 1] = e
  OBVIOUS

LEMMA TailFacts ==
  ASSUME NEW S, NEW s \in Seq(S), s # << >>
  PROVE  /\ Len(s) >= 1 /\ Tail(s) \in Seq(S) /\ Len(Tail(s)) = Len(s) - 1
         /\ \A i \in 1..(Len(s) - 1) : Tail(s)[i] = s[i + 1]
  OBVIOUS

LEMMA ConcatFacts ==
  ASSUME NEW S, NEW s \in Seq(S), NEW t \in Seq(S)
  PROVE  /\ s \o t \in Seq(S) /\ Len(s \o t) = Len(s) + Len(t)
         /\ \A i \in 1..Len(s) : (s \o t)[i] = s[i]
         /\ \A i \in 1..(Len(s) + Len(t)) : i > Len(s) => (s \o t)[i] = t[i - Len(s)]
  OBVIOUS

LEMMA SubSeqFacts ==
  ASSUME NEW S, NEW s \in Seq(S), NEW n \in 0..Len(s)
  PROVE  /\ SubSeq(s, 1, n) \in Seq(S) /\ Len(SubSeq(s, 1, n)) = n
         /\ \A i \in 1..n : SubSeq(s, 1, n)[i] = s[i]
  OBVIOUS

LEMMA EmptyFacts ==
  ASSUME NEW S
  PROVE  << >> \in Seq(S) /\ Len(<< >>) = 0 /\ DOMAIN << >> = {}
  OBVIOUS

(* What a sequence that begins another inherits from it. *)
LEMMA PrefixInherits ==
  ASSUME NEW s, NEW t, Prefix(t, s)
  PROVE  /\ Once(s) => Once(t)
         /\ \A n : UpTo(n, s) => UpTo(n, t)
         /\ \A u : (Apart(u, s) => Apart(u, t)) /\ (Apart(s, u) => Apart(t, u))
  BY DEF Prefix, Once, UpTo, Apart

LEMMA SubSeqPrefix ==
  ASSUME NEW S, NEW s \in Seq(S), NEW n \in 0..Len(s)
  PROVE  Prefix(SubSeq(s, 1, n), s)
<1>1. SubSeq(s, 1, n) \in Seq(S) /\ Len(SubSeq(s, 1, n)) = n /\ \A i \in 1..n : SubSeq(s, 1, n)[i] = s[i]
  BY SubSeqFacts
<1>2. DOMAIN SubSeq(s, 1, n) = 1..n /\ DOMAIN s = 1..Len(s) /\ Len(s) \in Nat
  BY <1>1, SeqFacts
<1> QED
  BY <1>1, <1>2 DEF Prefix

(* Two sequences of different records, one after the other. *)
LEMMA ConcatInherits ==
  ASSUME NEW S, NEW s \in Seq(S), NEW t \in Seq(S)
  PROVE  /\ Once(s) /\ Once(t) /\ Apart(s, t) => Once(s \o t)
         /\ \A n : UpTo(n, s) /\ UpTo(n, t) => UpTo(n, s \o t)
         /\ \A u : Apart(s, u) /\ Apart(t, u) => Apart(s \o t, u)
         /\ \A u : Apart(u, s) /\ Apart(u, t) => Apart(u, s \o t)
<1> DEFINE c == s \o t
<1>1. /\ c \in Seq(S) /\ Len(c) = Len(s) + Len(t)
      /\ \A i \in 1..Len(s) : c[i] = s[i]
      /\ \A i \in 1..(Len(s) + Len(t)) : i > Len(s) => c[i] = t[i - Len(s)]
  BY ConcatFacts
<1>2. /\ DOMAIN c = 1..(Len(s) + Len(t)) /\ DOMAIN s = 1..Len(s) /\ DOMAIN t = 1..Len(t)
      /\ Len(s) \in Nat /\ Len(t) \in Nat
  BY <1>1, SeqFacts
<1>3. \A i \in DOMAIN c : \/ i \in DOMAIN s /\ c[i] = s[i]
                          \/ i - Len(s) \in DOMAIN t /\ c[i] = t[i - Len(s)]
  BY <1>1, <1>2
<1> HIDE DEF c
<1>4. ASSUME Once(s), Once(t), Apart(s, t), NEW i \in DOMAIN c, NEW j \in DOMAIN c, c[i] = c[j]
      PROVE  i = j
  <2>1. i \in Nat /\ j \in Nat
    BY <1>2
  <2>2. CASE i \in DOMAIN s /\ c[i] = s[i]
    BY <1>2, <1>3, <1>4, <2>1, <2>2 DEF Once, Apart
  <2>3. CASE i - Len(s) \in DOMAIN t /\ c[i] = t[i - Len(s)]
    <3>1. CASE j \in DOMAIN s /\ c[j] = s[j]
      BY <1>4, <2>3, <3>1 DEF Apart
    <3>2. CASE j - Len(s) \in DOMAIN t /\ c[j] = t[j - Len(s)]
      <4>1. i - Len(s) = j - Len(s)
        BY <1>4, <2>3, <3>2 DEF Once
      <4> QED
        BY <4>1, <2>1, <1>2
    <3> QED
      BY <1>3, <3>1, <3>2
  <2> QED
    BY <1>3, <2>2, <2>3
<1>5. Once(s) /\ Once(t) /\ Apart(s, t) => Once(c)
  BY <1>4 DEF Once
<1>6. \A n : UpTo(n, s) /\ UpTo(n, t) => UpTo(n, c)
  BY <1>3 DEF UpTo
<1>7. \A u : (Apart(s, u) /\ Apart(t, u) => Apart(c, u)) /\ (Apart(u, s) /\ Apart(u, t) => Apart(u, c))
  BY <1>3 DEF Apart
<1> QED
  BY <1>5, <1>6, <1>7 DEF c

(* The oldest record leaves: what is left inherits everything. *)
LEMMA TailInherits ==
  ASSUME NEW S, NEW s \in Seq(S), s # << >>
  PROVE  /\ Once(s) => Once(Tail(s))
         /\ \A n : UpTo(n, s) => UpTo(n, Tail(s))
         /\ \A u : (Apart(u, s) => Apart(u, Tail(s))) /\ (Apart(s, u) => Apart(Tail(s), u))
<1> DEFINE t == Tail(s)
<1>1. /\ DOMAIN t = 1..(Len(s) - 1) /\ DOMAIN s = 1..Len(s) /\ Len(s) \in Nat
      /\ \A i \in 1..(Len(s) - 1) : t[i] = s[i + 1]
  BY TailFacts, SeqFacts
<1> HIDE DEF t
<1>2. \A i \in DOMAIN t : i \in Nat /\ i + 1 \in DOMAIN s /\ t[i] = s[i + 1]
  BY <1>1
<1>3. Once(s) => Once(t)
  <2> SUFFICES ASSUME Once(s), NEW i \in DOMAIN t, NEW j \in DOMAIN t, t[i] = t[j] PROVE i = j
    BY DEF Once
  <2>1. i + 1 = j + 1
    BY <1>2 DEF Once
  <2> QED
    BY <2>1, <1>2
<1>4. /\ \A n : UpTo(n, s) => UpTo(n, t)
      /\ \A u : (Apart(u, s) => Apart(u, t)) /\ (Apart(s, u) => Apart(t, u))
  BY <1>2 DEF UpTo, Apart
<1> QED
  BY <1>3, <1>4 DEF t

(* A record newer than all the others joins a sequence. *)
LEMMA AppendInherits ==
  ASSUME NEW S, NEW s \in Seq(S), NEW e \in S, \A i \in DOMAIN s : s[i] # e
  PROVE  /\ Once(s) => Once(Append(s, e))
         /\ \A n : UpTo(n, s) /\ e <= n => UpTo(n, Append(s, e))
         /\ \A u : Apart(u, s) /\ (\A i \in DOMAIN u : u[i] # e) => Apart(u, Append(s, e))
<1> DEFINE t == Append(s, e)
<1>1. /\ DOMAIN t = 1..(Len(s) + 1) /\ DOMAIN s = 1..Len(s) /\ Len(s) \in Nat
      /\ (\A i \in 1..Len(s) : t[i] = s[i]) /\ t[Len(s) + 1] = e
  BY AppendFacts, SeqFacts
<1> HIDE DEF t
<1>2. \A i \in DOMAIN t : (i \in DOMAIN s /\ t[i] = s[i]) \/ (i = Len(s) + 1 /\ t[i] = e)
  BY <1>1
<1> QED
  BY <1>2 DEF Once, UpTo, Apart, t

(* One INSERT adds a row for each record of its batch. *)
LEMMA CopiesFacts ==
  ASSUME NEW s, Once(s), NEW r
  PROVE  Copies(s, r) = IF r \in Elements(s) THEN 1 ELSE 0
<1> DEFINE at == {i \in DOMAIN s : s[i] = r}
<1>1. CASE r \in Elements(s)
  <2>1. PICK i \in DOMAIN s : s[i] = r
    BY <1>1 DEF Elements
  <2>2. at = {i}
    BY <2>1 DEF Once
  <2> QED
    BY <1>1, <2>2, FS_Singleton DEF Copies
<1>2. CASE r \notin Elements(s)
  <2>1. at = {}
    BY <1>2 DEF Elements
  <2> QED
    BY <1>2, <2>1, FS_EmptySet DEF Copies
<1> QED
  BY <1>1, <1>2

LEMMA InsertedFacts ==
  ASSUME TypeOK, Owned, NEW f \in Flushers
  PROVE  /\ Inserted(f) \in [1..MaxRecords -> Nat]
         /\ \A r \in 1..MaxRecords :
              Inserted(f)[r] = IF r \in Elements(batch[f]) THEN table[r] + 1 ELSE table[r]
<1>1. table \in [1..MaxRecords -> Nat] /\ Once(batch[f])
  BY DEF TypeOK, Owned
<1>2. \A r \in 1..MaxRecords :
        table[r] + Copies(batch[f], r) = IF r \in Elements(batch[f]) THEN table[r] + 1 ELSE table[r]
  BY <1>1, CopiesFacts
<1>3. \A r \in 1..MaxRecords : table[r] + Copies(batch[f], r) \in Nat
  BY <1>1, <1>2
<1> QED
  BY <1>2, <1>3 DEF Inserted

(* Only what was accepted comes into the table. *)
LEMMA InsertedAccepted ==
  ASSUME IInv, NEW f \in Flushers, NEW r \in 1..MaxRecords, r > accepted
  PROVE  Inserted(f)[r] = 0
<1>1. TypeOK /\ Owned /\ table[r] = 0 /\ UpTo(accepted, batch[f]) /\ accepted \in Nat
  BY DEF IInv, Accepted, TypeOK
<1>2. r \notin Elements(batch[f])
  BY <1>1 DEF UpTo, Elements
<1> QED
  BY <1>1, <1>2, InsertedFacts

(* What a failed flush puts back begins the batch and the buffer after it. *)
LEMMA RequeuedFacts ==
  ASSUME TypeOK, NEW s \in Seq(1..MaxRecords)
  PROVE  /\ Requeued(s) \in Seq(1..MaxRecords) /\ Len(Requeued(s)) <= BufferMax
         /\ Surplus(s) \in Nat
         /\ \E p \in Seq(1..MaxRecords) : Prefix(p, s) /\ Prefix(Requeued(s), p \o buffer)
<1> DEFINE R == 1..MaxRecords
           n == Len(s) - Surplus(s)
           p == SubSeq(s, 1, n)
           front == p \o buffer
<1>1. Len(s) \in Nat /\ Surplus(s) \in Nat /\ n \in 0..Len(s)
  BY WriterAssumption, SeqFacts DEF Surplus
<1> HIDE DEF n
<1>2. p \in Seq(R) /\ Prefix(p, s)
  BY <1>1, SubSeqFacts, SubSeqPrefix
<1> HIDE DEF p
<1>3. front \in Seq(R) /\ Len(front) \in Nat
  BY <1>2, ConcatFacts, SeqFacts DEF TypeOK
<1>4. Requeued(s) = IF Len(front) > BufferMax THEN SubSeq(front, 1, BufferMax) ELSE front
  BY DEF Requeued, front, p, n
<1> HIDE DEF front
<1>5. CASE Len(front) > BufferMax
  <2>1. BufferMax \in 0..Len(front)
    BY <1>3, <1>5, WriterAssumption
  <2>2. SubSeq(front, 1, BufferMax) \in Seq(R) /\ Len(SubSeq(front, 1, BufferMax)) = BufferMax
    BY <1>3, <2>1, SubSeqFacts
  <2>3. Prefix(SubSeq(front, 1, BufferMax), front)
    BY <1>3, <2>1, SubSeqPrefix
  <2> QED
    BY <1>1, <1>2, <1>4, <1>5, <2>2, <2>3, WriterAssumption DEF front
<1>6. CASE ~(Len(front) > BufferMax)
  <2>1. Prefix(front, front)
    BY DEF Prefix
  <2> QED
    BY <1>1, <1>2, <1>3, <1>4, <1>6, <2>1, WriterAssumption DEF front
<1> QED
  BY <1>5, <1>6

-----------------------------------------------------------------------------
LEMMA InitIInv == Init => IInv
<1> SUFFICES ASSUME Init PROVE IInv
  OBVIOUS
<1>1. << >> \in Seq(1..MaxRecords) /\ Len(<< >>) = 0 /\ DOMAIN << >> = {}
  BY EmptyFacts
<1>2. TypeOK
  BY <1>1, WriterAssumption DEF Init, TypeOK, NoRecords
<1>3. Owned /\ Accepted
  BY <1>1 DEF Init, Owned, Accepted, NoRecords, Once, Apart, UpTo
<1> QED
  BY <1>2, <1>3 DEF IInv

LEMMA EnqueueKeeps == IInv /\ Enqueue => IInv'
<1> SUFFICES ASSUME IInv, Enqueue PROVE IInv'
  OBVIOUS
<1> DEFINE R == 1..MaxRecords
           e == accepted + 1
           rest == IF Len(buffer) >= BufferMax THEN Tail(buffer) ELSE buffer
<1>0. TypeOK /\ Owned /\ Accepted
  BY DEF IInv
<1>1. accepted \in Nat /\ e \in R /\ e \in Nat /\ accepted' = e /\ e \in 0..MaxRecords
  BY <1>0, WriterAssumption DEF TypeOK, Enqueue
<1>2. Len(buffer) >= BufferMax => buffer # << >>
  BY <1>0, WriterAssumption, EmptyFacts DEF TypeOK
<1>3. rest \in Seq(R) /\ Len(rest) < BufferMax
  <2>1. CASE Len(buffer) >= BufferMax
    BY <1>0, <1>2, <2>1, TailFacts, SeqFacts, WriterAssumption DEF TypeOK
  <2>2. CASE ~(Len(buffer) >= BufferMax)
    BY <1>0, <2>2, SeqFacts, WriterAssumption DEF TypeOK
  <2> QED
    BY <2>1, <2>2
<1>4. /\ Once(rest) /\ UpTo(accepted, rest)
      /\ \A f \in Flushers : Apart(batch[f], rest)
  <2>1. CASE Len(buffer) >= BufferMax
    BY <1>0, <1>2, <2>1, TailInherits DEF TypeOK, Owned, Accepted
  <2>2. CASE ~(Len(buffer) >= BufferMax)
    BY <1>0, <2>2 DEF Owned, Accepted
  <2> QED
    BY <2>1, <2>2
<1>5. buffer' = Append(rest, e) /\ UNCHANGED <<batch, table, written, stage, repeats>> /\ dropped' \in Nat
  BY <1>0 DEF Enqueue, TypeOK
<1> HIDE DEF rest, e
<1>6. \A n \in Nat : n <= accepted => n # e /\ n <= e
  BY <1>1 DEF e
<1>7. \A s \in Seq(R) : UpTo(accepted, s) => UpTo(e, s) /\ \A i \in DOMAIN s : s[i] # e
  <2> SUFFICES ASSUME NEW s \in Seq(R), UpTo(accepted, s) PROVE UpTo(e, s) /\ \A i \in DOMAIN s : s[i] # e
    OBVIOUS
  <2>1. \A i \in DOMAIN s : s[i] \in R
    BY SeqFacts
  <2>2. \A i \in R : i \in Nat
    OBVIOUS
  <2> QED
    BY <1>6, <2>1, <2>2 DEF UpTo
<1>8. buffer' \in Seq(R) /\ Len(buffer') <= BufferMax
  BY <1>1, <1>3, <1>5, AppendFacts, SeqFacts, WriterAssumption
<1>9. TypeOK'
  BY <1>0, <1>1, <1>5, <1>8 DEF TypeOK
<1>10. Once(buffer') /\ UpTo(e, buffer')
  <2>1. UpTo(e, rest) /\ (\A i \in DOMAIN rest : rest[i] # e)
    BY <1>3, <1>4, <1>7
  <2>2. e <= e
    BY <1>1
  <2>3. Once(Append(rest, e)) /\ UpTo(e, Append(rest, e))
    BY <1>1, <1>3, <1>4, <2>1, <2>2, AppendInherits
  <2> QED
    BY <1>5, <2>3
<1>12. ASSUME NEW f \in Flushers PROVE Apart(batch[f], buffer')
  <2>1. \A i \in DOMAIN batch[f] : batch[f][i] # e
    BY <1>0, <1>7 DEF TypeOK, Accepted
  <2> QED
    BY <1>1, <1>3, <1>4, <1>5, <1>7, <2>1, AppendInherits
<1>13. Owned'
  BY <1>0, <1>5, <1>10, <1>12 DEF Owned
<1>14. (\A r \in R : r > e => table[r] = 0) /\ \A f \in Flushers : UpTo(e, batch[f])
  <2>1. \A r \in R : r > e => r > accepted
    BY <1>1 DEF e
  <2> QED
    BY <1>0, <1>7, <2>1 DEF TypeOK, Accepted
<1>15. Accepted'
  BY <1>1, <1>5, <1>10, <1>14 DEF Accepted
<1> QED
  BY <1>9, <1>13, <1>15 DEF IInv

LEMMA TakeAllKeeps == ASSUME IInv, NEW f \in Flushers, TakeAll(f) PROVE IInv'
<1>0. TypeOK /\ Owned /\ Accepted
  BY DEF IInv
<1>1. /\ buffer' = << >> /\ batch' = [batch EXCEPT ![f] = buffer] /\ batch[f] = << >>
      /\ UNCHANGED <<table, accepted, written, dropped, stage, repeats>>
  BY DEF TakeAll, MayFlush, NoRecords
<1>2. \A g \in Flushers : batch'[g] = IF g = f THEN buffer ELSE batch[g]
  BY <1>0, <1>1 DEF TypeOK
<1>3. buffer' \in Seq(1..MaxRecords) /\ Len(buffer') = 0 /\ DOMAIN buffer' = {}
  BY <1>1, EmptyFacts
<1>4. TypeOK'
  <2>1. batch' \in [Flushers -> Seq(1..MaxRecords)]
    BY <1>0, <1>1 DEF TypeOK
  <2>2. buffer' \in Seq(1..MaxRecords) /\ Len(buffer') <= BufferMax
    BY <1>3, WriterAssumption
  <2> QED
    BY <1>0, <1>1, <2>1, <2>2 DEF TypeOK
<1>5. Once(buffer') /\ UpTo(accepted, buffer') /\ \A u : Apart(u, buffer')
  BY <1>3 DEF Once, UpTo, Apart
<1>6. \A g \in Flushers : /\ Once(batch'[g]) /\ UpTo(accepted, batch'[g])
                          /\ \A h \in Flushers : g # h => Apart(batch'[g], batch'[h])
  <2>1. \A g \in Flushers : Apart(buffer, batch[g])
    BY <1>0 DEF Owned, Apart
  <2> QED
    BY <1>0, <1>2, <2>1 DEF Owned, Accepted
<1> QED
  BY <1>0, <1>1, <1>4, <1>5, <1>6 DEF IInv, Owned, Accepted

(* The batch of a flusher joins the table, or is lost. *)
LEMMA BatchGone ==
  ASSUME IInv, NEW f \in Flushers,
         batch' = [batch EXCEPT ![f] = << >>],
         table' = table \/ table' = Inserted(f),
         UNCHANGED <<buffer, accepted>>
  PROVE  /\ Owned' /\ Accepted' /\ table' \in [1..MaxRecords -> Nat]
         /\ batch' \in [Flushers -> Seq(1..MaxRecords)]
<1> DEFINE R == 1..MaxRecords
<1>0. TypeOK /\ Owned /\ Accepted
  BY DEF IInv
<1>1. batch \in [Flushers -> Seq(R)] /\ table \in [R -> Nat] /\ << >> \in Seq(R) /\ DOMAIN << >> = {}
  BY <1>0, EmptyFacts DEF TypeOK
<1>2. \A g \in Flushers : batch'[g] = IF g = f THEN << >> ELSE batch[g]
  BY <1>1
<1>3. batch' \in [Flushers -> Seq(R)] /\ table' \in [R -> Nat]
  BY <1>0, <1>1, InsertedFacts
<1>4. \A r \in R : r > accepted => table'[r] = 0
  BY <1>0, InsertedAccepted DEF Accepted
<1>5. Once(<< >>) /\ \A u : UpTo(u, << >>) /\ Apart(u, << >>) /\ Apart(<< >>, u)
  BY <1>1 DEF Once, UpTo, Apart
<1>6. Owned'
  BY <1>0, <1>2, <1>5 DEF Owned
<1>7. Accepted'
  BY <1>0, <1>2, <1>4, <1>5 DEF Accepted
<1> QED
  BY <1>3, <1>6, <1>7

LEMMA FlushFailsKeeps == ASSUME IInv, NEW f \in Flushers, FlushFails(f) PROVE IInv'
<1> DEFINE R == 1..MaxRecords
<1>0. TypeOK /\ Owned /\ Accepted
  BY DEF IInv
<1>1. batch[f] \in Seq(R) /\ buffer \in Seq(R)
  BY <1>0 DEF TypeOK
<1>2. /\ batch' = [batch EXCEPT ![f] = << >>] /\ buffer' = Requeued(batch[f])
      /\ dropped' = dropped + Surplus(batch[f]) /\ UNCHANGED <<accepted, written>>
      /\ stage' = IF f = Stopper THEN "stopped" ELSE stage
  BY DEF FlushFails, FlushEnds, NoRecords
<1>2a. \/ UNCHANGED <<table, repeats>>
       \/ /\ table' = Inserted(f)
          /\ repeats' = [r \in R |-> repeats[r] + Copies(batch[f], r)]
  BY DEF FlushFails
<1>2b. /\ table' \in [R -> Nat] /\ repeats' \in [R -> Nat]
       /\ \A r \in R : r > accepted => table'[r] = 0
  <2>1. \A r \in R : repeats[r] \in Nat /\ Copies(batch[f], r) \in Nat
    <3>1. Once(batch[f]) /\ \A r \in R : repeats[r] \in Nat
      BY <1>0 DEF TypeOK, Owned
    <3>2. \A r \in R : Copies(batch[f], r) = IF r \in Elements(batch[f]) THEN 1 ELSE 0
      BY <3>1, CopiesFacts
    <3> QED
      BY <3>1, <3>2
  <2>2. [r \in R |-> repeats[r] + Copies(batch[f], r)] \in [R -> Nat]
    BY <2>1
  <2>3. Inserted(f) \in [R -> Nat] /\ \A r \in R : r > accepted => Inserted(f)[r] = 0
    BY <1>0, InsertedFacts, InsertedAccepted
  <2> QED
    BY <1>0, <1>2a, <2>2, <2>3 DEF TypeOK, Accepted
<1>3. PICK p \in Seq(R) : Prefix(p, batch[f]) /\ Prefix(buffer', p \o buffer)
  BY <1>0, <1>1, <1>2, RequeuedFacts
<1>4. buffer' \in Seq(R) /\ Len(buffer') <= BufferMax /\ dropped' \in Nat
  BY <1>0, <1>1, <1>2, RequeuedFacts DEF TypeOK
<1>5. /\ Once(p) /\ UpTo(accepted, p) /\ Apart(p, buffer)
      /\ \A g \in Flushers : g # f => Apart(batch[g], p)
  BY <1>0, <1>3, PrefixInherits DEF Owned, Accepted
<1>6. /\ Once(p \o buffer) /\ UpTo(accepted, p \o buffer)
      /\ \A g \in Flushers : g # f => Apart(batch[g], p \o buffer)
  BY <1>0, <1>1, <1>5, ConcatInherits DEF Owned, Accepted
<1>7. /\ Once(buffer') /\ UpTo(accepted, buffer')
      /\ \A g \in Flushers : g # f => Apart(batch[g], buffer')
  BY <1>3, <1>6, PrefixInherits
<1>8. \A g \in Flushers : batch'[g] = IF g = f THEN << >> ELSE batch[g]
  BY <1>0, <1>2 DEF TypeOK
<1>9. Once(<< >>) /\ \A u : UpTo(u, << >>) /\ Apart(u, << >>) /\ Apart(<< >>, u)
  BY EmptyFacts DEF Once, UpTo, Apart
<1>10. TypeOK'
  BY <1>0, <1>2, <1>2b, <1>4, EmptyFacts DEF TypeOK
<1>11. Owned'
  BY <1>0, <1>2, <1>7, <1>8, <1>9 DEF Owned
<1>12. Accepted'
  BY <1>0, <1>2, <1>2b, <1>7, <1>8, <1>9 DEF Accepted
<1> QED
  BY <1>10, <1>11, <1>12 DEF IInv

LEMMA NextKeeps == IInv /\ [Next]_vars => IInv'
<1> SUFFICES ASSUME IInv, [Next]_vars PROVE IInv'
  OBVIOUS
<1>0. TypeOK /\ Owned /\ Accepted
  BY DEF IInv
<1>1. CASE Start \/ NothingToFlush
  <2>1. UNCHANGED <<buffer, batch, table, accepted, written, dropped, repeats>>
        /\ stage' \in {"new", "running", "flushing", "stopped"}
    BY <1>1 DEF Start, NothingToFlush
  <2> QED
    BY <1>0, <2>1 DEF IInv, TypeOK, Owned, Accepted
<1>2. CASE Enqueue
  BY <1>2, EnqueueKeeps
<1>3. CASE Stop
  <2>1. Loop \in Flushers
    BY DEF Flushers
  <2>2. /\ batch' = [batch EXCEPT ![Loop] = << >>] /\ (table' = table \/ table' = Inserted(Loop))
        /\ UNCHANGED <<buffer, accepted, written, dropped, repeats>> /\ stage' = "flushing"
    BY <1>3 DEF Stop, NoRecords
  <2>3. Owned' /\ Accepted' /\ table' \in [1..MaxRecords -> Nat] /\ batch' \in [Flushers -> Seq(1..MaxRecords)]
    BY <2>1, <2>2, BatchGone
  <2> QED
    BY <1>0, <2>2, <2>3 DEF IInv, TypeOK
<1>4. ASSUME NEW f \in Flushers, TakeAll(f) PROVE IInv'
  BY <1>4, TakeAllKeeps
<1>5. ASSUME NEW f \in Flushers, FlushCommits(f) PROVE IInv'
  <2>1. /\ batch' = [batch EXCEPT ![f] = << >>] /\ table' = Inserted(f)
        /\ written' = written + Len(batch[f]) /\ UNCHANGED <<buffer, accepted, dropped, repeats>>
        /\ stage' = IF f = Stopper THEN "stopped" ELSE stage
    BY <1>5 DEF FlushCommits, FlushEnds, NoRecords
  <2>2. Owned' /\ Accepted' /\ table' \in [1..MaxRecords -> Nat] /\ batch' \in [Flushers -> Seq(1..MaxRecords)]
    BY <1>5, <2>1, BatchGone
  <2>3. written' \in Nat
    BY <1>0, <2>1, SeqFacts DEF TypeOK
  <2> QED
    BY <1>0, <2>1, <2>2, <2>3 DEF IInv, TypeOK
<1>6. ASSUME NEW f \in Flushers, FlushFails(f) PROVE IInv'
  BY <1>6, FlushFailsKeeps
<1>7. CASE UNCHANGED vars
  BY <1>0, <1>7 DEF vars, IInv, TypeOK, Owned, Accepted
<1> QED
  BY <1>1, <1>2, <1>3, <1>4, <1>5, <1>6, <1>7 DEF Next, Flush

-----------------------------------------------------------------------------
(* The buffer keeps its bound and every variable its type, for any sizes,  *)
(* callers and failures (batch_writer.py:148-155, 355-358).                *)
THEOREM TypeCorrect == Spec => []TypeOK
<1>1. IInv => TypeOK
  BY DEF IInv
<1> QED
  BY InitIInv, NextKeeps, <1>1, PTL DEF Spec

-----------------------------------------------------------------------------
(* The refinement of Delivery.  Only which records are stored and which    *)
(* wait matters to it, not how often or in whose batch.                    *)
Progress ==
  /\ accepted <= accepted'
  /\ Stored \subseteq Stored'
  /\ Stored' \subseteq Stored \cup Waiting
  /\ \A r \in Waiting' : r \in Waiting \/ r > accepted
  /\ \A r \in 1..accepted' : r > accepted => r \in Waiting'

LEMMA AppendElements ==
  ASSUME NEW S, NEW s \in Seq(S), NEW e \in S
  PROVE  Elements(Append(s, e)) = Elements(s) \cup {e}
<1>1. Len(s) \in Nat /\ DOMAIN s = 1..Len(s)
  BY SeqFacts
<1>2. /\ DOMAIN Append(s, e) = 1..(Len(s) + 1) /\ Append(s, e)[Len(s) + 1] = e
      /\ \A i \in 1..Len(s) : Append(s, e)[i] = s[i]
  BY AppendFacts, SeqFacts
<1>3. /\ \A i \in 1..(Len(s) + 1) : i \in 1..Len(s) \/ i = Len(s) + 1
      /\ 1..Len(s) \subseteq 1..(Len(s) + 1) /\ Len(s) + 1 \in 1..(Len(s) + 1)
  BY <1>1
<1> QED
  BY <1>1, <1>2, <1>3 DEF Elements

LEMMA ConcatElements ==
  ASSUME NEW S, NEW s \in Seq(S), NEW t \in Seq(S)
  PROVE  Elements(s \o t) = Elements(s) \cup Elements(t)
<1>1. Len(s) \in Nat /\ DOMAIN s = 1..Len(s) /\ Len(t) \in Nat /\ DOMAIN t = 1..Len(t)
  BY SeqFacts
<1>2. /\ DOMAIN (s \o t) = 1..(Len(s) + Len(t))
      /\ \A i \in 1..Len(s) : (s \o t)[i] = s[i]
      /\ \A i \in 1..(Len(s) + Len(t)) : i > Len(s) => (s \o t)[i] = t[i - Len(s)]
  BY ConcatFacts, SeqFacts
<1>3. ASSUME NEW i \in 1..Len(t) PROVE Len(s) + i \in DOMAIN (s \o t) /\ (s \o t)[Len(s) + i] = t[i]
  <2>1. Len(s) + i \in 1..(Len(s) + Len(t)) /\ Len(s) + i > Len(s) /\ (Len(s) + i) - Len(s) = i
    BY <1>1
  <2> QED
    BY <1>2, <2>1
<1>4. ASSUME NEW i \in DOMAIN (s \o t) PROVE (s \o t)[i] \in Elements(s) \cup Elements(t)
  <2>1. i \in 1..Len(s) \/ (i > Len(s) /\ i - Len(s) \in 1..Len(t))
    BY <1>1, <1>2
  <2> QED
    BY <1>1, <1>2, <2>1 DEF Elements
<1>5. ASSUME NEW i \in 1..Len(s) PROVE i \in DOMAIN (s \o t) /\ (s \o t)[i] = s[i]
  BY <1>1, <1>2
<1>6. Elements(s \o t) \subseteq Elements(s) \cup Elements(t)
  BY <1>4 DEF Elements
<1>7. Elements(s) \subseteq Elements(s \o t)
  BY <1>1, <1>5 DEF Elements
<1>8. Elements(t) \subseteq Elements(s \o t)
  BY <1>1, <1>3 DEF Elements
<1> QED
  BY <1>6, <1>7, <1>8

LEMMA TailElements ==
  ASSUME NEW S, NEW s \in Seq(S), s # << >> PROVE Elements(Tail(s)) \subseteq Elements(s)
<1>1. DOMAIN Tail(s) = 1..(Len(s) - 1) /\ \A i \in 1..(Len(s) - 1) : Tail(s)[i] = s[i + 1]
  BY TailFacts, SeqFacts
<1>2. DOMAIN s = 1..Len(s) /\ \A i \in 1..(Len(s) - 1) : i + 1 \in 1..Len(s)
  BY SeqFacts
<1> QED
  BY <1>1, <1>2 DEF Elements

LEMMA PrefixElements ==
  ASSUME NEW t, NEW s, Prefix(t, s) PROVE Elements(t) \subseteq Elements(s)
  BY DEF Prefix, Elements

(* A flusher that lets go of its batch adds nothing to what is in flight. *)
LEMMA LetsGo ==
  ASSUME TypeOK, NEW f \in Flushers, batch' = [batch EXCEPT ![f] = << >>]
  PROVE  InFlight' \subseteq InFlight /\ Elements(batch[f]) \subseteq InFlight
<1>1. \A g \in Flushers : batch'[g] = IF g = f THEN << >> ELSE batch[g]
  BY DEF TypeOK
<1>2. Elements(<< >>) = {}
  BY EmptyFacts DEF Elements
<1>3. InFlight' = UNION {Elements(batch'[g]) : g \in Flushers}
  BY DEF InFlight, Elements
<1> QED
  BY <1>1, <1>2, <1>3 DEF InFlight

(* A commit stores its batch, and nothing else. *)
LEMMA InsertedStored ==
  ASSUME IInv, NEW f \in Flushers, table' = table \/ table' = Inserted(f)
  PROVE  Stored \subseteq Stored' /\ Stored' \subseteq Stored \cup Elements(batch[f])
<1>1. TypeOK /\ Owned /\ table \in [1..MaxRecords -> Nat]
  BY DEF IInv, TypeOK
<1>2. \A r \in 1..MaxRecords : table'[r] = table[r] \/ (r \in Elements(batch[f]) /\ table'[r] = table[r] + 1)
  BY <1>1, InsertedFacts
<1> QED
  BY <1>1, <1>2 DEF Stored

LEMMA EnqueueProgress == ASSUME IInv, Enqueue PROVE Progress
<1> DEFINE R == 1..MaxRecords
           e == accepted + 1
<1>1. /\ buffer \in Seq(R) /\ accepted \in Nat /\ e \in R
      /\ accepted' = e /\ table' = table /\ batch' = batch
  BY WriterAssumption DEF IInv, TypeOK, Enqueue
<1>2. /\ Len(buffer) >= BufferMax => buffer' = Append(Tail(buffer), e)
      /\ ~(Len(buffer) >= BufferMax) => buffer' = Append(buffer, e)
  BY DEF Enqueue
<1>3. accepted <= e /\ e > accepted /\ \A r \in 1..e : r > accepted => r = e
  BY <1>1
<1> HIDE DEF e, R
<1>4. \A s \in Seq(R) : Elements(Append(s, e)) = Elements(s) \cup {e}
  BY <1>1, AppendElements
<1>5. Elements(buffer') \subseteq Elements(buffer) \cup {e} /\ e \in Elements(buffer')
  <2>1. CASE Len(buffer) >= BufferMax
    <3>1. buffer # << >>
      BY <2>1, EmptyFacts, WriterAssumption
    <3>2. Tail(buffer) \in Seq(R) /\ Elements(Tail(buffer)) \subseteq Elements(buffer)
      BY <1>1, <3>1, TailFacts, TailElements
    <3> QED
      BY <1>2, <1>4, <2>1, <3>2
  <2>2. CASE ~(Len(buffer) >= BufferMax)
    BY <1>1, <1>2, <1>4, <2>2
  <2> QED
    BY <2>1, <2>2
<1>6. InFlight' = InFlight /\ Stored' = Stored
  BY <1>1 DEF InFlight, Stored
<1>7. Waiting' = Elements(buffer') \cup InFlight'
  BY DEF Waiting, Elements, InFlight
<1> QED
  BY <1>1, <1>3, <1>5, <1>6, <1>7 DEF Progress, Waiting

LEMMA FlushProgress == ASSUME IInv, NEW f \in Flushers, Flush(f) PROVE Progress
<1>0. /\ TypeOK /\ buffer \in Seq(1..MaxRecords) /\ batch[f] \in Seq(1..MaxRecords)
      /\ accepted \in Nat
  BY DEF IInv, TypeOK
<1>1. accepted' = accepted
  BY DEF Flush, TakeAll, FlushCommits, FlushFails
<1>2. accepted <= accepted' /\ \A r \in 1..accepted' : ~(r > accepted)
  BY <1>0, <1>1
<1>3. Waiting' = Elements(buffer') \cup InFlight'
  BY DEF Waiting, Elements, InFlight
<1>4. SUFFICES /\ Stored \subseteq Stored'
               /\ Stored' \subseteq Stored \cup Waiting
               /\ Elements(buffer') \cup InFlight' \subseteq Waiting
  BY <1>2, <1>3 DEF Progress
<1>5. CASE TakeAll(f)
  <2>1. buffer' = << >> /\ batch' = [batch EXCEPT ![f] = buffer] /\ table' = table
    BY <1>5 DEF TakeAll, NoRecords
  <2>2. \A g \in Flushers : batch'[g] = IF g = f THEN buffer ELSE batch[g]
    BY <1>0, <2>1 DEF TypeOK
  <2>3. InFlight' = UNION {Elements(batch'[g]) : g \in Flushers}
    BY DEF InFlight, Elements
  <2>4. InFlight' \subseteq Waiting
    BY <2>2, <2>3 DEF InFlight, Waiting
  <2>5. Elements(buffer') = {} /\ Stored' = Stored
    BY <2>1, EmptyFacts DEF Elements, Stored
  <2> QED
    BY <2>4, <2>5
<1>6. CASE FlushCommits(f)
  <2>1. batch' = [batch EXCEPT ![f] = << >>] /\ table' = Inserted(f) /\ buffer' = buffer
    BY <1>6 DEF FlushCommits, FlushEnds, NoRecords
  <2>2. InFlight' \subseteq InFlight /\ Elements(batch[f]) \subseteq InFlight
    BY <1>0, <2>1, LetsGo
  <2>3. Stored \subseteq Stored' /\ Stored' \subseteq Stored \cup Elements(batch[f])
    BY <2>1, InsertedStored
  <2> QED
    BY <2>1, <2>2, <2>3 DEF Waiting
<1>7. CASE FlushFails(f)
  <2>1. /\ batch' = [batch EXCEPT ![f] = << >>] /\ buffer' = Requeued(batch[f])
        /\ table' = table \/ table' = Inserted(f)
    BY <1>7 DEF FlushFails, FlushEnds, NoRecords
  <2>2. InFlight' \subseteq InFlight /\ Elements(batch[f]) \subseteq InFlight
    BY <1>0, <2>1, LetsGo
  <2>3. PICK p \in Seq(1..MaxRecords) : Prefix(p, batch[f]) /\ Prefix(buffer', p \o buffer)
    BY <1>0, <2>1, RequeuedFacts
  <2>4. Elements(buffer') \subseteq Elements(p) \cup Elements(buffer) /\ Elements(p) \subseteq Elements(batch[f])
    BY <1>0, <2>3, PrefixElements, ConcatElements
  <2>5. Stored \subseteq Stored' /\ Stored' \subseteq Stored \cup Elements(batch[f])
    BY <2>1, InsertedStored
  <2> QED
    BY <2>2, <2>4, <2>5 DEF Waiting
<1> QED
  BY <1>5, <1>6, <1>7 DEF Flush

LEMMA StopProgress == ASSUME IInv, Stop PROVE Progress
<1>1. TypeOK /\ accepted \in Nat /\ Loop \in Flushers
  BY DEF IInv, TypeOK, Flushers
<1>2. /\ batch' = [batch EXCEPT ![Loop] = << >>] /\ buffer' = buffer /\ accepted' = accepted
      /\ table' = table \/ table' = Inserted(Loop)
  BY DEF Stop, NoRecords
<1>3. InFlight' \subseteq InFlight /\ Elements(batch[Loop]) \subseteq InFlight
  BY <1>1, <1>2, LetsGo
<1>5. Stored \subseteq Stored' /\ Stored' \subseteq Stored \cup Elements(batch[Loop])
  BY <1>1, <1>2, InsertedStored
<1>6. accepted <= accepted' /\ \A r \in 1..accepted' : ~(r > accepted)
  BY <1>1, <1>2
<1>7. Waiting' = Elements(buffer) \cup InFlight'
  BY <1>2 DEF Waiting, Elements, InFlight
<1> QED
  BY <1>3, <1>5, <1>6, <1>7 DEF Progress, Waiting

LEMMA StepProgress == ASSUME IInv, [Next]_vars PROVE Progress
<1>1. CASE UNCHANGED <<buffer, batch, table, accepted>>
  <2>1. accepted <= accepted' /\ \A r \in 1..accepted' : ~(r > accepted)
    BY <1>1 DEF IInv, TypeOK
  <2>2. Stored' = Stored /\ Waiting' = Waiting
    BY <1>1 DEF Waiting, InFlight, Stored
  <2> QED
    BY <2>1, <2>2 DEF Progress
<1>2. CASE Start \/ NothingToFlush \/ UNCHANGED vars
  BY <1>1, <1>2 DEF Start, NothingToFlush, vars
<1> QED
  BY <1>2, EnqueueProgress, FlushProgress, StopProgress DEF Next

(* A record is written once, and again only for a commit that took effect  *)
(* and raised: a batch that is in the table is nowhere else, unless the    *)
(* writer was told that its commit had failed.                             *)
LEMMA OnceKeeps == IInv /\ WrittenOnce /\ [Next]_vars => WrittenOnce'
<1> SUFFICES ASSUME IInv, WrittenOnce, [Next]_vars PROVE WrittenOnce'
  OBVIOUS
<1> DEFINE R == 1..MaxRecords
<1>1. TypeOK /\ Owned /\ Accepted /\ table \in [R -> Nat] /\ repeats \in [R -> Nat]
  BY DEF IInv, TypeOK
<1>2. \A r \in Waiting' : r \in Waiting \/ r > accepted
  BY StepProgress DEF Progress
<1>3. CASE UNCHANGED <<table, repeats>>
  <2>1. \A r \in R : r > accepted => table[r] = 0
    BY <1>1 DEF Accepted
  <2> QED
    BY <1>1, <1>2, <1>3, <2>1 DEF WrittenOnce
<1>4. ASSUME NEW f \in Flushers, batch' = [batch EXCEPT ![f] = << >>], table' = Inserted(f),
             UNCHANGED <<buffer, accepted, repeats>>
      PROVE  WrittenOnce'
  <2>1. \A g \in Flushers : batch'[g] = IF g = f THEN << >> ELSE batch[g]
    BY <1>1, <1>4 DEF TypeOK
  <2>2. Waiting' = Elements(buffer) \cup UNION {Elements(batch'[g]) : g \in Flushers}
    BY <1>4 DEF Waiting, InFlight, Elements
  <2>3. Elements(<< >>) = {}
    BY EmptyFacts DEF Elements
  <2>4. ASSUME NEW r \in Elements(batch[f]), r \in Waiting' PROVE FALSE
    <3>1. CASE r \in Elements(buffer)
      BY <1>1, <2>4, <3>1 DEF Owned, Apart, Elements
    <3>2. ASSUME NEW g \in Flushers, r \in Elements(batch'[g]) PROVE FALSE
      <4>1. g # f /\ r \in Elements(batch[g])
        BY <2>1, <2>3, <3>2
      <4> QED
        BY <1>1, <2>4, <4>1 DEF Owned, Apart, Elements
    <3> QED
      BY <2>2, <2>4, <3>1, <3>2
  <2>5. Waiting' \subseteq Waiting /\ Elements(batch[f]) \subseteq Waiting
    <3>1. InFlight' \subseteq InFlight /\ Elements(batch[f]) \subseteq InFlight
      BY <1>1, <1>4, LetsGo
    <3>2. Waiting' = Elements(buffer) \cup InFlight'
      BY <1>4 DEF Waiting, InFlight, Elements
    <3> QED
      BY <3>1, <3>2 DEF Waiting
  <2>6. \A r \in R : table'[r] = IF r \in Elements(batch[f]) THEN table[r] + 1 ELSE table[r]
    BY <1>1, <1>4, InsertedFacts
  <2> QED
    BY <1>1, <1>4, <2>4, <2>5, <2>6 DEF WrittenOnce
<1>5. ASSUME NEW f \in Flushers, FlushCommits(f) PROVE WrittenOnce'
  BY <1>4, <1>5 DEF FlushCommits, FlushEnds, NoRecords
<1>6. ASSUME NEW f \in Flushers, FlushFails(f), ~UNCHANGED <<table, repeats>> PROVE WrittenOnce'
  <2>1. /\ table' = Inserted(f) /\ repeats' = [r \in R |-> repeats[r] + Copies(batch[f], r)]
        /\ accepted' = accepted /\ batch' = [batch EXCEPT ![f] = << >>]
    BY <1>6 DEF FlushFails, FlushEnds, NoRecords
  <2>2. ASSUME NEW r \in R
        PROVE  IF r \in Elements(batch[f]) THEN table'[r] = table[r] + 1 /\ repeats'[r] = repeats[r] + 1
               ELSE table'[r] = table[r] /\ repeats'[r] = repeats[r]
    <3>1. Copies(batch[f], r) = IF r \in Elements(batch[f]) THEN 1 ELSE 0
      BY <1>1, CopiesFacts DEF Owned
    <3> QED
      BY <1>1, <2>1, <3>1, InsertedFacts
  <2>3. Elements(batch[f]) \subseteq Waiting
    BY <1>1, <2>1, LetsGo DEF Waiting
  <2>4. \A r \in R : r > accepted => table[r] = 0 /\ r \notin Elements(batch[f])
    <3>1. accepted \in Nat /\ UpTo(accepted, batch[f]) /\ \A r \in R : r > accepted => table[r] = 0
      BY <1>1 DEF Accepted, TypeOK
    <3> QED
      BY <3>1 DEF UpTo, Elements
  <2> QED
    BY <1>1, <1>2, <2>2, <2>3, <2>4 DEF WrittenOnce
<1>7. CASE Stop /\ ~UNCHANGED <<table, repeats>>
  <2>1. Loop \in Flushers
    BY DEF Flushers
  <2> QED
    BY <1>4, <1>7, <2>1 DEF Stop, NoRecords
<1>8. UNCHANGED <<table, repeats>> \/ Stop \/ \E f \in Flushers : FlushCommits(f) \/ FlushFails(f)
  BY DEF Next, Flush, Start, Enqueue, NothingToFlush, TakeAll, vars
<1> QED
  BY <1>3, <1>5, <1>6, <1>7, <1>8

(* No record is written twice, and none waits that is written already,     *)
(* except after a commit that took effect and raised, however flushes of   *)
(* the loop, the callers and stop overlap, fail or are cancelled           *)
(* (batch_writer.py:284-358).                                              *)
THEOREM AlwaysWrittenOnce == Spec => []WrittenOnce
<1>1. Init => WrittenOnce
  BY DEF Init, WrittenOnce
<1> QED
  BY InitIInv, NextKeeps, OnceKeeps, <1>1, PTL DEF Spec

-----------------------------------------------------------------------------
(* What is stored or waits was accepted. *)
Apportioned ==
  /\ accepted \in Nat
  /\ \A r \in Stored \cup Waiting : r <= accepted

LEMMA AlwaysApportioned == IInv => Apportioned
<1> SUFFICES ASSUME IInv PROVE Apportioned
  OBVIOUS
<1>1. accepted \in Nat /\ \A r \in Stored : r <= accepted
  BY DEF IInv, TypeOK, Accepted, Stored
<1>2. ASSUME NEW r \in Waiting PROVE r <= accepted
  <2>1. CASE r \in Elements(buffer)
    BY <2>1 DEF IInv, Accepted, UpTo, Elements
  <2>2. CASE r \in InFlight
    <3>1. PICK f \in Flushers : r \in Elements(batch[f])
      BY <2>2 DEF InFlight
    <3> QED
      BY <3>1 DEF IInv, Accepted, UpTo, Elements
  <2> QED
    BY <1>2, <2>1, <2>2 DEF Waiting
<1> QED
  BY <1>1, <1>2 DEF Apportioned

(* The four statuses, in terms of where a record is. *)
LEMMA StatusFacts ==
  ASSUME NEW r
  PROVE  /\ r > accepted => Status(r) = "new"
         /\ ~(r > accepted) /\ r \in Stored => Status(r) = "stored"
         /\ ~(r > accepted) /\ r \notin Stored /\ r \in Waiting => Status(r) = "waiting"
         /\ ~(r > accepted) /\ r \notin Stored /\ r \notin Waiting => Status(r) = "lost"
  BY DEF Status, Waiting

(* The writer implements Delivery: whatever flushes overlap, fail or are   *)
(* cancelled, a record that waits goes on waiting, is stored or is lost,   *)
(* and a stored or lost one stays so (batch_writer.py:227-358).            *)
THEOREM ImplementsDelivery == Spec => Delivers
<1> DEFINE R == 1..MaxRecords
           S == [r \in R |-> Status(r)]
<1>1. Init => Promise!Init
  <2> SUFFICES ASSUME Init PROVE S = [r \in R |-> "new"]
    BY DEF Promise!Init
  <2>1. \A r \in R : Status(r) = "new"
    BY WriterAssumption DEF Init, Status
  <2> QED
    BY <2>1
<1>2. IInv /\ IInv' /\ [Next]_vars => [Promise!Next]_S
  <2> SUFFICES ASSUME IInv, IInv', [Next]_vars PROVE Promise!Next
    OBVIOUS
  <2>1. Progress
    BY StepProgress
  <2>2. Apportioned /\ Apportioned'
    BY AlwaysApportioned, PTL
  <2>4. S' = [r \in R |-> Status(r)']
    OBVIOUS
  <2>5. ASSUME NEW r \in R
        PROVE  Status(r)' \in Promise!After(Status(r)) /\ Status(r)' \in {"new", "waiting", "stored", "lost"}
    <3>1. /\ r > accepted' => Status(r)' = "new"
          /\ ~(r > accepted') /\ r \in Stored' => Status(r)' = "stored"
          /\ ~(r > accepted') /\ r \notin Stored' /\ r \in Waiting' => Status(r)' = "waiting"
          /\ ~(r > accepted') /\ r \notin Stored' /\ r \notin Waiting' => Status(r)' = "lost"
      BY DEF Status, Waiting, InFlight, Elements, Stored
    <3>2. r \in Nat /\ accepted \in Nat /\ accepted' \in Nat /\ accepted <= accepted'
      BY <2>1, <2>2 DEF Apportioned, Progress
    <3>3. CASE r > accepted
      <4>1. Status(r) = "new" /\ r \notin Stored \cup Waiting
        BY <2>2, <3>2, <3>3, StatusFacts DEF Apportioned
      <4>2. r \notin Stored'
        BY <2>1, <4>1 DEF Progress
      <4>3. ~(r > accepted') => r \in Waiting'
        BY <2>1, <3>2, <3>3 DEF Progress
      <4> QED
        BY <3>1, <4>1, <4>2, <4>3 DEF Promise!After
    <3>4. CASE ~(r > accepted)
      <4>1. ~(r > accepted')
        BY <3>2, <3>4
      <4>2. CASE r \in Stored
        BY <2>1, <3>1, <3>4, <4>1, <4>2, StatusFacts DEF Progress, Promise!After
      <4>3. CASE r \notin Stored /\ r \in Waiting
        BY <3>1, <3>4, <4>1, <4>3, StatusFacts DEF Promise!After
      <4>4. CASE r \notin Stored /\ r \notin Waiting
        <5>1. r \notin Stored' /\ r \notin Waiting'
          BY <2>1, <3>4, <4>4 DEF Progress
        <5> QED
          BY <3>1, <3>4, <4>1, <4>4, <5>1, StatusFacts DEF Promise!After
      <4> QED
        BY <4>2, <4>3, <4>4
    <3> QED
      BY <3>3, <3>4
  <2> QED
    BY <2>4, <2>5 DEF Promise!Next
<1> QED
  BY InitIInv, NextKeeps, <1>1, <1>2, PTL DEF Spec, Delivers, Promise!Spec
=============================================================================
