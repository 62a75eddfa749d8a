------------------------ MODULE AlertDeliveryProofs ------------------------
(* Proofs about AlertDelivery, for any recipients, channels and subjects,  *)
(* any cap, window, hour, number of attempts and queue size.               *)
EXTENDS AlertDelivery, FiniteSetTheorems, TLAPS

(* Newer entries stand behind older ones. *)
Order(s) == \A i, n \in DOMAIN s : i < n => s[i].age >= s[n].age

(* Counted from the newest, and but for the d newest of s, every entry of  *)
(* s has one of h that is not older.                                       *)
Covers(h, s, d) ==
  /\ Len(s) <= Len(h) + d
  /\ \A i \in d..(Len(s) - 1) : h[Len(h) + d - i].age <= s[Len(s) - i].age

Pending(d) == IF d.through THEN 1 ELSE 0

(* What the throttle remembers (h) covers what was sent to the recipient   *)
(* (s), except for the alert the dispatch d has not recorded yet; and who  *)
(* is still sending was below the cap.                                     *)
Counted(w, h, s, d) ==
  /\ Order(h) /\ Order(s)
  /\ Len(s) <= MaxPerHour
  /\ w # "stopped" =>
       /\ Covers(h, s, Pending(d))
       /\ (d.stage = "send" /\ ~d.through) => Len(s) < MaxPerHour

Pairs(s) ==
  \A i, n \in DOMAIN s :
    (i < n /\ s[i].key = s[n].key /\ ~Exempt(s[i].key)) => s[i].age >= s[n].age + Window

Recorded(s, d, win, k) ==
  \A i \in DOMAIN s :
    ~Exempt(s[i].key) => \/ win[s[i].key] <= s[i].age
                         \/ d.through /\ i = Len(s) /\ s[i].key = k

Free(s, d, k) ==
  (d.stage = "send" /\ ~d.through /\ ~Exempt(k)) =>
    \A i \in DOMAIN s : s[i].key = k => s[i].age >= Window

Spaced(w, s, d, win, k) ==
  Pairs(s) /\ (w # "stopped" => Recorded(s, d, win, k) /\ Free(s, d, k))

Shape ==
  /\ worker = "busy" => job \in Jobs
  /\ \A r \in Recipients : /\ dispatch[r].through => dispatch[r].stage = "send"
                           /\ dispatch[r].through => dispatch[r].arrived
                           /\ dispatch[r].stage # "idle" => worker = "busy"

Good(r) ==
  /\ Counted(worker, hourly[r], sent[r], dispatch[r])
  /\ Spaced(worker, sent[r], dispatch[r], window, Key(r))

IInv ==
  /\ TypeOK
  /\ Shape
  /\ \A r \in Recipients : Good(r)

Stamps == [age : 0..(Hour - 1)]

-----------------------------------------------------------------------------
(* Sequences. *)
LEMMA SeqFacts ==
  ASSUME NEW S, NEW s \in Seq(S)
  PROVE  Len(s) \in Nat /\ DOMAIN s = 1..Len(s) /\ \A i \in DOMAIN s : s[i] \in S
  OBVIOUS

LEMMA AppendFacts ==
  ASSUME NEW S, NEW s \in Seq(S), NEW e \in S
  PROVE  /\ Append(s, e) \in Seq(S) /\ Len(Append(s, e)) = Len(s) + 1
         /\ DOMAIN Append(s, e) = 1..(Len(s) + 1)
         /\ \A i \in 1..Len(s) : Append(s, e)[i] = s[i]
         /\ Append(s, e)[Len(s) + 1] = e
  OBVIOUS

LEMMA TailFacts ==
  ASSUME NEW S, NEW s \in Seq(S), s # << >>
  PROVE  Len(s) \in Nat /\ Tail(s) \in Seq(S) /\ Len(Tail(s)) <= Len(s) /\ Head(s) \in S
  OBVIOUS

LEMMA EmptyFacts ==
  ASSUME NEW S
  PROVE  << >> \in Seq(S) /\ Len(<< >>) = 0 /\ DOMAIN << >> = {}
  OBVIOUS

LEMMA SeqOf ==
  ASSUME NEW S, NEW n \in Nat, NEW f, f = [i \in 1..n |-> f[i]], \A i \in 1..n : f[i] \in S
  PROVE  f \in Seq(S) /\ Len(f) = n
  OBVIOUS

(* Entries carry an age, and stay entries while they are young. *)
AgesIn(S) ==
  \A x \in S : /\ x.age \in Nat /\ [x EXCEPT !.age = @ + 1].age = x.age + 1
               /\ x.age + 1 < Hour => [x EXCEPT !.age = @ + 1] \in S

LEMMA AgesInBoth == AgesIn(Stamps) /\ AgesIn(Entry)
<1>1. ASSUME NEW x \in Stamps
      PROVE  /\ x.age \in Nat /\ [x EXCEPT !.age = @ + 1].age = x.age + 1
             /\ x.age + 1 < Hour => [x EXCEPT !.age = @ + 1] \in Stamps
  BY DeliveryAssumption DEF Stamps
<1>2. ASSUME NEW x \in Entry
      PROVE  /\ x.age \in Nat /\ [x EXCEPT !.age = @ + 1].age = x.age + 1
             /\ x.age + 1 < Hour => [x EXCEPT !.age = @ + 1] \in Entry
  BY DeliveryAssumption DEF Entry
<1> QED
  BY <1>1, <1>2 DEF AgesIn

LEMMA EntryFacts ==
  ASSUME NEW s \in Seq(Entry)
  PROVE  /\ Len(s) \in Nat /\ DOMAIN s = 1..Len(s)
         /\ \A i \in DOMAIN s : s[i] \in Entry /\ s[i].age \in Nat /\ s[i].key \in Keys
<1>1. \A x \in Entry : x.age \in Nat /\ x.key \in Keys
  BY AgesInBoth DEF AgesIn, Entry
<1> QED
  BY <1>1, SeqFacts

(* Forgetting drops the k oldest entries; the others are one tick older. *)
Forgets(S, s, k) ==
  /\ Older(s) \in Seq(S) /\ Len(Older(s)) = Len(s) - k /\ DOMAIN Older(s) = 1..(Len(s) - k)
  /\ \A i \in 1..(Len(s) - k) : /\ k + i \in DOMAIN s
                                /\ Older(s)[i] = [s[k + i] EXCEPT !.age = @ + 1]
                                /\ Older(s)[i].age = s[k + i].age + 1
                                /\ s[k + i].age + 1 < Hour
  /\ \A i \in DOMAIN s : s[i].age + 1 < Hour => i > k

LEMMA OlderFacts ==
  ASSUME NEW S, AgesIn(S), NEW s \in Seq(S), Order(s)
  PROVE  \E k \in 0..Len(s) : Forgets(S, s, k)
<1> DEFINE L == Len(s)
           Y == Young(s)
           n == Cardinality(Y)
           tail == (L - n + 1)..L
<1>1. L \in Nat /\ DOMAIN s = 1..L /\ \A i \in DOMAIN s : s[i] \in S /\ s[i].age \in Nat
  BY SeqFacts DEF AgesIn
<1>2. Y \subseteq 1..L
  BY <1>1 DEF Young
<1>3. IsFiniteSet(1..L) /\ Cardinality(1..L) = L
  <2>1. IsFiniteSet(1..L) /\ Cardinality(1..L) = IF 1 > L THEN 0 ELSE L - 1 + 1
    BY <1>1, FS_Interval
  <2> QED
    BY <1>1, <2>1
<1>4. IsFiniteSet(Y) /\ n \in Nat /\ n <= L
  BY <1>2, <1>3, FS_Subset, FS_CardinalityType
<1>5. IsFiniteSet(tail) /\ Cardinality(tail) = n
  <2>1. L - n + 1 \in Int /\ L \in Int
    BY <1>1, <1>4
  <2>2. IsFiniteSet(tail) /\ Cardinality(tail) = IF L - n + 1 > L THEN 0 ELSE L - (L - n + 1) + 1
    BY <2>1, FS_Interval
  <2> HIDE DEF n
  <2> QED
    BY <1>1, <1>4, <2>2
<1>6. ASSUME NEW i \in Y PROVE i \in tail
  <2>1. i \in 1..L /\ s[i].age + 1 < Hour
    BY <1>1 DEF Young
  <2>2. i..L \subseteq Y
    <3> SUFFICES ASSUME NEW j \in i..L PROVE j \in Y
      OBVIOUS
    <3>1. j \in DOMAIN s /\ i \in DOMAIN s /\ (i < j \/ i = j)
      BY <1>1, <2>1
    <3>2. s[j].age <= s[i].age /\ s[j].age \in Nat /\ s[i].age \in Nat
      BY <1>1, <3>1 DEF Order
    <3> QED
      BY <2>1, <3>1, <3>2, DeliveryAssumption DEF Young
  <2>3. Cardinality(i..L) = L - i + 1
    <3>1. i \in Int /\ L \in Int /\ ~(i > L)
      BY <1>1, <2>1
    <3> QED
      BY <3>1, FS_Interval
  <2>4. Cardinality(i..L) <= n
    BY <1>4, <2>2, FS_Subset
  <2> HIDE DEF n
  <2> QED
    BY <1>1, <1>4, <2>1, <2>3, <2>4
<1>7. Y = tail
  <2>1. Y \in SUBSET tail
    BY <1>6
  <2> QED
    BY <1>5, <2>1, FS_Subset
<1>8. Older(s) = [i \in 1..n |-> [s[L - n + i] EXCEPT !.age = @ + 1]]
  BY DEF Older
<1> HIDE DEF n, L
<1>9. \A i \in 1..L : i \in Y <=> i > L - n
  BY <1>1, <1>4, <1>7
<1>10. \A i \in DOMAIN s : i \in Y <=> s[i].age + 1 < Hour
  BY DEF Young
<1> HIDE DEF Y, tail
<1>11. L - n \in 0..L /\ L - (L - n) = n
  BY <1>1, <1>4
<1>12. \A i \in 1..n : L - n + i \in DOMAIN s /\ s[L - n + i].age + 1 < Hour
  <2> SUFFICES ASSUME NEW i \in 1..n PROVE L - n + i \in DOMAIN s /\ s[L - n + i].age + 1 < Hour
    OBVIOUS
  <2>1. L - n + i \in 1..L /\ L - n + i > L - n
    BY <1>1, <1>4
  <2> QED
    BY <1>1, <1>9, <1>10, <2>1
<1>13. \A i \in DOMAIN s : s[i].age + 1 < Hour => i > L - n
  BY <1>1, <1>9, <1>10
<1>14. DOMAIN Older(s) = 1..n /\ \A i \in 1..n : Older(s)[i] = [s[L - n + i] EXCEPT !.age = @ + 1]
  BY <1>8
<1>15. \A i \in 1..n : Older(s)[i] \in S /\ Older(s)[i].age = s[L - n + i].age + 1
  BY <1>1, <1>12, <1>14 DEF AgesIn
<1>16. Older(s) \in Seq(S) /\ Len(Older(s)) = n
  <2>1. Older(s) = [i \in 1..n |-> Older(s)[i]]
    BY <1>8
  <2> QED
    BY <1>4, <1>15, <2>1, SeqOf
<1> QED
  BY <1>11, <1>12, <1>13, <1>14, <1>15, <1>16 DEF L, Forgets

(* One tick changes nothing about how ordered sequences compare. *)
LEMMA OrderOlder ==
  ASSUME NEW S, AgesIn(S), NEW s \in Seq(S), Order(s)
  PROVE  Order(Older(s))
<1>0. PICK k \in 0..Len(s) : Forgets(S, s, k)
  BY OlderFacts
<1>1. /\ DOMAIN Older(s) = 1..(Len(s) - k)
      /\ \A i \in 1..(Len(s) - k) : k + i \in DOMAIN s /\ Older(s)[i].age = s[k + i].age + 1
  BY <1>0 DEF Forgets
<1>2. SUFFICES ASSUME NEW i \in 1..(Len(s) - k), NEW n \in 1..(Len(s) - k), i < n
               PROVE  Older(s)[i].age >= Older(s)[n].age
  BY <1>1 DEF Order
<1>3. Len(s) \in Nat /\ \A j \in DOMAIN s : s[j].age \in Nat
  BY SeqFacts DEF AgesIn
<1>4. k + i \in DOMAIN s /\ k + n \in DOMAIN s /\ k + i < k + n
  BY <1>1, <1>2, <1>3
<1>5. s[k + i].age >= s[k + n].age
  BY <1>4 DEF Order
<1> QED
  BY <1>1, <1>3, <1>4, <1>5

LEMMA CoversOlder ==
  ASSUME NEW h \in Seq(Stamps), NEW s \in Seq(Entry), Order(h), Order(s),
         NEW d \in {0, 1}, Covers(h, s, d)
  PROVE  Covers(Older(h), Older(s), d) /\ Len(Older(s)) <= Len(s)
<1>0. (\E k \in 0..Len(h) : Forgets(Stamps, h, k)) /\ (\E m \in 0..Len(s) : Forgets(Entry, s, m))
  BY OlderFacts, AgesInBoth
<1>k. PICK k \in 0..Len(h) : Forgets(Stamps, h, k)
  BY <1>0
<1>m. PICK m \in 0..Len(s) : Forgets(Entry, s, m)
  BY <1>0
<1>1. /\ Len(Older(h)) = Len(h) - k
      /\ \A i \in 1..(Len(h) - k) : k + i \in DOMAIN h /\ Older(h)[i].age = h[k + i].age + 1
      /\ \A i \in DOMAIN h : h[i].age + 1 < Hour => i > k
  BY <1>k DEF Forgets
<1>2. /\ Len(Older(s)) = Len(s) - m
      /\ \A i \in 1..(Len(s) - m) : /\ m + i \in DOMAIN s /\ Older(s)[i].age = s[m + i].age + 1
                                    /\ s[m + i].age + 1 < Hour
  BY <1>m DEF Forgets
<1>3. /\ Len(h) \in Nat /\ DOMAIN h = 1..Len(h) /\ \A i \in DOMAIN h : h[i].age \in Nat
      /\ Len(s) \in Nat /\ DOMAIN s = 1..Len(s) /\ \A i \in DOMAIN s : s[i].age \in Nat
  BY SeqFacts, AgesInBoth DEF AgesIn
<1>1a. \A j \in DOMAIN h : j > k => Older(h)[j - k].age = h[j].age + 1
  <2> SUFFICES ASSUME NEW j \in DOMAIN h, j > k PROVE Older(h)[j - k].age = h[j].age + 1
    OBVIOUS
  <2>1. j - k \in 1..(Len(h) - k) /\ k + (j - k) = j
    BY <1>3
  <2> QED
    BY <1>1, <2>1
<1>2a. \A j \in DOMAIN s : j > m => /\ Older(s)[j - m].age = s[j].age + 1
                                     /\ s[j].age + 1 < Hour
  <2> SUFFICES ASSUME NEW j \in DOMAIN s, j > m
               PROVE  Older(s)[j - m].age = s[j].age + 1 /\ s[j].age + 1 < Hour
    OBVIOUS
  <2>1. j - m \in 1..(Len(s) - m) /\ m + (j - m) = j
    BY <1>3
  <2> QED
    BY <1>2, <2>1
<1>4. ASSUME NEW i \in d..(Len(s) - m - 1)
      PROVE  /\ Len(h) - k + d - i >= 1
             /\ Older(h)[Len(h) - k + d - i].age <= Older(s)[Len(s) - m - i].age
  <2> DEFINE p == Len(h) + d - i
             q == Len(s) - i
  <2>1. /\ i \in d..(Len(s) - 1) /\ p \in DOMAIN h /\ q \in DOMAIN s /\ q > m
        /\ p \in Int /\ q \in Int
    BY <1>3 DEF Covers
  <2>2. h[p].age <= s[q].age
    BY <2>1 DEF Covers
  <2>3. /\ Len(h) - k + d - i = p - k /\ Len(s) - m - i = q - m
        /\ k \in Int /\ m \in Int
    BY <1>3
  <2> HIDE DEF p, q
  <2>4. Older(s)[q - m].age = s[q].age + 1 /\ s[q].age + 1 < Hour
    BY <1>2a, <2>1
  <2>5. h[p].age \in Nat /\ s[q].age \in Nat /\ Hour \in Nat
    <3>1. Hour \in Nat
      BY DeliveryAssumption
    <3> QED
      BY <1>3, <2>1, <3>1
  <2>6. h[p].age + 1 < Hour
    <3>1. \A a, b, c \in Nat : a <= b /\ b + 1 < c => a + 1 < c
      OBVIOUS
    <3> QED
      BY <2>2, <2>4, <2>5, <3>1
  <2>7. p > k
    BY <1>1, <2>1, <2>6
  <2>8. Older(h)[p - k].age = h[p].age + 1
    BY <1>1a, <2>1, <2>7
  <2>9. h[p].age + 1 <= s[q].age + 1
    <3>1. \A a, b \in Nat : a <= b => a + 1 <= b + 1
      OBVIOUS
    <3> QED
      BY <2>2, <2>5, <3>1
  <2>10. Older(h)[p - k].age <= Older(s)[q - m].age
    BY <2>4, <2>8, <2>9
  <2>11. p - k >= 1
    BY <2>1, <2>3, <2>7
  <2> QED
    BY <2>3, <2>10, <2>11
<1>5. Len(s) - m <= Len(h) - k + d
  <2>1. CASE Len(s) - m - 1 < d
    BY <1>3, <2>1
  <2>2. CASE Len(s) - m - 1 >= d
    <3>1. Len(s) - m - 1 \in d..(Len(s) - m - 1)
      BY <1>3, <2>2
    <3>2. Len(h) - k + d - (Len(s) - m - 1) >= 1
      BY <1>4, <3>1
    <3> QED
      BY <1>3, <3>2
  <2> QED
    BY <1>3, <2>1, <2>2
<1>6. Len(Older(s)) <= Len(s)
  BY <1>2, <1>3
<1> QED
  BY <1>1, <1>2, <1>4, <1>5, <1>6 DEF Covers

LEMMA CountedOlder ==
  ASSUME NEW w, NEW h \in Seq(Stamps), NEW s \in Seq(Entry), NEW d, Counted(w, h, s, d)
  PROVE  Counted(w, Older(h), Older(s), d)
<1>1. Order(h) /\ Order(s) /\ Order(Older(h)) /\ Order(Older(s))
  BY OrderOlder, AgesInBoth DEF Counted
<1>2. Len(Older(s)) \in Nat /\ Len(s) \in Nat /\ Len(Older(s)) <= Len(s)
  <2>1. PICK m \in 0..Len(s) : Forgets(Entry, s, m)
    BY <1>1, OlderFacts, AgesInBoth
  <2>2. Len(Older(s)) = Len(s) - m /\ Len(s) \in Nat
    BY <2>1, SeqFacts DEF Forgets
  <2> QED
    BY <2>2
<1>3. Len(Older(s)) <= MaxPerHour /\ (Len(s) < MaxPerHour => Len(Older(s)) < MaxPerHour)
  BY <1>2, DeliveryAssumption DEF Counted
<1>4. ASSUME w # "stopped" PROVE Covers(Older(h), Older(s), Pending(d))
  <2>1. Covers(h, s, Pending(d)) /\ Pending(d) \in {0, 1}
    BY <1>4 DEF Counted, Pending
  <2> QED
    BY <1>1, <2>1, CoversOlder
<1> QED
  BY <1>1, <1>3, <1>4 DEF Counted

(* An alert recorded now covers the newest one that was not covered.       *)
LEMMA CoversRecord ==
  ASSUME NEW h \in Seq(Stamps), NEW s \in Seq(Entry), Order(h),
         NEW d \in {0, 1}, Covers(h, s, d)
  PROVE  Covers(Append(h, [age |-> 0]), s, 0) /\ Order(Append(h, [age |-> 0]))
<1> DEFINE e == [age |-> 0]
           t == Append(h, e)
<1>1. e \in Stamps /\ e.age = 0
  BY DeliveryAssumption DEF Stamps
<1>2. /\ Len(t) = Len(h) + 1 /\ DOMAIN t = 1..(Len(h) + 1) /\ t[Len(h) + 1].age = 0
      /\ \A i \in 1..Len(h) : t[i] = h[i]
  BY <1>1, AppendFacts
<1>3. /\ Len(h) \in Nat /\ DOMAIN h = 1..Len(h) /\ \A i \in DOMAIN h : h[i].age \in Nat
      /\ Len(s) \in Nat /\ DOMAIN s = 1..Len(s) /\ \A i \in DOMAIN s : s[i].age \in Nat
  BY SeqFacts, AgesInBoth DEF AgesIn
<1> HIDE DEF t, e
<1>4. Order(t)
  <2> SUFFICES ASSUME NEW i \in 1..(Len(h) + 1), NEW n \in 1..(Len(h) + 1), i < n
               PROVE  t[i].age >= t[n].age
    BY <1>2 DEF Order
  <2>1. i \in 1..Len(h) /\ t[i] = h[i] /\ h[i].age \in Nat
    BY <1>2, <1>3
  <2>2. CASE n = Len(h) + 1
    BY <1>2, <2>1, <2>2
  <2>3. CASE n \in 1..Len(h)
    BY <1>2, <1>3, <2>1, <2>3 DEF Order
  <2> QED
    BY <1>3, <2>2, <2>3
<1>5. ASSUME NEW i \in 0..(Len(s) - 1) PROVE t[Len(t) + 0 - i].age <= s[Len(s) - i].age
  <2>0. Len(s) - i \in DOMAIN s /\ s[Len(s) - i].age \in Nat /\ Len(s) <= Len(h) + d
    BY <1>3 DEF Covers
  <2>1. CASE i = 0
    <3>1. t[Len(t) + 0 - i].age = 0
      BY <1>2, <1>3, <2>1
    <3> QED
      BY <2>0, <3>1
  <2>2. CASE i # 0
    <3>1. Len(h) + 1 - i \in 1..Len(h) /\ Len(t) + 0 - i = Len(h) + 1 - i
      BY <1>2, <1>3, <2>0, <2>2
    <3>2. t[Len(t) + 0 - i] = h[Len(h) + 1 - i] /\ h[Len(h) + 1 - i].age \in Nat
      BY <1>2, <1>3, <3>1
    <3>3. CASE d = 1
      <4>1. i \in 1..(Len(s) - 1)
        BY <1>3, <2>2
      <4> QED
        BY <3>2, <3>3, <4>1 DEF Covers
    <3>4. CASE d = 0
      <4>1. Len(h) - i \in 1..Len(h) /\ Len(h) - i < Len(h) + 1 - i /\ Len(h) + d - i = Len(h) - i
        <5>1. i \in Nat /\ i <= Len(s) - 1 /\ i >= 1 /\ Len(s) <= Len(h) /\ Len(s) \in Nat /\ Len(h) \in Nat
          BY <1>3, <2>0, <2>2, <3>4
        <5>2. Len(h) - i >= 1 /\ Len(h) - i <= Len(h) /\ Len(h) - i \in Int
          BY <5>1
        <5>3. Len(h) - i < Len(h) + 1 - i
          BY <5>1
        <5>4. Len(h) + d - i = Len(h) - i
          BY <3>4, <5>1
        <5> QED
          BY <5>1, <5>2, <5>3, <5>4
      <4>2. h[Len(h) + 1 - i].age <= h[Len(h) - i].age
        BY <1>3, <3>1, <4>1 DEF Order
      <4>3. h[Len(h) - i].age <= s[Len(s) - i].age /\ h[Len(h) - i].age \in Nat
        BY <1>3, <3>4, <4>1 DEF Covers
      <4> QED
        BY <2>0, <3>2, <4>2, <4>3
    <3> QED
      BY <3>3, <3>4
  <2> QED
    BY <2>1, <2>2
<1>6. Len(s) <= Len(t) + 0
  BY <1>2, <1>3 DEF Covers
<1> QED
  BY <1>4, <1>5, <1>6 DEF Covers, t, e

(* An alert that comes through now is the one that is not covered yet.     *)
LEMMA CoversReach ==
  ASSUME NEW h \in Seq(Stamps), NEW s \in Seq(Entry), Order(s), Covers(h, s, 0),
         NEW e \in Entry, e.age = 0
  PROVE  Covers(h, Append(s, e), 1) /\ Order(Append(s, e)) /\ Len(Append(s, e)) = Len(s) + 1
<1> DEFINE t == Append(s, e)
<1>1. /\ Len(t) = Len(s) + 1 /\ DOMAIN t = 1..(Len(s) + 1) /\ t[Len(s) + 1] = e
      /\ \A i \in 1..Len(s) : t[i] = s[i]
  BY AppendFacts
<1>2. /\ Len(h) \in Nat /\ Len(s) \in Nat /\ DOMAIN s = 1..Len(s)
      /\ \A i \in DOMAIN s : s[i].age \in Nat
  BY SeqFacts, AgesInBoth DEF AgesIn
<1> HIDE DEF t
<1>3. Order(t)
  <2> SUFFICES ASSUME NEW i \in 1..(Len(s) + 1), NEW n \in 1..(Len(s) + 1), i < n
               PROVE  t[i].age >= t[n].age
    BY <1>1 DEF Order
  <2>1. i \in 1..Len(s) /\ t[i] = s[i] /\ s[i].age \in Nat
    BY <1>1, <1>2
  <2>2. CASE n = Len(s) + 1
    BY <1>1, <2>1, <2>2
  <2>3. CASE n \in 1..Len(s)
    BY <1>1, <1>2, <2>1, <2>3 DEF Order
  <2> QED
    BY <1>2, <2>2, <2>3
<1>4. ASSUME NEW i \in 1..(Len(t) - 1) PROVE h[Len(h) + 1 - i].age <= t[Len(t) - i].age
  <2>1. i - 1 \in 0..(Len(s) - 1) /\ Len(h) + 0 - (i - 1) = Len(h) + 1 - i
        /\ Len(t) - i = Len(s) - (i - 1) /\ Len(s) - (i - 1) \in 1..Len(s)
    BY <1>1, <1>2
  <2>2. h[Len(h) + 0 - (i - 1)].age <= s[Len(s) - (i - 1)].age
    BY <2>1 DEF Covers
  <2> QED
    BY <1>1, <2>1, <2>2
<1>5. Len(t) <= Len(h) + 1
  BY <1>1, <1>2 DEF Covers
<1> QED
  BY <1>1, <1>3, <1>4, <1>5 DEF Covers, t

LEMMA SpacedOlder ==
  ASSUME NEW w, NEW s \in Seq(Entry), Order(s), NEW d, NEW k,
         NEW win \in [Keys -> 0..Window], NEW win2 \in [Keys -> 0..Window],
         \A x \in Keys : win2[x] <= win[x] + 1,
         Spaced(w, s, d, win, k)
  PROVE  Spaced(w, Older(s), d, win2, k)
<1> DEFINE t == Older(s)
<1>0. PICK m \in 0..Len(s) : Forgets(Entry, s, m)
  BY OlderFacts, AgesInBoth
<1>1. /\ Len(t) = Len(s) - m /\ DOMAIN t = 1..(Len(s) - m)
      /\ \A i \in 1..(Len(s) - m) : /\ m + i \in DOMAIN s /\ t[i] = [s[m + i] EXCEPT !.age = @ + 1]
                                    /\ t[i].age = s[m + i].age + 1
  BY <1>0 DEF Forgets
<1>2. Len(s) \in Nat /\ \A i \in DOMAIN s : s[i] \in Entry /\ s[i].age \in Nat /\ s[i].key \in Keys
  BY EntryFacts
<1>3. \A i \in 1..(Len(s) - m) : t[i].key = s[m + i].key
  BY <1>1, <1>2 DEF Entry
<1> HIDE DEF t
<1>4. Pairs(t)
  <2> SUFFICES ASSUME NEW i \in DOMAIN t, NEW n \in DOMAIN t, i < n, t[i].key = t[n].key, ~Exempt(t[i].key)
               PROVE  t[i].age >= t[n].age + Window
    BY DEF Pairs
  <2>1. m + i \in DOMAIN s /\ m + n \in DOMAIN s /\ m + i < m + n
    BY <1>1, <1>2
  <2>2. s[m + i].age >= s[m + n].age + Window
    BY <1>1, <1>3, <2>1 DEF Spaced, Pairs
  <2>3. /\ t[i].age = s[m + i].age + 1 /\ t[n].age = s[m + n].age + 1
        /\ s[m + i].age \in Nat /\ s[m + n].age \in Nat
    BY <1>1, <1>2, <2>1
  <2> QED
    BY <2>2, <2>3, DeliveryAssumption
<1>5. ASSUME w # "stopped" PROVE Recorded(t, d, win2, k)
  <2> SUFFICES ASSUME NEW i \in DOMAIN t, ~Exempt(t[i].key)
               PROVE  win2[t[i].key] <= t[i].age \/ (d.through /\ i = Len(t) /\ t[i].key = k)
    BY DEF Recorded
  <2>1. /\ m + i \in DOMAIN s /\ t[i].key = s[m + i].key /\ t[i].age = s[m + i].age + 1
        /\ s[m + i].key \in Keys /\ s[m + i].age \in Nat
    BY <1>1, <1>2, <1>3
  <2>2. CASE win[s[m + i].key] <= s[m + i].age
    BY <2>1, <2>2, DeliveryAssumption
  <2>3. CASE d.through /\ m + i = Len(s) /\ s[m + i].key = k
    BY <1>1, <1>2, <2>1, <2>3
  <2> QED
    BY <1>5, <2>1, <2>2, <2>3 DEF Spaced, Recorded
<1>6. ASSUME w # "stopped" PROVE Free(t, d, k)
  <2> SUFFICES ASSUME d.stage = "send", ~d.through, ~Exempt(k), NEW i \in DOMAIN t, t[i].key = k
               PROVE  t[i].age >= Window
    BY DEF Free
  <2>1. m + i \in DOMAIN s /\ t[i].key = s[m + i].key /\ t[i].age = s[m + i].age + 1 /\ s[m + i].age \in Nat
    BY <1>1, <1>2, <1>3
  <2>2. s[m + i].age >= Window
    BY <1>6, <2>1 DEF Spaced, Free
  <2> QED
    BY <2>1, <2>2, DeliveryAssumption
<1> QED
  BY <1>4, <1>5, <1>6 DEF Spaced, t

(* A window that starts again hides nothing. *)
LEMMA SpacedLower ==
  ASSUME NEW w, NEW s \in Seq(Entry), NEW d, NEW k,
         NEW win \in [Keys -> 0..Window], NEW win2 \in [Keys -> 0..Window],
         \A x \in Keys : win2[x] <= win[x],
         Spaced(w, s, d, win, k)
  PROVE  Spaced(w, s, d, win2, k)
<1>1. \A i \in DOMAIN s : s[i].age \in Nat /\ s[i].key \in Keys
  BY EntryFacts
<1>2. Recorded(s, d, win, k) => Recorded(s, d, win2, k)
  BY <1>1, DeliveryAssumption DEF Recorded
<1> QED
  BY <1>2 DEF Spaced

-----------------------------------------------------------------------------
Dispatches == [stage : {"idle", "check", "send"}, left : Seq({"whatsapp", "email"}),
               tries : 0..(Attempts - 1), through : BOOLEAN, arrived : BOOLEAN]

Lasts == [Watched \X Subjects \X Severities -> 0..Window]

LEMMA Typed ==
  ASSUME TypeOK
  PROVE  /\ dispatch \in [Recipients -> Dispatches]
         /\ hourly \in [Recipients -> Seq(Stamps)]
         /\ window \in [Keys -> 0..Window]
         /\ sent \in [Recipients -> Seq(Entry)] /\ last \in Lasts
  BY DEF TypeOK, Dispatches, Stamps, Lasts

LEMMA AtFacts ==
  ASSUME NEW stage \in {"idle", "check", "send"}, NEW left \in Seq({"whatsapp", "email"})
  PROVE  At(stage, left) \in Dispatches /\ At(stage, left).stage = stage /\ ~At(stage, left).through
  BY DeliveryAssumption DEF At, Dispatches

LEMMA IdleFacts == Idle \in Dispatches /\ Idle.stage = "idle" /\ ~Idle.through
  BY AtFacts, EmptyFacts DEF Idle

LEMMA InitIInv == Init => IInv
<1> SUFFICES ASSUME Init PROVE IInv
  OBVIOUS
<1>1. << >> \in Seq(Jobs) /\ << >> \in Seq(Stamps) /\ << >> \in Seq(Entry) /\ Len(<< >>) = 0 /\ DOMAIN << >> = {}
  BY EmptyFacts
<1>2. TypeOK
  BY <1>1, IdleFacts, DeliveryAssumption DEF Init, TypeOK, Dispatches, Stamps
<1>3. Shape
  BY IdleFacts DEF Init, Shape
<1>4. ASSUME NEW r \in Recipients PROVE Good(r)
  <2>1. hourly[r] = << >> /\ sent[r] = << >> /\ dispatch[r] = Idle
    BY <1>4 DEF Init
  <2>2. Covers(<< >>, << >>, 0)
    BY <1>1 DEF Covers
  <2>3. Counted(worker, hourly[r], sent[r], dispatch[r])
    BY <1>1, <2>1, <2>2, IdleFacts, DeliveryAssumption DEF Counted, Order, Pending
  <2>4. Spaced(worker, sent[r], dispatch[r], window, Key(r))
    BY <1>1, <2>1, IdleFacts DEF Spaced, Pairs, Recorded, Free
  <2> QED
    BY <2>3, <2>4 DEF Good
<1> QED
  BY <1>2, <1>3, <1>4 DEF IInv

(* A recipient whose dispatch keeps its place, while windows of others     *)
(* start again.                                                            *)
LEMMA Untouched ==
  ASSUME IInv, NEW r \in Recipients,
         UNCHANGED <<worker, job>>, hourly'[r] = hourly[r], sent'[r] = sent[r],
         dispatch'[r].through = dispatch[r].through, dispatch'[r].stage = dispatch[r].stage,
         window' \in [Keys -> 0..Window], \A k \in Keys : window'[k] <= window[k]
  PROVE  Good(r)'
<1>1. Good(r) /\ window \in [Keys -> 0..Window] /\ sent[r] \in Seq(Entry)
  BY Typed DEF IInv
<1>2. Spaced(worker, sent[r], dispatch[r], window', Key(r))
  BY <1>1, SpacedLower DEF Good
<1>3. Key(r)' = Key(r)
  BY DEF Key
<1>4. Counted(worker', hourly'[r], sent'[r], dispatch'[r])
  BY <1>1 DEF Good, Counted, Pending
<1>5. Spaced(worker', sent'[r], dispatch'[r], window', Key(r)')
  BY <1>2, <1>3 DEF Spaced, Recorded, Free
<1> QED
  BY <1>4, <1>5 DEF Good

(* A dispatch that has delivered nothing begins, ends or has not begun.    *)
LEMMA Restarts ==
  ASSUME IInv, NEW r \in Recipients, worker # "stopped",
         hourly'[r] = hourly[r], sent'[r] = sent[r], window' = window,
         ~dispatch[r].through, ~dispatch'[r].through, dispatch'[r].stage # "send"
  PROVE  Good(r)'
<1>1. Good(r)
  BY DEF IInv
<1>2. Counted(worker', hourly'[r], sent'[r], dispatch'[r])
  BY <1>1 DEF Good, Counted, Pending
<1>3. Spaced(worker', sent'[r], dispatch'[r], window', Key(r)')
  BY <1>1 DEF Good, Spaced, Recorded, Free
<1> QED
  BY <1>2, <1>3 DEF Good

-----------------------------------------------------------------------------
LEMMA WorkerKeeps == IInv /\ (Start \/ Stop \/ TakeJob \/ JobDone) => IInv'
<1> SUFFICES ASSUME IInv, Start \/ Stop \/ TakeJob \/ JobDone PROVE IInv'
  OBVIOUS
<1>0. TypeOK /\ Shape /\ \A r \in Recipients : Good(r)
  BY DEF IInv
<1>1. CASE Start
  <2>1. TypeOK' /\ Shape'
    BY <1>0, <1>1 DEF Start, TypeOK, Shape, throttleVars, histories
  <2>2. \A r \in Recipients : ~dispatch[r].through /\ dispatch[r].stage # "send"
    BY <1>0, <1>1 DEF Start, Shape
  <2>3. \A r \in Recipients : Good(r)'
    BY <1>1, <2>2, Restarts DEF Start, throttleVars, histories
  <2> QED
    BY <2>1, <2>3 DEF IInv
<1>2. CASE Stop
  <2>1. /\ worker' = "stopped" /\ job' = NoJob /\ dispatch' = [r \in Recipients |-> Idle]
        /\ UNCHANGED <<queue, hourly, window, sent, last>>
    BY <1>2 DEF Stop, throttleVars, histories
  <2>2. dispatch' \in [Recipients -> Dispatches]
    BY <2>1, IdleFacts
  <2>3. TypeOK'
    BY <1>0, <2>1, <2>2 DEF TypeOK, Dispatches
  <2>4. Shape'
    BY <2>1, IdleFacts DEF Shape
  <2>5. \A r \in Recipients : Good(r)'
    BY <1>0, <2>1 DEF Good, Counted, Spaced
  <2> QED
    BY <2>3, <2>4, <2>5 DEF IInv
<1>3. CASE TakeJob
  <2>1. worker = "waiting" /\ queue # << >> /\ queue' = Tail(queue) /\ UNCHANGED <<hourly, window, sent, last>>
    BY <1>3 DEF TakeJob, throttleVars, histories
  <2>2. queue' \in Seq(Jobs) /\ Len(queue') <= QueueMax /\ Head(queue) \in Jobs
    BY <1>0, <2>1, TailFacts, SeqFacts, DeliveryAssumption DEF TypeOK
  <2>3. \A r \in Recipients : ~dispatch[r].through /\ dispatch[r].stage # "send"
    BY <1>0, <2>1 DEF Shape
  <2>4. CASE UNCHANGED <<worker, job, dispatch>>
    <3>1. TypeOK' /\ Shape'
      BY <1>0, <2>1, <2>2, <2>4 DEF TypeOK, Shape
    <3>2. \A r \in Recipients : Good(r)'
      BY <2>1, <2>3, <2>4, Restarts
    <3> QED
      BY <3>1, <3>2 DEF IInv
  <2>5. ASSUME NEW recipients \in SUBSET Recipients, worker' = "busy", job' = Head(queue),
               dispatch' = [r \in Recipients |-> IF r \in recipients THEN At("check", << >>) ELSE Idle]
        PROVE  IInv'
    <3>1. /\ At("check", << >>) \in Dispatches /\ At("check", << >>).stage = "check"
          /\ ~At("check", << >>).through
      BY AtFacts, EmptyFacts
    <3>2. /\ dispatch' \in [Recipients -> Dispatches]
          /\ \A r \in Recipients : ~dispatch'[r].through /\ dispatch'[r].stage # "send"
      BY <2>5, <3>1, IdleFacts
    <3>3. TypeOK'
      BY <1>0, <2>1, <2>2, <2>5, <3>2 DEF TypeOK, Dispatches
    <3>4. Shape'
      BY <2>2, <2>5, <3>2 DEF Shape
    <3>5. \A r \in Recipients : Good(r)'
      BY <2>1, <2>3, <3>2, Restarts
    <3> QED
      BY <3>3, <3>4, <3>5 DEF IInv
  <2> QED
    BY <1>3, <2>4, <2>5 DEF TakeJob
<1>4. CASE JobDone
  <2>1. /\ worker = "busy" /\ worker' = "waiting" /\ job' = NoJob
        /\ UNCHANGED <<queue, dispatch, hourly, window, sent, last>>
        /\ \A r \in Recipients : dispatch[r] = Idle
    BY <1>4 DEF JobDone, throttleVars, histories
  <2>2. TypeOK' /\ Shape'
    BY <1>0, <2>1, IdleFacts DEF TypeOK, Shape
  <2>3. \A r \in Recipients : Good(r)'
    BY <2>1, Restarts, IdleFacts
  <2> QED
    BY <2>2, <2>3 DEF IInv
<1> QED
  BY <1>1, <1>2, <1>3, <1>4

LEMMA EnqueueKeeps == ASSUME IInv, NEW j \in Jobs, Enqueue(j) PROVE IInv'
<1>0. TypeOK /\ Shape /\ \A r \in Recipients : Good(r)
  BY DEF IInv
<1>1. UNCHANGED <<worker, job, dispatch, hourly, window, sent, last>>
  BY DEF Enqueue, throttleVars, histories
<1>2. queue' \in Seq(Jobs) /\ Len(queue') <= QueueMax
  <2>1. CASE Len(queue) < QueueMax
    <3>1. Len(queue) \in Nat /\ queue \in Seq(Jobs)
      BY <1>0, SeqFacts DEF TypeOK
    <3>2. Append(queue, j) \in Seq(Jobs) /\ Len(Append(queue, j)) = Len(queue) + 1
      BY <3>1, AppendFacts
    <3> QED
      BY <2>1, <3>1, <3>2, DeliveryAssumption DEF Enqueue
  <2>2. CASE ~(Len(queue) < QueueMax)
    BY <1>0, <2>2 DEF Enqueue, TypeOK
  <2> QED
    BY <2>1, <2>2
<1>3. TypeOK' /\ Shape'
  BY <1>0, <1>1, <1>2 DEF TypeOK, Shape
<1>4. \A r \in Recipients : Good(r)'
  BY <1>0, <1>1 DEF Good, Key
<1> QED
  BY <1>3, <1>4 DEF IInv

(* What a step of the dispatch of r has to show: the rest follows. *)
LEMMA DispatchStep ==
  ASSUME IInv, NEW r \in Recipients, UNCHANGED <<queue, worker, job>>,
         NEW d \in Dispatches, dispatch' = [dispatch EXCEPT ![r] = d],
         d.through => d.stage = "send", d.through => d.arrived, d.stage # "idle" => worker = "busy",
         last' \in Lasts,
         hourly' \in [Recipients -> Seq(Stamps)], sent' \in [Recipients -> Seq(Entry)],
         window' \in [Keys -> 0..Window], \A k \in Keys : window'[k] <= window[k],
         \A g \in Recipients \ {r} : hourly'[g] = hourly[g] /\ sent'[g] = sent[g],
         Good(r)'
  PROVE  IInv'
<1>0. TypeOK /\ Shape
  BY DEF IInv
<1>1. dispatch' \in [Recipients -> Dispatches] /\ dispatch'[r] = d
      /\ \A g \in Recipients \ {r} : dispatch'[g] = dispatch[g]
  BY <1>0, Typed
<1>2. TypeOK'
  BY <1>0, <1>1 DEF TypeOK, Dispatches, Stamps, Lasts
<1>3. Shape'
  BY <1>0, <1>1 DEF Shape
<1>4. \A g \in Recipients \ {r} : Good(g)'
  BY <1>1, Untouched
<1> QED
  BY <1>2, <1>3, <1>4 DEF IInv

LEMMA RecordFacts ==
  ASSUME TypeOK, NEW r \in Recipients, job \in Jobs, RecordSend(r)
  PROVE  /\ hourly' \in [Recipients -> Seq(Stamps)] /\ hourly'[r] = Append(hourly[r], [age |-> 0])
         /\ \A g \in Recipients \ {r} : hourly'[g] = hourly[g]
         /\ window' \in [Keys -> 0..Window] /\ \A k \in Keys : window'[k] <= window[k]
         /\ Key(r) \in Keys /\ window'[Key(r)] = 0
<1>1. Key(r) \in Keys
  BY DEF Key, Keys, Jobs
<1>2. [age |-> 0] \in Stamps
  BY DeliveryAssumption DEF Stamps
<1>3. hourly \in [Recipients -> Seq(Stamps)] /\ window \in [Keys -> 0..Window]
  BY Typed
<1>4. Append(hourly[r], [age |-> 0]) \in Seq(Stamps)
  BY <1>2, <1>3, AppendFacts
<1>5. hourly' = [hourly EXCEPT ![r] = Append(hourly[r], [age |-> 0])] /\ window' = [window EXCEPT ![Key(r)] = 0]
  BY DEF RecordSend
<1>6. hourly' \in [Recipients -> Seq(Stamps)] /\ hourly'[r] = Append(hourly[r], [age |-> 0])
      /\ \A g \in Recipients \ {r} : hourly'[g] = hourly[g]
  BY <1>3, <1>4, <1>5
<1>7. window' \in [Keys -> 0..Window] /\ window'[Key(r)] = 0 /\ \A k \in Keys : window'[k] <= window[k]
  BY <1>1, <1>3, <1>5, DeliveryAssumption
<1> QED
  BY <1>1, <1>6, <1>7

LEMMA Working ==
  ASSUME IInv, NEW r \in Recipients, dispatch[r].stage # "idle"
  PROVE  /\ worker = "busy" /\ job \in Jobs /\ Key(r) \in Keys
         /\ dispatch[r] \in Dispatches
         /\ hourly[r] \in Seq(Stamps) /\ sent[r] \in Seq(Entry)
         /\ window \in [Keys -> 0..Window] /\ last \in Lasts
         /\ Good(r) /\ (dispatch[r].stage # "send" => ~dispatch[r].through)
<1>1. worker = "busy" /\ job \in Jobs /\ (dispatch[r].stage # "send" => ~dispatch[r].through)
  BY DEF IInv, Shape
<1>2. Key(r) \in Keys
  BY <1>1 DEF Key, Keys, Jobs
<1> QED
  BY <1>1, <1>2, Typed DEF IInv

LEMMA EndsUndelivered ==
  ASSUME IInv, NEW r \in Recipients, dispatch[r].stage # "idle", ~dispatch[r].through,
         dispatch' = [dispatch EXCEPT ![r] = Idle],
         UNCHANGED <<queue, worker, job, hourly, window, sent, last>>
  PROVE  IInv'
<1>1. worker = "busy" /\ TypeOK /\ last' \in Lasts
  BY Working DEF IInv
<1>2. dispatch'[r] = Idle
  BY <1>1, Typed
<1>3. Good(r)'
  BY <1>1, <1>2, Restarts, IdleFacts
<1>4. /\ hourly' \in [Recipients -> Seq(Stamps)] /\ sent' \in [Recipients -> Seq(Entry)]
      /\ window' \in [Keys -> 0..Window] /\ \A k \in Keys : window'[k] <= window[k]
  BY <1>1, Typed, DeliveryAssumption
<1> QED
  BY <1>1, <1>3, <1>4, DispatchStep, IdleFacts

LEMMA AdmitKeeps == ASSUME IInv, NEW r \in Recipients, Admit(r) PROVE IInv'
<1> DEFINE d == At("send", Channels[r])
           s == sent[r]
           h == hourly[r]
<1>0. TypeOK /\ dispatch[r].stage = "check"
  BY DEF IInv, Admit, Checks
<1>1. /\ worker = "busy" /\ job \in Jobs /\ Key(r) \in Keys /\ h \in Seq(Stamps) /\ s \in Seq(Entry)
      /\ window \in [Keys -> 0..Window] /\ Good(r) /\ ~dispatch[r].through /\ last \in Lasts
  BY <1>0, Working
<1>2. d \in Dispatches /\ d.stage = "send" /\ ~d.through
  BY AtFacts, DeliveryAssumption
<1>3. /\ Len(h) < MaxPerHour /\ (Bypasses \/ window[Key(r)] = Window)
      /\ dispatch' = [dispatch EXCEPT ![r] = d] /\ UNCHANGED <<queue, worker, job, sent, last>>
  BY DEF Admit, MaySend, Others, histories
<1>4. dispatch'[r] = d /\ Key(r)' = Key(r)
  BY <1>0, <1>3, Typed DEF Key
<1> HIDE DEF d
<1>5. Order(h) /\ Order(s) /\ Len(s) <= MaxPerHour /\ Covers(h, s, 0)
  BY <1>1 DEF Good, Counted, Pending
<1>6. Len(s) < MaxPerHour
  BY <1>1, <1>3, <1>5, SeqFacts, DeliveryAssumption DEF Covers
<1>7. Exempt(Key(r)) <=> Bypasses
  BY DEF Exempt, Bypasses, Key
<1>8. Pairs(s) /\ \A i \in DOMAIN s : ~Exempt(s[i].key) => window[s[i].key] <= s[i].age
  BY <1>1 DEF Good, Spaced, Recorded
<1>9. CASE Bypasses
  <2>1. RecordSend(r)
    BY <1>9 DEF Admit
  <2>2. /\ hourly' \in [Recipients -> Seq(Stamps)] /\ hourly'[r] = Append(h, [age |-> 0])
        /\ \A g \in Recipients \ {r} : hourly'[g] = hourly[g]
        /\ window' \in [Keys -> 0..Window] /\ \A k \in Keys : window'[k] <= window[k]
    BY <1>0, <1>1, <2>1, RecordFacts
  <2>3. Covers(hourly'[r], s, 0) /\ Order(hourly'[r])
    BY <1>1, <1>5, <2>2, CoversRecord
  <2>4. Counted(worker', hourly'[r], sent'[r], dispatch'[r])
    BY <1>2, <1>3, <1>4, <1>5, <1>6, <2>3 DEF Counted, Pending
  <2>5. Spaced(worker, s, dispatch[r], window', Key(r))
    BY <1>1, <2>2, SpacedLower DEF Good
  <2>6. Spaced(worker', sent'[r], dispatch'[r], window', Key(r)')
    BY <1>1, <1>2, <1>3, <1>4, <1>7, <1>9, <2>5 DEF Spaced, Recorded, Free
  <2>7. Good(r)'
    BY <2>4, <2>6 DEF Good
  <2>8. sent' \in [Recipients -> Seq(Entry)] /\ \A g \in Recipients \ {r} : sent'[g] = sent[g]
    BY <1>0, <1>3, Typed
  <2> QED
    BY <1>1, <1>2, <1>3, <2>2, <2>7, <2>8, DispatchStep
<1>10. CASE ~Bypasses
  <2>1. UNCHANGED <<hourly, window>>
    BY <1>10 DEF Admit, throttleVars, histories
  <2>2. Counted(worker', hourly'[r], sent'[r], dispatch'[r])
    BY <1>2, <1>3, <1>4, <1>5, <1>6, <2>1 DEF Counted, Pending
  <2>3. Free(s, d, Key(r))
    BY <1>3, <1>7, <1>8, <1>10 DEF Free
  <2>4. Spaced(worker', sent'[r], dispatch'[r], window', Key(r)')
    BY <1>2, <1>3, <1>4, <1>8, <2>1, <2>3 DEF Spaced, Recorded
  <2>5. Good(r)'
    BY <2>2, <2>4 DEF Good
  <2>6. /\ hourly' \in [Recipients -> Seq(Stamps)] /\ sent' \in [Recipients -> Seq(Entry)]
        /\ window' \in [Keys -> 0..Window] /\ \A k \in Keys : window'[k] <= window[k]
        /\ \A g \in Recipients \ {r} : hourly'[g] = hourly[g] /\ sent'[g] = sent[g]
    BY <1>0, <1>3, <2>1, Typed, DeliveryAssumption
  <2> QED
    BY <1>1, <1>2, <1>3, <2>5, <2>6, DispatchStep
<1> QED
  BY <1>9, <1>10

LEMMA ArrivesFacts ==
  ASSUME last \in Lasts, NEW r \in Recipients, Arrives(r)
  PROVE  last' \in Lasts
<1>1. 0 \in 0..Window
  BY DeliveryAssumption
<1> QED
  BY <1>1 DEF Arrives, Lasts

LEMMA DeliveredFacts ==
  ASSUME NEW left \in Seq({"whatsapp", "email"})
  PROVE  LET d == [At("send", left) EXCEPT !.through = TRUE, !.arrived = TRUE]
         IN  d \in Dispatches /\ d.stage = "send" /\ d.through = TRUE /\ d.arrived = TRUE
<1>1. 0 \in 0..(Attempts - 1)
  BY DeliveryAssumption
<1> QED
  BY <1>1 DEF Dispatches, At

LEMMA SendSucceedsKeeps == ASSUME IInv, NEW r \in Recipients, SendSucceeds(r) PROVE IInv'
<1> DEFINE o == dispatch[r]
           d == [At("send", Tail(o.left)) EXCEPT !.through = TRUE, !.arrived = TRUE]
           s == sent[r]
           h == hourly[r]
           e == [age |-> 0, key |-> Key(r)]
<1>0. TypeOK /\ dispatch[r].stage = "send" /\ dispatch[r].left # << >>
  BY DEF IInv, SendSucceeds, Sends
<1>1. /\ worker = "busy" /\ Key(r) \in Keys /\ h \in Seq(Stamps) /\ s \in Seq(Entry)
      /\ window \in [Keys -> 0..Window] /\ Good(r) /\ dispatch[r] \in Dispatches /\ last \in Lasts
  BY <1>0, Working
<1>2. d \in Dispatches /\ d.stage = "send" /\ d.through = TRUE /\ d.arrived = TRUE
  <2>1. dispatch[r].left \in Seq({"whatsapp", "email"})
    BY <1>1 DEF Dispatches
  <2>2. Tail(dispatch[r].left) \in Seq({"whatsapp", "email"})
    BY <1>0, <2>1, TailFacts
  <2> QED
    BY <1>0, <1>1, <2>2, DeliveredFacts
<1>3. /\ dispatch' = [dispatch EXCEPT ![r] = d] /\ UNCHANGED <<queue, worker, job, hourly, window>>
      /\ sent' = IF dispatch[r].through THEN sent ELSE [sent EXCEPT ![r] = Append(s, e)]
  BY DEF SendSucceeds, Others, throttleVars
<1>4. dispatch'[r] = d /\ Key(r)' = Key(r)
  BY <1>0, <1>3, Typed DEF Key
<1>4a. last' \in Lasts
  BY <1>1, ArrivesFacts DEF SendSucceeds
<1> HIDE DEF d
<1>5. /\ hourly' \in [Recipients -> Seq(Stamps)] /\ window' \in [Keys -> 0..Window]
      /\ \A k \in Keys : window'[k] <= window[k]
      /\ \A g \in Recipients \ {r} : hourly'[g] = hourly[g]
  BY <1>0, <1>3, Typed, DeliveryAssumption
<1>6. CASE dispatch[r].through
  <2>1. sent' = sent
    BY <1>3, <1>6
  <2>2. dispatch[r].through = TRUE
    BY <1>1, <1>6 DEF Dispatches
  <2>3. Good(r)'
    BY <1>0, <1>2, <1>3, <1>4, <1>5, <2>1, <2>2, Untouched
  <2>4. sent' \in [Recipients -> Seq(Entry)] /\ \A g \in Recipients \ {r} : sent'[g] = sent[g]
    BY <1>0, <2>1, Typed
  <2> QED
    BY <1>1, <1>2, <1>3, <1>4a, <1>5, <2>3, <2>4, DispatchStep
<1>7. CASE ~dispatch[r].through
  <2>1. e \in Entry /\ e.age = 0 /\ e.key = Key(r)
    BY <1>1, DeliveryAssumption DEF Entry
  <2>2. /\ sent' \in [Recipients -> Seq(Entry)] /\ sent'[r] = Append(s, e)
        /\ \A g \in Recipients \ {r} : sent'[g] = sent[g]
    <3>1. Append(s, e) \in Seq(Entry)
      BY <1>1, <2>1, AppendFacts
    <3> QED
      BY <1>0, <1>3, <1>7, <3>1, Typed
  <2>3. Order(h) /\ Order(s) /\ Len(s) < MaxPerHour /\ Covers(h, s, 0)
    BY <1>0, <1>1, <1>7 DEF Good, Counted, Pending
  <2>4. Covers(h, Append(s, e), 1) /\ Order(Append(s, e)) /\ Len(Append(s, e)) = Len(s) + 1 /\ Len(s) \in Nat
    BY <1>1, <2>1, <2>3, CoversReach, SeqFacts
  <2>5. Counted(worker', hourly'[r], sent'[r], dispatch'[r])
    BY <1>2, <1>3, <1>4, <2>2, <2>3, <2>4, DeliveryAssumption DEF Counted, Pending
  <2>6. /\ Pairs(s) /\ Recorded(s, dispatch[r], window, Key(r))
        /\ ~Exempt(Key(r)) => \A i \in DOMAIN s : s[i].key = Key(r) => s[i].age >= Window
    BY <1>0, <1>1, <1>7 DEF Good, Spaced, Free
  <2> DEFINE t == Append(s, e)
  <2>7. /\ DOMAIN t = 1..(Len(s) + 1) /\ t[Len(s) + 1] = e /\ Len(t) = Len(s) + 1
        /\ \A i \in 1..Len(s) : t[i] = s[i] /\ i \in DOMAIN s /\ s[i].age \in Nat
        /\ DOMAIN s = 1..Len(s) /\ Len(s) \in Nat
    BY <1>1, <2>1, AppendFacts, EntryFacts
  <2> HIDE DEF t, e
  <2>8. Pairs(t)
    <3> SUFFICES ASSUME NEW i \in 1..(Len(s) + 1), NEW n \in 1..(Len(s) + 1), i < n,
                        t[i].key = t[n].key, ~Exempt(t[i].key)
                 PROVE  t[i].age >= t[n].age + Window
      BY <2>7 DEF Pairs
    <3>1. i \in 1..Len(s) /\ t[i] = s[i]
      BY <2>7
    <3>2. CASE n = Len(s) + 1
      <4>1. t[n].age = 0 /\ t[n].key = Key(r)
        BY <2>1, <2>7, <3>2
      <4>2. s[i].key = Key(r) /\ ~Exempt(Key(r)) /\ i \in DOMAIN s
        BY <2>7, <3>1, <4>1
      <4>3. t[i].age >= Window /\ t[i].age \in Nat
        BY <2>6, <2>7, <3>1, <4>2
      <4> QED
        BY <4>1, <4>3, DeliveryAssumption
    <3>3. CASE n \in 1..Len(s)
      BY <2>6, <2>7, <3>1, <3>3 DEF Pairs
    <3> QED
      BY <2>7, <3>2, <3>3
  <2>9. Recorded(t, d, window, Key(r))
    <3> SUFFICES ASSUME NEW i \in 1..(Len(s) + 1), ~Exempt(t[i].key)
                 PROVE  window[t[i].key] <= t[i].age \/ (d.through /\ i = Len(t) /\ t[i].key = Key(r))
      BY <2>7 DEF Recorded
    <3>1. CASE i = Len(s) + 1
      BY <1>2, <2>1, <2>7, <3>1
    <3>2. CASE i \in 1..Len(s)
      BY <1>7, <2>6, <2>7, <3>2 DEF Recorded
    <3> QED
      BY <2>7, <3>1, <3>2
  <2>10. Spaced(worker', sent'[r], dispatch'[r], window', Key(r)')
    BY <1>2, <1>3, <1>4, <2>2, <2>8, <2>9 DEF Spaced, Free, t
  <2>11. Good(r)'
    BY <2>5, <2>10 DEF Good
  <2> QED
    BY <1>1, <1>2, <1>3, <1>4a, <1>5, <2>2, <2>11, DispatchStep
<1> QED
  BY <1>6, <1>7

LEMMA SendFailsKeeps == ASSUME IInv, NEW r \in Recipients, SendFails(r) PROVE IInv'
<1> DEFINE o == dispatch[r]
<1>0. TypeOK /\ o.stage = "send" /\ o.left # << >>
  BY DEF IInv, SendFails, Sends
<1>1. worker = "busy" /\ o \in Dispatches /\ last \in Lasts /\ dispatch \in [Recipients -> Dispatches]
  BY <1>0, Working, Typed
<1>2. PICK a \in {o.arrived, TRUE} :
        /\ dispatch' = IF o.tries + 1 < Attempts
                         THEN [dispatch EXCEPT ![r].tries = @ + 1, ![r].arrived = a]
                         ELSE [dispatch EXCEPT ![r].left = Tail(@), ![r].tries = 0, ![r].arrived = a]
        /\ IF a THEN Arrives(r) ELSE UNCHANGED last
  BY DEF SendFails
<1> DEFINE d == IF o.tries + 1 < Attempts
                  THEN [o EXCEPT !.tries = @ + 1, !.arrived = a]
                  ELSE [o EXCEPT !.left = Tail(@), !.tries = 0, !.arrived = a]
<1>3. /\ o = [stage |-> o.stage, left |-> o.left, tries |-> o.tries, through |-> o.through,
              arrived |-> o.arrived]
      /\ o.stage \in {"idle", "check", "send"} /\ o.left \in Seq({"whatsapp", "email"})
      /\ o.tries \in 0..(Attempts - 1) /\ o.through \in BOOLEAN /\ o.arrived \in BOOLEAN
  BY <1>1 DEF Dispatches
<1>4. UNCHANGED <<queue, worker, job, hourly, window, sent>>
  BY DEF SendFails, Others, throttleVars
<1>5. dispatch' = [dispatch EXCEPT ![r] = d]
  <2>1. CASE o.tries + 1 < Attempts
    <3>1. dispatch' = [dispatch EXCEPT ![r].tries = @ + 1, ![r].arrived = a]
      BY <1>2, <2>1
    <3>2. dispatch' = [dispatch EXCEPT ![r] = [o EXCEPT !.tries = @ + 1, !.arrived = a]]
      BY <1>1, <3>1 DEF Dispatches
    <3> QED
      BY <2>1, <3>2
  <2>2. CASE ~(o.tries + 1 < Attempts)
    <3>1. dispatch' = [dispatch EXCEPT ![r].left = Tail(@), ![r].tries = 0, ![r].arrived = a]
      BY <1>2, <2>2
    <3>2. dispatch' = [dispatch EXCEPT ![r] = [o EXCEPT !.left = Tail(@), !.tries = 0, !.arrived = a]]
      BY <1>1, <3>1 DEF Dispatches
    <3> QED
      BY <2>2, <3>2
  <2> QED
    BY <2>1, <2>2
<1>6. dispatch'[r] = d
  BY <1>1, <1>5
<1>7. last' \in Lasts
  BY <1>1, <1>2, ArrivesFacts
<1>8. o.through => o.arrived
  BY DEF IInv, Shape
<1> HIDE DEF o
<1>9. d \in Dispatches /\ d.stage = o.stage /\ d.through = o.through /\ d.arrived = a
  <2>0. a \in BOOLEAN
    BY <1>2, <1>3
  <2>1. CASE o.tries + 1 < Attempts
    <3>1. d = [stage |-> o.stage, left |-> o.left, tries |-> o.tries + 1, through |-> o.through,
               arrived |-> a]
      BY <1>3, <2>1
    <3>2. o.tries + 1 \in 0..(Attempts - 1)
      BY <1>3, <2>1, DeliveryAssumption
    <3> QED
      BY <1>3, <2>0, <3>1, <3>2 DEF Dispatches
  <2>2. CASE ~(o.tries + 1 < Attempts)
    <3>1. d = [stage |-> o.stage, left |-> Tail(o.left), tries |-> 0, through |-> o.through,
               arrived |-> a]
      BY <1>3, <2>2
    <3>2. 0 \in 0..(Attempts - 1) /\ Tail(o.left) \in Seq({"whatsapp", "email"})
      BY <1>0, <1>3, TailFacts, DeliveryAssumption
    <3> QED
      BY <1>3, <2>0, <3>1, <3>2 DEF Dispatches
  <2> QED
    BY <2>1, <2>2
<1> HIDE DEF d
<1>10. /\ hourly' \in [Recipients -> Seq(Stamps)] /\ sent' \in [Recipients -> Seq(Entry)]
       /\ window' \in [Keys -> 0..Window] /\ \A k \in Keys : window'[k] <= window[k]
       /\ \A g \in Recipients \ {r} : hourly'[g] = hourly[g] /\ sent'[g] = sent[g]
  BY <1>0, <1>4, Typed, DeliveryAssumption
<1>11. dispatch'[r].through = dispatch[r].through /\ dispatch'[r].stage = dispatch[r].stage
  BY <1>6, <1>9 DEF o
<1>12. Good(r)'
  BY <1>4, <1>10, <1>11, Untouched
<1>13. (d.through => d.stage = "send") /\ (d.through => d.arrived)
  BY <1>0, <1>2, <1>8, <1>9
<1> QED
  BY <1>1, <1>4, <1>5, <1>7, <1>9, <1>10, <1>12, <1>13, DispatchStep

LEMMA FinishKeeps == ASSUME IInv, NEW r \in Recipients, Finish(r) PROVE IInv'
<1> DEFINE s == sent[r]
           h == hourly[r]
<1>0. TypeOK /\ dispatch[r].stage = "send"
  BY DEF IInv, Finish, Sent
<1>1. /\ worker = "busy" /\ job \in Jobs /\ Key(r) \in Keys /\ h \in Seq(Stamps) /\ s \in Seq(Entry)
      /\ window \in [Keys -> 0..Window] /\ Good(r) /\ last \in Lasts
  BY <1>0, Working
<1>2. dispatch' = [dispatch EXCEPT ![r] = Idle] /\ UNCHANGED <<queue, worker, job, sent, last>>
  BY DEF Finish, Others, histories
<1>3. CASE ~dispatch[r].through
  <2>1. UNCHANGED <<hourly, window>>
    BY <1>3 DEF Finish, throttleVars, histories
  <2> QED
    BY <1>0, <1>2, <1>3, <2>1, EndsUndelivered
<1>4. CASE dispatch[r].through
  <2>1. RecordSend(r)
    BY <1>4 DEF Finish
  <2>2. /\ hourly' \in [Recipients -> Seq(Stamps)] /\ hourly'[r] = Append(h, [age |-> 0])
        /\ \A g \in Recipients \ {r} : hourly'[g] = hourly[g]
        /\ window' \in [Keys -> 0..Window] /\ \A k \in Keys : window'[k] <= window[k]
        /\ window'[Key(r)] = 0
    BY <1>0, <1>1, <2>1, RecordFacts
  <2>3. /\ dispatch'[r] = Idle /\ Key(r)' = Key(r) /\ sent' \in [Recipients -> Seq(Entry)]
        /\ \A g \in Recipients \ {r} : sent'[g] = sent[g]
    BY <1>0, <1>2, Typed DEF Key
  <2>4. Order(h) /\ Order(s) /\ Len(s) <= MaxPerHour /\ Covers(h, s, 1)
    BY <1>1, <1>4 DEF Good, Counted, Pending
  <2>5. Covers(hourly'[r], s, 0) /\ Order(hourly'[r])
    BY <1>1, <2>2, <2>4, CoversRecord
  <2>6. Counted(worker', hourly'[r], sent'[r], dispatch'[r])
    BY <1>2, <2>3, <2>4, <2>5, IdleFacts DEF Counted, Pending
  <2>7. Spaced(worker, s, dispatch[r], window', Key(r))
    BY <1>1, <2>2, SpacedLower DEF Good
  <2>8. \A i \in DOMAIN s : ~Exempt(s[i].key) => window'[s[i].key] <= s[i].age
    <3>1. \A i \in DOMAIN s : s[i].age >= 0
      BY <1>1, EntryFacts
    <3> QED
      BY <1>1, <2>2, <2>7, <3>1 DEF Spaced, Recorded
  <2>9. Spaced(worker', sent'[r], dispatch'[r], window', Key(r)')
    BY <1>2, <2>3, <2>7, <2>8, IdleFacts DEF Spaced, Recorded, Free
  <2>10. Good(r)'
    BY <2>6, <2>9 DEF Good
  <2> QED
    BY <1>1, <1>2, <2>2, <2>3, <2>10, DispatchStep, IdleFacts
<1> QED
  BY <1>3, <1>4

LEMMA TickKeeps == IInv /\ Tick => IInv'
<1> SUFFICES ASSUME IInv, Tick PROVE IInv'
  OBVIOUS
<1>0. TypeOK /\ Shape /\ \A r \in Recipients : Good(r)
  BY DEF IInv
<1>1. /\ hourly' = [r \in Recipients |-> Older(hourly[r])] /\ sent' = [r \in Recipients |-> Older(sent[r])]
      /\ window' = [k \in Keys |-> IF window[k] < Window THEN window[k] + 1 ELSE Window]
      /\ UNCHANGED <<queue, worker, job, dispatch>>
  BY DEF Tick
<1>2. window' \in [Keys -> 0..Window] /\ \A k \in Keys : window'[k] <= window[k] + 1
  BY <1>0, <1>1, Typed, DeliveryAssumption
<1>2a. last' \in Lasts
  <2>1. last' = [k \in DOMAIN last |-> IF last[k] < Window THEN last[k] + 1 ELSE Window] /\ last \in Lasts
    BY <1>0, Typed DEF Tick
  <2> QED
    BY <2>1, DeliveryAssumption DEF Lasts
<1>3. ASSUME NEW r \in Recipients
      PROVE  Older(hourly[r]) \in Seq(Stamps) /\ Older(sent[r]) \in Seq(Entry) /\ Good(r)'
  <2>1. hourly[r] \in Seq(Stamps) /\ sent[r] \in Seq(Entry) /\ window \in [Keys -> 0..Window]
    BY <1>0, Typed
  <2>2. /\ Counted(worker, hourly[r], sent[r], dispatch[r])
        /\ Spaced(worker, sent[r], dispatch[r], window, Key(r))
    BY <1>0 DEF Good
  <2>3. Order(hourly[r]) /\ Order(sent[r])
    BY <2>2 DEF Counted
  <2>4. (\E k \in 0..Len(hourly[r]) : Forgets(Stamps, hourly[r], k))
        /\ (\E k \in 0..Len(sent[r]) : Forgets(Entry, sent[r], k))
    BY <2>1, <2>3, OlderFacts, AgesInBoth
  <2>5. Counted(worker, Older(hourly[r]), Older(sent[r]), dispatch[r])
    BY <2>1, <2>2, CountedOlder
  <2>6. Spaced(worker, Older(sent[r]), dispatch[r], window', Key(r))
    BY <1>2, <2>1, <2>2, <2>3, SpacedOlder
  <2>7. /\ hourly'[r] = Older(hourly[r]) /\ sent'[r] = Older(sent[r]) /\ dispatch'[r] = dispatch[r]
        /\ worker' = worker /\ Key(r)' = Key(r)
    BY <1>1 DEF Key
  <2>8. Good(r)'
    BY <2>5, <2>6, <2>7 DEF Good
  <2> QED
    BY <2>4, <2>8 DEF Forgets
<1>4. hourly' \in [Recipients -> Seq(Stamps)] /\ sent' \in [Recipients -> Seq(Entry)]
  BY <1>1, <1>3
<1>5. TypeOK' /\ Shape'
  BY <1>0, <1>1, <1>2, <1>2a, <1>4 DEF TypeOK, Shape, Stamps, Lasts
<1> QED
  BY <1>3, <1>5 DEF IInv

LEMMA NextKeeps == IInv /\ [Next]_vars => IInv'
<1> SUFFICES ASSUME IInv, [Next]_vars PROVE IInv'
  OBVIOUS
<1>1. CASE Start \/ Stop \/ TakeJob \/ JobDone
  BY <1>1, WorkerKeeps
<1>2. CASE Tick
  BY <1>2, TickKeeps
<1>3. ASSUME NEW j \in Jobs, Enqueue(j) PROVE IInv'
  BY <1>3, EnqueueKeeps
<1>4. ASSUME NEW r \in Recipients, Refuse(r) \/ FilterRaises(r) PROVE IInv'
  <2>1. /\ dispatch[r].stage = "check" /\ dispatch' = [dispatch EXCEPT ![r] = Idle]
        /\ UNCHANGED <<queue, worker, job, hourly, window, sent, last>>
    BY <1>4 DEF Refuse, FilterRaises, Checks, Others, throttleVars, histories
  <2>2. ~dispatch[r].through
    BY <2>1, Working
  <2> QED
    BY <2>1, <2>2, EndsUndelivered
<1>5. ASSUME NEW r \in Recipients, Admit(r) \/ SendSucceeds(r) \/ SendFails(r) \/ Finish(r) PROVE IInv'
  BY <1>5, AdmitKeeps, SendSucceedsKeeps, SendFailsKeeps, FinishKeeps
<1>6. CASE UNCHANGED vars
  <2>1. UNCHANGED <<queue, worker, job, dispatch, hourly, window, sent, last>>
    BY <1>6 DEF vars, throttleVars, histories
  <2>2. TypeOK' /\ Shape'
    BY <2>1 DEF IInv, TypeOK, Shape
  <2>3. \A r \in Recipients : Good(r)'
    BY <2>1 DEF IInv, Good, Key
  <2> QED
    BY <2>2, <2>3 DEF IInv
<1> QED
  BY <1>1, <1>2, <1>3, <1>4, <1>5, <1>6 DEF Next, Dispatch

-----------------------------------------------------------------------------
(* The queue keeps its bound and every variable its type, whatever is sent *)
(* and fails (alert_worker.py:135-157, 240-314).                           *)
THEOREM TypeCorrect == Spec => []TypeOK
<1>1. IInv => TypeOK
  BY DEF IInv
<1> QED
  BY InitIInv, NextKeeps, <1>1, PTL DEF Spec

(* Who is being sent an alert was below the cap and out of its window.     *)
LEMMA ReachesFacts ==
  ASSUME IInv, [Next]_vars, NEW r \in Recipients, Reaches(r)
  PROVE  /\ worker # "stopped" /\ dispatch[r].stage = "send" /\ ~dispatch[r].through
<1>1. dispatch \in [Recipients -> Dispatches] /\ (dispatch[r].through => dispatch[r].arrived)
  BY Typed DEF IInv, Shape
<1>2. ~Idle.arrived /\ ~Idle.through /\ \A stage, left : ~At(stage, left).arrived /\ ~At(stage, left).through
  BY DEF Idle, At
<1>3. ~dispatch[r].through /\ dispatch'[r] # dispatch[r]
  BY <1>1 DEF Reaches
<1>4. dispatch'[r].arrived \/ dispatch'[r].through
  BY DEF Reaches
<1>5. ~(\E g \in Recipients : Refuse(g) \/ FilterRaises(g) \/ Admit(g) \/ Finish(g))
  <2> SUFFICES ASSUME NEW g \in Recipients, Refuse(g) \/ FilterRaises(g) \/ Admit(g) \/ Finish(g)
               PROVE  FALSE
    OBVIOUS
  <2>1. \E d \in {Idle, At("send", Channels[g])} : dispatch' = [dispatch EXCEPT ![g] = d]
    BY DEF Refuse, FilterRaises, Admit, Finish
  <2> QED
    BY <1>1, <1>2, <1>3, <1>4, <2>1
<1>6. ~(Start \/ Stop \/ TakeJob \/ JobDone \/ Tick \/ (\E j \in Jobs : Enqueue(j)) \/ UNCHANGED vars)
  <2>1. Stop => dispatch'[r] = Idle
    BY DEF Stop
  <2>2. TakeJob => dispatch'[r] \in {Idle, At("check", << >>), dispatch[r]}
    BY DEF TakeJob
  <2>3. Start \/ JobDone \/ Tick \/ (\E j \in Jobs : Enqueue(j)) \/ UNCHANGED vars => dispatch' = dispatch
    BY DEF Start, JobDone, Tick, Enqueue, vars
  <2> QED
    BY <1>2, <1>3, <1>4, <2>1, <2>2, <2>3
<1>7. PICK g \in Recipients : SendSucceeds(g) \/ SendFails(g)
  BY <1>5, <1>6 DEF Next, Dispatch
<1>8. dispatch[g].stage = "send" /\ \A q \in Recipients \ {g} : dispatch'[q] = dispatch[q]
  <2>1. dispatch[g].stage = "send"
    BY <1>7 DEF SendSucceeds, SendFails, Sends
  <2>2. CASE SendSucceeds(g)
    BY <1>1, <2>1, <2>2 DEF SendSucceeds
  <2>3. CASE SendFails(g)
    BY <1>1, <2>1, <2>3 DEF SendFails
  <2> QED
    BY <1>7, <2>1, <2>2, <2>3
<1>9. g = r
  BY <1>3, <1>8
<1>10. worker = "busy"
  BY <1>8, <1>9, Working
<1> QED
  BY <1>3, <1>8, <1>9, <1>10

(* No alert arrives at a recipient, and no channel answers for one, when   *)
(* as many alerts as the cap allows were sent within the hour, although an *)
(* alert is recorded only after its last channel and time passes until     *)
(* then (throttle.py:139-143, alert_worker.py:262-314).                    *)
THEOREM AlwaysHourlyCap == Spec => HourlyCap
<1>1. ASSUME IInv, [Next]_vars, NEW r \in Recipients, Reaches(r)
      PROVE  Len(sent[r]) < MaxPerHour
  BY <1>1, ReachesFacts DEF IInv, Good, Counted
<1>2. IInv /\ [Next]_vars => [\A r \in Recipients : Reaches(r) => Len(sent[r]) < MaxPerHour]_vars
  BY <1>1
<1> QED
  BY InitIInv, NextKeeps, <1>2, PTL DEF Spec, HourlyCap

(* No alert that does not bypass the throttle arrives at a recipient to    *)
(* whom one of the same subject and severity was sent within the window,   *)
(* however long the retries of a dispatch take and whichever of its        *)
(* channels work (throttle.py:152-161, alert_worker.py:262-314).           *)
THEOREM AlwaysWindowRespected == Spec => WindowRespected
<1> DEFINE Respected ==
      \A r \in Recipients :
        (Reaches(r) /\ ~Exempt(Key(r))) =>
          \A i \in DOMAIN sent[r] : sent[r][i].key = Key(r) => sent[r][i].age >= Window
<1>1. ASSUME IInv, [Next]_vars PROVE Respected
  BY <1>1, ReachesFacts DEF IInv, Good, Spaced, Free
<1>2. IInv /\ [Next]_vars => [Respected]_vars
  BY <1>1
<1> QED
  BY InitIInv, NextKeeps, <1>2, PTL DEF Spec, WindowRespected
=============================================================================
