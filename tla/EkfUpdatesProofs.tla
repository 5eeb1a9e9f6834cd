---------------------------- MODULE EkfUpdatesProofs ----------------------------
(***************************************************************************)
(* Theorems about EkfUpdates, for any queue sizes, numbers of updates and  *)
(* of predictions kept.  A recursive definition is reasoned about through  *)
(* the least argument that refutes the claim.                              *)
(***************************************************************************)
EXTENDS EkfUpdates, WellFoundedInduction, SequenceTheorems, FiniteSetTheorems, TLAPS

Below == {pair \in Nat \X Nat : pair[1] < pair[2]}

(* A set of natural numbers has a least element. *)
LEMMA Least ==
  ASSUME NEW T, T \subseteq Nat, T # {}
  PROVE  \E x \in T : \A y \in T : x <= y
<1>1. IsWellFoundedOn(Below, Nat)
  BY NatLessThanWellFounded DEF OpToRel, Below
<1>2. PICK x \in T : \A y \in T : ~(<<y, x>> \in Below)
  BY <1>1, WFMin, Zenon
<1>3. \A y \in T : ~(y < x)
  BY <1>2 DEF Below
<1> QED
  BY <1>3
-----------------------------------------------------------------------------
(* What Newest keeps is the end of the queue. *)
LEMMA NewestIsTheEnd ==
  ASSUME NEW S, NEW seq \in Seq(S), NEW n \in Nat
  PROVE  /\ Newest(seq, n) \in Seq(S) /\ Len(Newest(seq, n)) <= n
         /\ \E d \in Nat : \A i \in 1..Len(Newest(seq, n)) :
              i + d \in 1..Len(seq) /\ Newest(seq, n)[i] = seq[i + d]
<1> DEFINE len == Len(seq)
<1>0. len \in Nat
  OBVIOUS
<1>1. CASE len <= n
  <2>1. Newest(seq, n) = seq
    BY <1>1 DEF Newest
  <2>2. \A i \in 1..len : i + 0 \in 1..len /\ i + 0 = i
    BY <1>0
  <2> QED
    BY <1>1, <2>1, <2>2
<1>2. CASE ~(len <= n)
  <2> DEFINE rest == Newest(seq, n)
             d == len - n
  <2>1. rest = SubSeq(seq, d + 1, len)
    BY <1>2 DEF Newest
  <2> HIDE DEF rest
  <2>2. d \in Nat /\ d + 1 \in Int /\ len \in Int /\ d + 1 \in 1..(len + 1)
    BY <1>0, <1>2
  <2>3. \A i \in (d + 1)..len : seq[i] \in S
    BY <2>2, <1>0
  <2>4. /\ rest \in Seq(S)
        /\ Len(rest) = IF d + 1 <= len THEN len - (d + 1) + 1 ELSE 0
        /\ \A i \in 1..(len - (d + 1) + 1) : rest[i] = seq[d + 1 + i - 1]
    BY <2>1, <2>2, <2>3, SubSeqProperties
  <2> DEFINE m == Len(rest)
  <2>5. m = n
    <3> HIDE DEF m
    <3>1. m = IF d + 1 <= len THEN len - (d + 1) + 1 ELSE 0
      BY <2>4 DEF m
    <3> HIDE DEF len
    <3> QED
      BY <3>1, <1>0, <1>2
  <2> HIDE DEF m, len
  <2>6. \A i \in 1..m : /\ i + d \in 1..len /\ i \in 1..(len - (d + 1) + 1)
                        /\ d + 1 + i - 1 = i + d
    BY <2>5, <1>0, <1>2
  <2>7. \A i \in 1..m : i + d \in 1..len /\ rest[i] = seq[i + d]
    BY <2>4, <2>6
  <2> HIDE DEF d
  <2>8. \E e \in Nat : \A i \in 1..m : i + e \in 1..len /\ rest[i] = seq[i + e]
    BY <2>2, <2>7
  <2>9. m <= n
    BY <2>5, <1>0
  <2> QED
    BY <2>4, <2>8, <2>9 DEF m, len, rest
<1> QED
  BY <1>1, <1>2

(* The value of left in Older, a step at a time. *)
OlderStep(aged, oldest, before, n) ==
  IF aged[n].age + 1 <= oldest THEN Append(before, [aged[n] EXCEPT !.age = @ + 1])
  ELSE before

OlderUpTo(aged, oldest, g, m) ==
  g = [n \in 0..m |-> IF n = 0 THEN <<>> ELSE OlderStep(aged, oldest, g[n - 1], n)]

LEMMA OlderIsDefined ==
  ASSUME NEW aged, NEW oldest, NEW m \in Nat
  PROVE  \E g : OlderUpTo(aged, oldest, g, m)
<1> DEFINE T == {n \in Nat : ~ \E g : OlderUpTo(aged, oldest, g, n)}
<1> SUFFICES ASSUME T # {} PROVE FALSE
  OBVIOUS
<1>1. PICK n \in T : \A k \in T : n <= k
  <2>1. T \subseteq Nat
    OBVIOUS
  <2> HIDE DEF T
  <2> QED
    BY <2>1, Least
<1>2. CASE n = 0
  <2> DEFINE g == [k \in 0..0 |-> <<>>]
  <2>1. OlderUpTo(aged, oldest, g, 0)
    BY DEF OlderUpTo
  <2> QED
    BY <1>1, <1>2, <2>1
<1>3. CASE n # 0
  <2>1. n - 1 \in Nat /\ ~(n <= n - 1)
    BY <1>1, <1>3
  <2>2. PICK g : OlderUpTo(aged, oldest, g, n - 1)
    BY <1>1, <2>1
  <2> DEFINE h == [k \in 0..n |-> IF k = n THEN OlderStep(aged, oldest, g[n - 1], n) ELSE g[k]]
  <2>3. \A k \in 0..n : h[k] = IF k = 0 THEN <<>> ELSE OlderStep(aged, oldest, h[k - 1], k)
    <3> SUFFICES ASSUME NEW k \in 0..n
                 PROVE  h[k] = IF k = 0 THEN <<>> ELSE OlderStep(aged, oldest, h[k - 1], k)
      OBVIOUS
    <3>1. n \in Nat
      BY <1>1
    <3>2. CASE k = n
      BY <1>3, <2>1, <3>1, <3>2
    <3>3. CASE k # n
      <4>1. k \in 0..(n - 1) /\ k # 0 => k - 1 \in 0..n /\ k - 1 # n /\ k - 1 \in 0..(n - 1)
        BY <3>1, <3>3
      <4>2. g[k] = IF k = 0 THEN <<>> ELSE OlderStep(aged, oldest, g[k - 1], k)
        BY <2>2, <3>1, <3>3 DEF OlderUpTo
      <4> QED
        BY <3>1, <3>3, <4>1, <4>2
    <3> QED
      BY <3>2, <3>3
  <2>4. h = [k \in 0..n |-> h[k]]
    OBVIOUS
  <2> HIDE DEF h
  <2>5. OlderUpTo(aged, oldest, h, n)
    BY <2>3, <2>4 DEF OlderUpTo
  <2> QED
    BY <1>1, <2>5
<1> QED
  BY <1>2, <1>3

(* The measurements of a queue are all different. *)
Distinct(aged) == \A i, j \in DOMAIN aged : aged[i].data.number = aged[j].data.number => i = j

(* What is left of the first n is one update older and was there before,   *)
(* at most once if it was there once.                                      *)
LeftOf(aged, oldest, M, n, left) ==
  /\ left \in Seq([data : M, age : 1..oldest]) /\ Len(left) <= n
  /\ \A i \in 1..Len(left) : \E j \in 1..n :
       left[i].data = aged[j].data /\ left[i].age = aged[j].age + 1
  /\ Distinct(aged) => Distinct(left)

LEMMA OlderStepLeaves ==
  ASSUME NEW M, NEW aged \in Seq([data : M, age : Nat]), NEW oldest \in Nat,
         NEW n \in 1..Len(aged), NEW before, LeftOf(aged, oldest, M, n - 1, before)
  PROVE  LeftOf(aged, oldest, M, n, OlderStep(aged, oldest, before, n))
<1> DEFINE S == [data : M, age : 1..oldest]
           len == Len(before)
<1>a. before \in Seq(S) /\ len <= n - 1
  BY DEF LeftOf
<1>b. len \in Nat /\ DOMAIN before = 1..len
  BY <1>a
<1>c. aged[n] \in [data : M, age : Nat] /\ n \in DOMAIN aged
  BY ElementOfSeq, LenProperties
<1>d. n \in Nat /\ n - 1 \in Nat /\ n # n - 1
  <2>1. \A m \in Nat : \A k \in 1..m : k \in Nat /\ k - 1 \in Nat /\ k # k - 1
    OBVIOUS
  <2>2. Len(aged) \in Nat
    OBVIOUS
  <2> QED
    BY <2>1, <2>2, Zenon
<1>0. /\ n \in Nat /\ n - 1 \in Nat /\ len \in Nat /\ len <= n - 1
      /\ aged[n] \in [data : M, age : Nat] /\ before \in Seq(S)
  BY <1>a, <1>b, <1>c, <1>d
<1>1. CASE aged[n].age + 1 <= oldest
  <2> DEFINE e == [aged[n] EXCEPT !.age = @ + 1]
             left == Append(before, e)
  <2>1. e \in S /\ e.data = aged[n].data /\ e.age = aged[n].age + 1
    <3>1. aged[n].data \in M /\ aged[n].age \in Nat
      BY <1>0
    <3>2. aged[n].age + 1 \in 1..oldest
      BY <1>1, <3>1
    <3>3. e = [data |-> aged[n].data, age |-> aged[n].age + 1]
      <4>1. \A x \in [data : M, age : Nat] :
              [x EXCEPT !.age = @ + 1] = [data |-> x.data, age |-> x.age + 1]
        OBVIOUS
      <4> QED
        BY <1>0, <4>1, Zenon
    <3> HIDE DEF e
    <3> QED
      BY <3>1, <3>2, <3>3
  <2> HIDE DEF e
  <2>2. /\ left \in Seq(S) /\ Len(left) = len + 1
        /\ \A i \in 1..len : left[i] = before[i]
        /\ left[len + 1] = e
    BY <1>0, <2>1, AppendProperties
  <2> HIDE DEF left, len
  <2>3. \A i \in 1..(len + 1) : i \in 1..len \/ i = len + 1
    BY <1>b
  <2>4. \A i \in 1..len : \E j \in 1..(n - 1) :
          before[i].data = aged[j].data /\ before[i].age = aged[j].age + 1
    BY DEF LeftOf, len
  <2>5. \A i \in 1..(len + 1) : \E j \in 1..n :
          left[i].data = aged[j].data /\ left[i].age = aged[j].age + 1
    <3> SUFFICES ASSUME NEW i \in 1..(len + 1)
                 PROVE  \E j \in 1..n : left[i].data = aged[j].data /\ left[i].age = aged[j].age + 1
      OBVIOUS
    <3>1. CASE i \in 1..len
      <4>1. PICK j \in 1..(n - 1) : before[i].data = aged[j].data /\ before[i].age = aged[j].age + 1
        BY <2>4, <3>1
      <4>2. j \in 1..n
        BY <1>0, <4>1
      <4> QED
        BY <2>2, <3>1, <4>1, <4>2
    <3>2. CASE i = len + 1
      <4>1. n \in 1..n
        BY <1>0
      <4> QED
        BY <2>1, <2>2, <3>2, <4>1
    <3> QED
      BY <2>3, <3>1, <3>2
  <2>6. ASSUME Distinct(aged) PROVE Distinct(left)
    <3>1. \A i \in 1..len : before[i].data.number # e.data.number
      <4> SUFFICES ASSUME NEW i \in 1..len PROVE before[i].data.number # e.data.number
        OBVIOUS
      <4>1. PICK j \in 1..(n - 1) : before[i].data = aged[j].data
        BY <2>4
      <4>2. j \in DOMAIN aged /\ n \in DOMAIN aged /\ j # n
        BY <1>0, <4>1
      <4> QED
        BY <2>1, <2>6, <4>1, <4>2 DEF Distinct
    <3>2. \A i, j \in 1..len : before[i].data.number = before[j].data.number => i = j
      BY <1>b, <2>6 DEF LeftOf, Distinct
    <3>3. DOMAIN left = 1..(len + 1)
      BY <2>2
    <3>4. \A i, j \in 1..(len + 1) : left[i].data.number = left[j].data.number => i = j
      BY <2>2, <2>3, <3>1, <3>2
    <3> QED
      BY <3>3, <3>4 DEF Distinct
  <2>7. len + 1 <= n
    BY <1>0
  <2>8. OlderStep(aged, oldest, before, n) = left
    BY <1>1 DEF OlderStep, left, e
  <2> QED
    BY <2>2, <2>5, <2>6, <2>7, <2>8 DEF LeftOf
<1>2. CASE ~(aged[n].age + 1 <= oldest)
  <2>1. OlderStep(aged, oldest, before, n) = before
    BY <1>2 DEF OlderStep
  <2>2. \A j \in 1..(n - 1) : j \in 1..n
    BY <1>0
  <2>3. \A i \in 1..len : \E j \in 1..(n - 1) :
          before[i].data = aged[j].data /\ before[i].age = aged[j].age + 1
    BY DEF LeftOf
  <2>4. len <= n /\ (Distinct(aged) => Distinct(before))
    BY <1>0 DEF LeftOf
  <2> QED
    BY <1>0, <2>1, <2>2, <2>3, <2>4 DEF LeftOf
<1> QED
  BY <1>1, <1>2

LEMMA OlderLeaves ==
  ASSUME NEW M, NEW aged \in Seq([data : M, age : Nat]), NEW oldest \in Nat
  PROVE  LeftOf(aged, oldest, M, Len(aged), Older(aged, oldest))
<1> DEFINE len == Len(aged)
           left == CHOOSE g : OlderUpTo(aged, oldest, g, len)
<1>0. len \in Nat
  OBVIOUS
<1>1. OlderUpTo(aged, oldest, left, len)
  BY <1>0, OlderIsDefined
<1>2. Older(aged, oldest) = left[len]
  BY DEF Older, OlderUpTo, OlderStep
<1> DEFINE T == {n \in 0..len : ~ LeftOf(aged, oldest, M, n, left[n])}
<1> HIDE DEF left
<1>3. \A n \in 0..len : left[n] = IF n = 0 THEN <<>> ELSE OlderStep(aged, oldest, left[n - 1], n)
  BY <1>1 DEF OlderUpTo
<1>4. ASSUME T # {} PROVE FALSE
  <2>1. PICK n \in T : \A k \in T : n <= k
    <3>1. T \subseteq Nat
      BY <1>0
    <3> HIDE DEF T
    <3> QED
      BY <1>4, <3>1, Least
  <2>2. CASE n = 0
    <3>1. left[0] = <<>>
      BY <1>0, <1>3
    <3>2. LeftOf(aged, oldest, M, 0, <<>>)
      <4>1. Len(<<>>) = 0 /\ DOMAIN <<>> = {} /\ 1..0 = {}
        OBVIOUS
      <4> QED
        BY <4>1 DEF LeftOf, Distinct
    <3> QED
      BY <2>1, <2>2, <3>1, <3>2
  <2>3. CASE n # 0
    <3>1. n \in 1..len /\ n - 1 \in 0..len /\ ~(n <= n - 1)
      BY <1>0, <2>1, <2>3
    <3>2. LeftOf(aged, oldest, M, n - 1, left[n - 1])
      BY <2>1, <3>1
    <3>3. LeftOf(aged, oldest, M, n, OlderStep(aged, oldest, left[n - 1], n))
      BY <3>1, <3>2, OlderStepLeaves
    <3>4. left[n] = OlderStep(aged, oldest, left[n - 1], n)
      BY <1>3, <2>3, <3>1, <1>0
    <3> QED
      BY <2>1, <3>3, <3>4
  <2> QED
    BY <2>2, <2>3
<1>5. len \in 0..len
  BY <1>0
<1> QED
  BY <1>2, <1>4, <1>5
-----------------------------------------------------------------------------
Entries == [data : Measurements, age : Nat]

(* Where the measurements of a kind are: each in one place at most, among  *)
(* those received; used is how often each was used, which for one with an  *)
(* age is that age.                                                        *)
Placed(staged, aged, used, got, steps) ==
  /\ \A i, j \in DOMAIN staged : staged[i].number = staged[j].number => i = j
  /\ \A i \in DOMAIN staged : staged[i].number <= got /\ used[staged[i].number] = 0
  /\ Distinct(aged)
  /\ \A i \in DOMAIN aged :
       aged[i].data.number <= got /\ used[aged[i].data.number] = aged[i].age
  /\ \A n \in Numbers : used[n] <= steps /\ (n > got => used[n] = 0)

LEMMA MeasurementsOf ==
  ASSUME NEW staged \in Seq(Measurements)
  PROVE  \A i \in DOMAIN staged : staged[i] \in Measurements /\ staged[i].number \in Nat
<1>1. \A i \in DOMAIN staged : staged[i] \in Measurements
  BY LenProperties, ElementOfSeq
<1>2. \A m \in Measurements : m.number \in Nat
  BY DEF Measurements, Numbers
<1> QED
  BY <1>1, <1>2

LEMMA MeasurementsIn ==
  ASSUME NEW aged \in Seq(Entries)
  PROVE  \A i \in DOMAIN aged :
           /\ aged[i] \in Entries /\ aged[i].data \in Measurements
           /\ aged[i].data.number \in Nat /\ aged[i].age \in Nat
<1>1. \A i \in DOMAIN aged : aged[i] \in Entries
  BY LenProperties, ElementOfSeq
<1>2. \A e \in Entries : e.data \in Measurements /\ e.age \in Nat
  BY DEF Entries
<1>3. \A m \in Measurements : m.number \in Nat
  BY DEF Measurements, Numbers
<1> QED
  BY <1>1, <1>2, <1>3

(* What is staged after a measurement came in. *)
LEMMA Staging ==
  ASSUME NEW staged \in Seq(Measurements), NEW m \in Measurements, NEW size \in Nat,
         \A i, j \in DOMAIN staged : staged[i].number = staged[j].number => i = j,
         \A i \in DOMAIN staged : staged[i].number # m.number
  PROVE  LET new == Newest(Append(staged, m), size)
         IN  /\ new \in Seq(Measurements) /\ Len(new) <= size
             /\ \A i, j \in DOMAIN new : new[i].number = new[j].number => i = j
             /\ \A i \in DOMAIN new :
                  new[i] = m \/ \E j \in DOMAIN staged : new[i] = staged[j]
<1> DEFINE all == Append(staged, m)
           new == Newest(all, size)
           len == Len(staged)
<1>1. /\ len \in Nat /\ DOMAIN staged = 1..len
      /\ all \in Seq(Measurements) /\ Len(all) = len + 1
      /\ \A i \in 1..len : all[i] = staged[i]
      /\ all[len + 1] = m
  BY AppendProperties, LenProperties
<1> HIDE DEF all
<1>2. /\ new \in Seq(Measurements) /\ Len(new) <= size
      /\ \E d \in Nat : \A i \in 1..Len(new) : i + d \in 1..Len(all) /\ new[i] = all[i + d]
  <2>1. all \in Seq(Measurements)
    BY <1>1
  <2> QED
    BY <2>1, NewestIsTheEnd
<1>3. PICK d \in Nat : \A i \in 1..Len(new) : i + d \in 1..Len(all) /\ new[i] = all[i + d]
  BY <1>2
<1>4. DOMAIN new = 1..Len(new) /\ Len(new) \in Nat
  BY <1>2, LenProperties
<1> HIDE DEF new, len
<1>5. \A i \in 1..(len + 1) : i \in 1..len \/ i = len + 1
  <2>1. len \in Nat
    BY <1>1
  <2> QED
    BY <2>1
<1>6. \A i, j \in 1..(len + 1) : all[i].number = all[j].number => i = j
  <2>1. \A i, j \in 1..len : staged[i].number = staged[j].number => i = j
    BY <1>1
  <2>2. \A i \in 1..len : staged[i].number # m.number
    BY <1>1
  <2> QED
    BY <1>1, <1>5, <2>1, <2>2
<1>7. ASSUME NEW i \in DOMAIN new
      PROVE  new[i] = m \/ \E j \in DOMAIN staged : new[i] = staged[j]
  <2>1. i + d \in 1..(len + 1) /\ new[i] = all[i + d]
    BY <1>1, <1>3, <1>4
  <2> DEFINE k == i + d
  <2>2. k \in 1..(len + 1) /\ new[i] = all[k]
    BY <2>1
  <2> HIDE DEF k
  <2>3. CASE k \in 1..len
    <3>1. k \in DOMAIN staged /\ all[k] = staged[k]
      BY <1>1, <2>3
    <3> QED
      BY <2>2, <3>1
  <2>4. CASE k = len + 1
    BY <1>1, <2>2, <2>4
  <2> QED
    BY <1>5, <2>2, <2>3, <2>4
<1>8. \A i, j \in DOMAIN new : new[i].number = new[j].number => i = j
  <2>1. \A i, j \in 1..Len(new) : i + d = j + d => i = j
    BY <1>4
  <2>2. \A i, j \in 1..Len(new) : new[i].number = new[j].number => i + d = j + d
    BY <1>1, <1>3, <1>6
  <2> QED
    BY <1>4, <2>1, <2>2
<1> QED
  BY <1>2, <1>7, <1>8 DEF new, all

(* What an update finds, each measurement once. *)
Found(seq, used, got, steps, staged, aged) ==
  /\ seq \in Seq(Entries) /\ Distinct(seq)
  /\ \A i \in DOMAIN seq :
       /\ seq[i].data.number <= got /\ used[seq[i].data.number] = seq[i].age
       /\ seq[i].age + 1 <= steps
       /\ \/ \E j \in DOMAIN staged : seq[i].data = staged[j]
          \/ \E j \in DOMAIN aged : seq[i].data = aged[j].data

LEMMA WaitingIsFound ==
  ASSUME NEW steps \in Nat \ {0}, NEW staged \in Seq(Measurements),
         NEW aged \in Seq([data : Measurements, age : 1..(steps - 1)]), NEW used,
         NEW got \in Nat, Placed(staged, aged, used, got, steps)
  PROVE  Found(aged \o [i \in DOMAIN staged |-> [data |-> staged[i], age |-> 0]],
                used, got, steps, staged, aged)
<1> DEFINE fresh == [i \in DOMAIN staged |-> [data |-> staged[i], age |-> 0]]
           whole == aged \o fresh
           old == Len(aged)
           len == Len(staged)
<1>1. aged \in Seq(Entries)
  <2>1. [data : Measurements, age : 1..(steps - 1)] \subseteq Entries
    BY DEF Entries
  <2> QED
    BY <2>1, SeqMonotonic
<1>2. /\ old \in Nat /\ DOMAIN aged = 1..old
      /\ len \in Nat /\ DOMAIN staged = 1..len
  BY <1>1, LenProperties
<1>3. fresh \in Seq(Entries) /\ Len(fresh) = len
  <2>1. \A i \in 1..len : [data |-> staged[i], age |-> 0] \in Entries
    BY <1>2, MeasurementsOf DEF Entries
  <2>2. fresh = [i \in 1..len |-> [data |-> staged[i], age |-> 0]]
    BY <1>2
  <2> HIDE DEF len
  <2>3. [i \in 1..len |-> [data |-> staged[i], age |-> 0]] \in Seq(Entries)
    BY <1>2, <2>1
  <2>4. Len([i \in 1..len |-> [data |-> staged[i], age |-> 0]]) = len
    BY <1>2
  <2> QED
    BY <2>2, <2>3, <2>4
<1>4. \A i \in 1..len : fresh[i].data = staged[i] /\ fresh[i].age = 0
  BY <1>2
<1> HIDE DEF fresh, len
<1>5. /\ whole \in Seq(Entries) /\ Len(whole) = old + len
      /\ \A i \in 1..(old + len) : whole[i] = IF i <= old THEN aged[i] ELSE fresh[i - old]
  BY <1>1, <1>3, ConcatProperties
<1>6. DOMAIN whole = 1..(old + len)
  BY <1>5, LenProperties
<1> HIDE DEF whole, old
<1>7. \A i \in 1..(old + len) :
        \/ i \in 1..old /\ whole[i] = aged[i]
        \/ ~(i <= old) /\ i - old \in 1..len /\ whole[i] = fresh[i - old]
  BY <1>2, <1>5
<1>8. \A i \in 1..old : /\ aged[i].data.number <= got
                        /\ used[aged[i].data.number] = aged[i].age
                        /\ aged[i].age \in 1..(steps - 1)
  <2> DEFINE R == [data : Measurements, age : 1..(steps - 1)]
  <2>0. aged \in Seq(R)
    OBVIOUS
  <2>2. \A e \in R : e.age \in 1..(steps - 1)
    OBVIOUS
  <2> HIDE DEF R
  <2>1. \A i \in 1..old : aged[i] \in R
    BY <2>0, ElementOfSeq DEF old
  <2> QED
    BY <1>2, <2>1, <2>2 DEF Placed
<1>9. \A i \in 1..len : staged[i].number <= got /\ used[staged[i].number] = 0
  BY <1>2 DEF Placed
<1>10. \A n \in 1..(steps - 1) : n # 0 /\ n + 1 <= steps
  OBVIOUS
<1>11. Distinct(whole)
  <2> SUFFICES ASSUME NEW i \in 1..(old + len), NEW j \in 1..(old + len),
                      whole[i].data.number = whole[j].data.number
               PROVE  i = j
    BY <1>6 DEF Distinct
  <2>a. \A k \in 1..len : used[fresh[k].data.number] = 0
    BY <1>4, <1>9
  <2>b. \A k \in 1..old : used[aged[k].data.number] # 0
    BY <1>8, <1>10
  <2>1. CASE i \in 1..old /\ whole[i] = aged[i] /\ j \in 1..old /\ whole[j] = aged[j]
    BY <1>2, <2>1 DEF Placed, Distinct
  <2>2. CASE /\ i - old \in 1..len /\ whole[i] = fresh[i - old]
             /\ j - old \in 1..len /\ whole[j] = fresh[j - old]
    <3>1. staged[i - old].number = staged[j - old].number
      BY <1>4, <2>2
    <3>2. i - old = j - old
      BY <1>2, <2>2, <3>1 DEF Placed
    <3> QED
      BY <1>2, <3>2
  <2>3. CASE i \in 1..old /\ whole[i] = aged[i] /\ j - old \in 1..len /\ whole[j] = fresh[j - old]
    <3>1. used[whole[i].data.number] # 0
      BY <2>b, <2>3
    <3>2. used[whole[j].data.number] = 0
      BY <2>a, <2>3
    <3> QED
      BY <3>1, <3>2
  <2>4. CASE i - old \in 1..len /\ whole[i] = fresh[i - old] /\ j \in 1..old /\ whole[j] = aged[j]
    <3>1. used[whole[j].data.number] # 0
      BY <2>b, <2>4
    <3>2. used[whole[i].data.number] = 0
      BY <2>a, <2>4
    <3> QED
      BY <3>1, <3>2
  <2> QED
    BY <1>7, <2>1, <2>2, <2>3, <2>4
<1>12. \A i \in 1..(old + len) :
         /\ whole[i].data.number <= got /\ used[whole[i].data.number] = whole[i].age
         /\ whole[i].age + 1 <= steps
         /\ \/ \E j \in DOMAIN staged : whole[i].data = staged[j]
            \/ \E j \in DOMAIN aged : whole[i].data = aged[j].data
  <2> SUFFICES ASSUME NEW i \in 1..(old + len)
               PROVE  /\ whole[i].data.number <= got
                      /\ used[whole[i].data.number] = whole[i].age
                      /\ whole[i].age + 1 <= steps
                      /\ \/ \E j \in DOMAIN staged : whole[i].data = staged[j]
                         \/ \E j \in DOMAIN aged : whole[i].data = aged[j].data
    OBVIOUS
  <2>1. CASE i \in 1..old /\ whole[i] = aged[i]
    BY <1>2, <1>8, <1>10, <2>1
  <2>2. CASE i - old \in 1..len /\ whole[i] = fresh[i - old]
    <3>1. 0 + 1 <= steps
      OBVIOUS
    <3> QED
      BY <1>2, <1>4, <1>9, <2>2, <3>1
  <2> QED
    BY <1>7, <2>1, <2>2
<1> QED
  BY <1>5, <1>6, <1>11, <1>12 DEF Found, whole, fresh

LEMMA NewestIsFound ==
  ASSUME NEW seq, NEW used, NEW got, NEW steps, NEW staged, NEW aged, NEW max \in Nat,
         Found(seq, used, got, steps, staged, aged)
  PROVE  /\ Found(Newest(seq, max), used, got, steps, staged, aged)
         /\ Len(Newest(seq, max)) <= max
<1> DEFINE rest == Newest(seq, max)
<1>1. seq \in Seq(Entries) /\ DOMAIN seq = 1..Len(seq)
  BY LenProperties DEF Found
<1>2. rest \in Seq(Entries) /\ Len(rest) <= max
  BY <1>1, NewestIsTheEnd
<1>3. PICK d \in Nat : \A i \in 1..Len(rest) : i + d \in 1..Len(seq) /\ rest[i] = seq[i + d]
  BY <1>1, NewestIsTheEnd
<1> HIDE DEF rest
<1>4. DOMAIN rest = 1..Len(rest) /\ Len(rest) \in Nat
  BY <1>2, LenProperties
<1>5. Distinct(rest)
  <2>1. \A n \in Nat : \A i, j \in 1..n : i + d = j + d => i = j
    OBVIOUS
  <2>2. \A i, j \in 1..Len(rest) : rest[i].data.number = rest[j].data.number => i + d = j + d
    BY <1>1, <1>3 DEF Found, Distinct
  <2> QED
    BY <1>4, <2>1, <2>2 DEF Distinct
<1>6. \A i \in DOMAIN rest : i + d \in DOMAIN seq /\ rest[i] = seq[i + d]
  BY <1>1, <1>3, <1>4
<1> QED
  BY <1>2, <1>5, <1>6 DEF Found, rest

(* An update uses each of them once more than before, and keeps those that *)
(* have not been used often enough.                                        *)
Counted(drained, used) ==
  [n \in Numbers |-> used[n] + Cardinality({i \in DOMAIN drained : drained[i].data.number = n})]

Updated(drained, used, got, steps, staged, aged) ==
  LET older == Older(drained, steps - 1)
  IN  /\ older \in Seq([data : Measurements, age : 1..(steps - 1)])
      /\ Len(older) <= Len(drained)
      /\ Counted(drained, used) \in [Numbers -> Nat]
      /\ Placed(<<>>, older, Counted(drained, used), got, steps)
      /\ \A i \in DOMAIN older :
           \/ \E j \in DOMAIN staged : older[i].data = staged[j]
           \/ \E j \in DOMAIN aged : older[i].data = aged[j].data

LEMMA UpdatingPlaces ==
  ASSUME NEW steps \in Nat \ {0}, NEW staged, NEW aged, NEW used \in [Numbers -> Nat],
         NEW got \in Nat, NEW drained, Found(drained, used, got, steps, staged, aged),
         \A n \in Numbers : used[n] <= steps /\ (n > got => used[n] = 0)
  PROVE  Updated(drained, used, got, steps, staged, aged)
<1> DEFINE older == Older(drained, steps - 1)
           using(n) == {i \in DOMAIN drained : drained[i].data.number = n}
           now_used == [n \in Numbers |-> used[n] + Cardinality(using(n))]
           len == Len(drained)
<1>0. now_used = Counted(drained, used)
  BY DEF Counted
<1>1. drained \in Seq(Entries) /\ DOMAIN drained = 1..len /\ len \in Nat
  BY LenProperties DEF Found
<1>2. LeftOf(drained, steps - 1, Measurements, len, older)
  <2>1. steps - 1 \in Nat /\ drained \in Seq([data : Measurements, age : Nat])
    BY <1>1 DEF Entries
  <2> QED
    BY <2>1, OlderLeaves
<1> HIDE DEF older
<1>3. /\ older \in Seq([data : Measurements, age : 1..(steps - 1)]) /\ Len(older) <= len
      /\ DOMAIN older = 1..Len(older)
      /\ \A i \in DOMAIN older : \E j \in DOMAIN drained :
           older[i].data = drained[j].data /\ older[i].age = drained[j].age + 1
      /\ Distinct(older)
  <2>1. older \in Seq([data : Measurements, age : 1..(steps - 1)])
    BY <1>2 DEF LeftOf
  <2>2. DOMAIN older = 1..Len(older)
    BY <2>1, LenProperties
  <2>3. Distinct(drained)
    BY DEF Found
  <2> HIDE DEF len
  <2> QED
    BY <1>1, <1>2, <2>1, <2>2, <2>3 DEF LeftOf
(* Each measurement that is found is found once. *)
<1>4. ASSUME NEW j \in DOMAIN drained
      PROVE  Cardinality(using(drained[j].data.number)) = 1
  <2>1. using(drained[j].data.number) = {j}
    BY DEF Found, Distinct
  <2> QED
    BY <2>1, FS_Singleton
<1>5. ASSUME NEW n \in Numbers, \A j \in DOMAIN drained : drained[j].data.number # n
      PROVE  Cardinality(using(n)) = 0
  <2>1. using(n) = {}
    BY <1>5
  <2> QED
    BY <2>1, FS_EmptySet
<1>6. \A j \in DOMAIN drained : drained[j].data.number \in Numbers /\ drained[j].age \in Nat
  <2>1. \A m \in Measurements : m.number \in Numbers
    BY DEF Measurements
  <2> QED
    BY <1>1, <2>1, MeasurementsIn
<1> HIDE DEF using
<1>7. \A n \in Numbers :
        \/ Cardinality(using(n)) = 0 /\ \A j \in DOMAIN drained : drained[j].data.number # n
        \/ /\ Cardinality(using(n)) = 1
           /\ \E j \in DOMAIN drained : drained[j].data.number = n
  BY <1>4, <1>5
<1>8. \A n \in Numbers : used[n] \in Nat /\ now_used[n] = used[n] + Cardinality(using(n))
  OBVIOUS
<1>9. now_used \in [Numbers -> Nat]
  <2>1. \A n \in Numbers : used[n] + Cardinality(using(n)) \in Nat
    BY <1>7, <1>8
  <2> QED
    BY <2>1
<1> HIDE DEF now_used
<1>10. \A j \in DOMAIN drained :
         /\ drained[j].data.number <= got /\ used[drained[j].data.number] = drained[j].age
         /\ now_used[drained[j].data.number] = drained[j].age + 1
         /\ drained[j].age + 1 <= steps
  BY <1>4, <1>6, <1>8 DEF Found
<1>11. \A i \in DOMAIN older :
         older[i].data.number <= got /\ now_used[older[i].data.number] = older[i].age
  BY <1>3, <1>10
<1>12. ASSUME NEW n \in Numbers
       PROVE  now_used[n] <= steps /\ (n > got => now_used[n] = 0)
  <2>1. CASE \E j \in DOMAIN drained : drained[j].data.number = n
    <3>1. PICK j \in DOMAIN drained : drained[j].data.number = n
      BY <2>1
    <3>2. n \in Nat /\ n <= got
      BY <1>10, <3>1 DEF Numbers
    <3> QED
      BY <1>10, <3>1, <3>2
  <2>2. CASE \A j \in DOMAIN drained : drained[j].data.number # n
    BY <1>5, <1>8, <2>2
  <2> QED
    BY <2>1, <2>2
<1>13. Placed(<<>>, older, now_used, got, steps)
  <2>1. DOMAIN <<>> = {}
    OBVIOUS
  <2> QED
    BY <1>3, <1>11, <1>12, <2>1 DEF Placed
<1>14. ASSUME NEW i \in DOMAIN older
       PROVE  \/ \E j \in DOMAIN staged : older[i].data = staged[j]
              \/ \E j \in DOMAIN aged : older[i].data = aged[j].data
  <2>1. PICK j \in DOMAIN drained : older[i].data = drained[j].data
    BY <1>3, Zenon
  <2>2. \/ \E k \in DOMAIN staged : drained[j].data = staged[k]
        \/ \E k \in DOMAIN aged : drained[j].data = aged[k].data
    BY Zenon DEF Found
  <2> QED
    BY <2>1, <2>2, Zenon
<1> QED
  BY <1>0, <1>3, <1>9, <1>13, <1>14 DEF Updated, older
-----------------------------------------------------------------------------
EkfRecords ==
  [active : BOOLEAN, set : BOOLEAN, pose : {NoPose, ResetPose},
   staged : [Kinds -> Seq(Measurements)], aged : [Kinds -> Seq(Entries)]]

QueueTypes ==
  /\ now \in Times /\ era \in 0..MaxEras /\ received \in 0..MaxMeasurements
  /\ pushing \in Measurements \cup {NoPush}
  /\ uses \in [Kinds -> [Numbers -> Nat]]
  /\ ekf \in EkfRecords
  /\ \A k \in Kinds :
       /\ Len(ekf.staged[k]) <= MaxQueueSize[k]
       /\ ekf.aged[k] \in Seq([data : Measurements, age : 1..(SmoothingSteps[k] - 1)])
       /\ Len(ekf.aged[k]) <= MaxAged(k)

(* Each measurement is in one place at most. *)
OnePlace ==
  /\ \A k \in Kinds : Placed(ekf.staged[k], ekf.aged[k], uses[k], received, SmoothingSteps[k])
  /\ pushing # NoPush =>
       /\ pushing.number <= received /\ uses["pose"][pushing.number] = 0
       /\ \A i \in DOMAIN ekf.staged["pose"] : ekf.staged["pose"][i].number # pushing.number

(* A pose of an earlier era: in a queue, or in the hands of push_pose.     *)
StaleIn(p) ==
  /\ p.era < era
  /\ \/ \E i \in DOMAIN ekf.staged["pose"] : p = ekf.staged["pose"][i]
     \/ \E i \in DOMAIN ekf.aged["pose"] : p = ekf.aged["pose"][i].data

OneStale ==
  ekf.active =>
    \A p, q \in Measurements :
      StaleIn(p) =>
        /\ StaleIn(q) => p = q
        /\ pushing # NoPush => ~(pushing.era < era)

QueueInv == QueueTypes /\ OnePlace /\ OneStale

LEMMA Bounds ==
  /\ MaxTime \in Nat /\ MaxMeasurements \in Nat /\ MaxEras \in Nat
  /\ \A k \in Kinds : /\ SmoothingSteps[k] \in Nat \ {0} /\ MaxQueueSize[k] \in Nat \ {0}
                      /\ MaxAged(k) \in Nat
  /\ \A m \in Measurements : m # NoPush /\ m.number \in Numbers /\ m.era \in 0..MaxEras
  /\ "pose" \in Kinds /\ "twist" \in Kinds
<1>1. MaxTime \in Nat /\ MaxMeasurements \in Nat /\ MaxEras \in Nat
  BY UpdatesAssumption
<1>2. \A k \in Kinds : SmoothingSteps[k] \in Nat \ {0} /\ MaxQueueSize[k] \in Nat \ {0}
  BY EkfAssumption
<1>3. \A k \in Kinds : MaxAged(k) \in Nat
  BY <1>2 DEF MaxAged
<1>4. \A m \in Measurements : m # NoPush /\ m.number \in Numbers /\ m.era \in 0..MaxEras
  BY DEF Measurements, NoPush, Numbers
<1> QED
  BY <1>1, <1>2, <1>3, <1>4 DEF Kinds

(* More measurements come in: those there are stay where they are. *)
LEMMA PlacedStill ==
  ASSUME QueueInv, NEW k \in Kinds, NEW more \in Nat, received <= more
  PROVE  Placed(ekf.staged[k], ekf.aged[k], uses[k], more, SmoothingSteps[k])
<1>1. Placed(ekf.staged[k], ekf.aged[k], uses[k], received, SmoothingSteps[k])
  BY DEF QueueInv, OnePlace
<1>2. \A n \in Nat : (n <= received => n <= more) /\ (n > more => n > received)
  BY DEF QueueInv, QueueTypes
<1>3. \A i \in DOMAIN ekf.aged[k] : ekf.aged[k][i].data.number \in Nat
  BY MeasurementsIn DEF QueueInv, QueueTypes, EkfRecords
<1>4. \A i \in DOMAIN ekf.staged[k] : ekf.staged[k][i].number \in Nat
  BY MeasurementsOf DEF QueueInv, QueueTypes, EkfRecords
<1>5. /\ \A i, j \in DOMAIN ekf.staged[k] :
           ekf.staged[k][i].number = ekf.staged[k][j].number => i = j
      /\ \A i \in DOMAIN ekf.staged[k] :
           ekf.staged[k][i].number <= more /\ uses[k][ekf.staged[k][i].number] = 0
  BY <1>1, <1>2, <1>4, Zenon DEF Placed
<1>6. /\ Distinct(ekf.aged[k])
      /\ \A i \in DOMAIN ekf.aged[k] :
           /\ ekf.aged[k][i].data.number <= more
           /\ uses[k][ekf.aged[k][i].data.number] = ekf.aged[k][i].age
  BY <1>1, <1>2, <1>3, Zenon DEF Placed
<1>7. \A n \in Numbers : uses[k][n] <= SmoothingSteps[k] /\ (n > more => uses[k][n] = 0)
  <2>1. Numbers \subseteq Nat
    BY DEF Numbers
  <2> QED
    BY <1>1, <1>2, <2>1, Zenon DEF Placed
<1> QED
  BY <1>5, <1>6, <1>7, Zenon DEF Placed

(* A measurement that is nowhere yet is staged. *)
LEMMA StageKeepsQueueInv ==
  ASSUME QueueInv, NEW kind \in Kinds, NEW m \in Measurements,
         ekf' = Stage(ekf, kind, m), UNCHANGED <<now, era, uses>>,
         received' \in 0..MaxMeasurements, received <= received', m.number <= received',
         uses[kind][m.number] = 0,
         \A i \in DOMAIN ekf.staged[kind] : ekf.staged[kind][i].number # m.number,
         kind = "pose" => pushing = m /\ pushing' = NoPush,
         kind # "pose" => UNCHANGED pushing
  PROVE  QueueInv'
<1> DEFINE new == Newest(Append(ekf.staged[kind], m), MaxQueueSize[kind])
<1>0. /\ MaxQueueSize[kind] \in Nat /\ received \in Nat /\ received' \in Nat
      /\ ekf.staged[kind] \in Seq(Measurements) /\ ekf.aged[kind] \in Seq(Entries)
      /\ ekf \in EkfRecords
  BY Bounds DEF QueueInv, QueueTypes, EkfRecords
<1>1. /\ new \in Seq(Measurements) /\ Len(new) <= MaxQueueSize[kind]
      /\ \A i, j \in DOMAIN new : new[i].number = new[j].number => i = j
      /\ \A i \in DOMAIN new :
           new[i] = m \/ \E j \in DOMAIN ekf.staged[kind] : new[i] = ekf.staged[kind][j]
  <2>1. \A i, j \in DOMAIN ekf.staged[kind] :
          ekf.staged[kind][i].number = ekf.staged[kind][j].number => i = j
    BY DEF QueueInv, OnePlace, Placed
  <2> QED
    BY <1>0, <2>1, Staging
<1>2. /\ ekf' \in EkfRecords /\ ekf'.aged = ekf.aged /\ ekf'.active = ekf.active
      /\ ekf'.staged[kind] = new
      /\ \A k \in Kinds \ {kind} : ekf'.staged[k] = ekf.staged[k]
  <2> HIDE DEF new
  <2> DEFINE SM == Seq(Measurements)
             SE == Seq(Entries)
             staged == [ekf.staged EXCEPT ![kind] = new]
  <2>1. ekf' = [ekf EXCEPT !.staged = staged]
    BY DEF Stage, new
  <2>2. /\ ekf \in [active : BOOLEAN, set : BOOLEAN, pose : {NoPose, ResetPose},
                   staged : [Kinds -> SM], aged : [Kinds -> SE]]
        /\ new \in SM
    BY <1>0, <1>1 DEF EkfRecords
  <2> HIDE DEF SM, SE
  <2>3. /\ staged \in [Kinds -> SM] /\ staged[kind] = new
        /\ \A k \in Kinds \ {kind} : staged[k] = ekf.staged[k]
    BY <2>2
  <2> HIDE DEF staged
  <2>4. /\ ekf' \in [active : BOOLEAN, set : BOOLEAN, pose : {NoPose, ResetPose},
                    staged : [Kinds -> SM], aged : [Kinds -> SE]]
        /\ ekf'.aged = ekf.aged /\ ekf'.active = ekf.active /\ ekf'.staged = staged
    BY <2>1, <2>2, <2>3
  <2> QED
    BY <2>3, <2>4 DEF EkfRecords, SM, SE
<1> HIDE DEF new
<1>3. QueueTypes'
  BY <1>1, <1>2 DEF QueueInv, QueueTypes, NoPush
<1>4. \A k \in Kinds :
        Placed(ekf'.staged[k], ekf'.aged[k], uses'[k], received', SmoothingSteps[k])
  <2> SUFFICES ASSUME NEW k \in Kinds
               PROVE  Placed(ekf'.staged[k], ekf.aged[k], uses[k], received', SmoothingSteps[k])
    BY <1>2
  <2>1. Placed(ekf.staged[k], ekf.aged[k], uses[k], received', SmoothingSteps[k])
    BY <1>0, PlacedStill
  <2>2. CASE k # kind
    BY <1>2, <2>1, <2>2
  <2>3. CASE k = kind
    <3>1. \A i \in DOMAIN new : new[i].number <= received' /\ uses[kind][new[i].number] = 0
      <4>1. Placed(ekf.staged[kind], ekf.aged[kind], uses[kind], received', SmoothingSteps[kind])
        BY <2>1, <2>3, Zenon
      <4>2. \A j \in DOMAIN ekf.staged[kind] :
              /\ ekf.staged[kind][j].number <= received'
              /\ uses[kind][ekf.staged[kind][j].number] = 0
        BY <4>1, Zenon DEF Placed
      <4> SUFFICES ASSUME NEW i \in DOMAIN new
                   PROVE  new[i].number <= received' /\ uses[kind][new[i].number] = 0
        OBVIOUS
      <4>3. CASE new[i] = m
        BY <4>3
      <4>4. ASSUME NEW j \in DOMAIN ekf.staged[kind], new[i] = ekf.staged[kind][j]
            PROVE  new[i].number <= received' /\ uses[kind][new[i].number] = 0
        BY <4>2, <4>4
      <4> QED
        BY <1>1, <4>3, <4>4, Zenon
    <3>2. Placed(new, ekf.aged[k], uses[k], received', SmoothingSteps[k])
      <4>1. /\ Distinct(ekf.aged[k])
            /\ \A i \in DOMAIN ekf.aged[k] :
                 /\ ekf.aged[k][i].data.number <= received'
                 /\ uses[k][ekf.aged[k][i].data.number] = ekf.aged[k][i].age
            /\ \A n \in Numbers :
                 uses[k][n] <= SmoothingSteps[k] /\ (n > received' => uses[k][n] = 0)
        BY <2>1, Zenon DEF Placed
      <4>2. \A i \in DOMAIN new : new[i].number <= received' /\ uses[k][new[i].number] = 0
        BY <2>3, <3>1
      <4> QED
        BY <1>1, <4>1, <4>2, Zenon DEF Placed
    <3> QED
      BY <1>2, <2>3, <3>2
  <2> QED
    BY <2>2, <2>3
<1>5. OnePlace'
  <2>1. CASE kind = "pose"
    BY <1>4, <2>1 DEF OnePlace
  <2>2. CASE kind # "pose"
    <3>1. ekf'.staged["pose"] = ekf.staged["pose"] /\ UNCHANGED pushing
      BY <1>2, <2>2, Bounds
    <3>2. pushing # NoPush => pushing.number \in Nat
      BY Bounds DEF QueueInv, QueueTypes, Numbers
    <3> QED
      BY <1>0, <1>4, <3>1, <3>2 DEF QueueInv, OnePlace
  <2> QED
    BY <2>1, <2>2
<1>6. OneStale'
  <2>1. CASE kind = "pose"
    <3>1. \A p : StaleIn(p)' => p.era < era /\ (p = m \/ StaleIn(p))
      BY <1>1, <1>2, <2>1 DEF StaleIn
    <3>2. pushing = m /\ m # NoPush
      BY <2>1, Bounds
    <3> QED
      BY <1>2, <2>1, <3>1, <3>2 DEF QueueInv, OneStale
  <2>2. CASE kind # "pose"
    <3>1. ekf'.staged["pose"] = ekf.staged["pose"] /\ UNCHANGED pushing
      BY <1>2, <2>2, Bounds
    <3>2. \A p : StaleIn(p)' => StaleIn(p)
      BY <1>2, <3>1 DEF StaleIn
    <3> QED
      BY <1>2, <3>1, <3>2 DEF QueueInv, OneStale
  <2> QED
    BY <2>1, <2>2
<1> QED
  BY <1>3, <1>5, <1>6 DEF QueueInv

(* A step that leaves the queues alone. *)
LEMMA OthersKeepQueueInv ==
  ASSUME QueueInv, ekf' \in EkfRecords, ekf'.staged = ekf.staged, ekf'.aged = ekf.aged,
         ekf'.active => ekf.active, now' \in Times, UNCHANGED <<era, uses>>,
         \/ UNCHANGED <<received, pushing>>
         \/ /\ received < MaxMeasurements /\ received' = received + 1
            /\ pushing' = [number |-> received', era |-> era]
  PROVE  QueueInv'
<1>1. /\ received \in Nat /\ received <= received' /\ received' \in 0..MaxMeasurements
      /\ received' \in Nat /\ era \in 0..MaxEras /\ MaxMeasurements \in Nat
  BY Bounds DEF QueueInv, QueueTypes
<1>2. CASE UNCHANGED <<received, pushing>>
  <2>1. QueueTypes'
    BY <1>1, <1>2 DEF QueueInv, QueueTypes
  <2>2. OnePlace'
    BY <1>2 DEF QueueInv, OnePlace
  <2>3. OneStale'
    BY <1>2 DEF QueueInv, OneStale, StaleIn
  <2> QED
    BY <2>1, <2>2, <2>3 DEF QueueInv
<1>3. CASE received' = received + 1 /\ pushing' = [number |-> received', era |-> era]
  <2>1. received' \in Numbers /\ pushing' \in Measurements
    BY <1>1, <1>3 DEF Numbers, Measurements
  <2>2. QueueTypes'
    BY <1>1, <2>1 DEF QueueInv, QueueTypes
  <2>3. OnePlace'
    <3>1. \A k \in Kinds :
            Placed(ekf.staged[k], ekf.aged[k], uses[k], received', SmoothingSteps[k])
      BY <1>1, PlacedStill
    <3>2. Placed(ekf.staged["pose"], ekf.aged["pose"], uses["pose"], received,
                 SmoothingSteps["pose"])
      BY Bounds DEF QueueInv, OnePlace
    <3>3. uses["pose"][received'] = 0
      <4>1. received' > received
        BY <1>1, <1>3
      <4> QED
        BY <2>1, <3>2, <4>1, Zenon DEF Placed
    <3>4. \A i \in DOMAIN ekf.staged["pose"] : ekf.staged["pose"][i].number # received'
      <4>1. \A n \in Nat : n <= received => n # received'
        BY <1>1, <1>3
      <4>2. \A i \in DOMAIN ekf.staged["pose"] : ekf.staged["pose"][i].number \in Nat
        BY MeasurementsOf, Bounds DEF QueueInv, QueueTypes, EkfRecords
      <4>3. \A i \in DOMAIN ekf.staged["pose"] : ekf.staged["pose"][i].number <= received
        BY <3>2, Zenon DEF Placed
      <4> QED
        BY <4>1, <4>2, <4>3, Zenon
    <3> QED
      BY <1>1, <1>3, <3>1, <3>3, <3>4 DEF OnePlace
  <2>4. OneStale'
    BY <1>1, <1>3 DEF QueueInv, OneStale, StaleIn
  <2> QED
    BY <2>2, <2>3, <2>4 DEF QueueInv
<1> QED
  BY <1>2, <1>3

LEMMA ActivationKeepsQueueInv ==
  ASSUME QueueInv, ekf' = Activate(ekf, TRUE), era < MaxEras, era' = era + 1,
         UNCHANGED <<now, received, pushing, uses>>
  PROVE  QueueInv'
<1>1. /\ ekf' \in EkfRecords /\ ekf'.staged = EmptyQueues /\ ekf'.aged = EmptyQueues
  <2> DEFINE SM == Seq(Measurements)
             SE == Seq(Entries)
  <2>1. ekf' = [ekf EXCEPT !.active = TRUE, !.staged = EmptyQueues, !.aged = EmptyQueues]
    BY DEF Activate
  <2>2. /\ ekf \in [active : BOOLEAN, set : BOOLEAN, pose : {NoPose, ResetPose},
                   staged : [Kinds -> SM], aged : [Kinds -> SE]]
        /\ EmptyQueues \in [Kinds -> SM] /\ EmptyQueues \in [Kinds -> SE]
    BY DEF EkfRecords, QueueInv, QueueTypes, EmptyQueues
  <2> HIDE DEF SM, SE
  <2>3. /\ ekf' \in [active : BOOLEAN, set : BOOLEAN, pose : {NoPose, ResetPose},
                    staged : [Kinds -> SM], aged : [Kinds -> SE]]
        /\ ekf'.staged = EmptyQueues /\ ekf'.aged = EmptyQueues
    BY <2>1, <2>2
  <2> QED
    BY <2>3 DEF EkfRecords, SM, SE
<1>2. \A k \in Kinds : ekf'.staged[k] = <<>> /\ ekf'.aged[k] = <<>>
  BY <1>1 DEF EmptyQueues
<1>3. Len(<<>>) = 0 /\ DOMAIN <<>> = {}
  OBVIOUS
<1>4. era' \in 0..MaxEras
  BY Bounds DEF QueueInv, QueueTypes
<1>5. QueueTypes'
  <2>1. \A k \in Kinds :
          /\ Len(ekf'.staged[k]) <= MaxQueueSize[k]
          /\ ekf'.aged[k] \in Seq([data : Measurements, age : 1..(SmoothingSteps[k] - 1)])
          /\ Len(ekf'.aged[k]) <= MaxAged(k)
    <3>1. \A k \in Kinds : 0 <= MaxQueueSize[k] /\ 0 <= MaxAged(k)
      BY Bounds
    <3>2. \A S : <<>> \in Seq(S)
      BY EmptySeq
    <3> QED
      BY <1>2, <1>3, <3>1, <3>2
  <2> QED
    BY <1>1, <1>4, <2>1 DEF QueueInv, QueueTypes
<1>6. OnePlace'
  BY <1>2, <1>3, Bounds DEF QueueInv, OnePlace, Placed, Distinct
<1>7. OneStale'
  BY <1>2, <1>3, Bounds DEF OneStale, StaleIn
<1> QED
  BY <1>5, <1>6, <1>7 DEF QueueInv

LEMMA DrainedIsFound ==
  ASSUME QueueInv, NEW k \in Kinds
  PROVE  /\ Found(Drained(ekf, k), uses[k], received, SmoothingSteps[k],
                  ekf.staged[k], ekf.aged[k])
         /\ Len(Drained(ekf, k)) <= MaxAged(k)
<1> DEFINE staged == ekf.staged[k]
           aged == ekf.aged[k]
           whole == aged \o [i \in DOMAIN staged |-> [data |-> staged[i], age |-> 0]]
<1>1. /\ staged \in Seq(Measurements)
      /\ aged \in Seq([data : Measurements, age : 1..(SmoothingSteps[k] - 1)])
      /\ received \in Nat /\ SmoothingSteps[k] \in Nat \ {0} /\ MaxAged(k) \in Nat
      /\ Placed(staged, aged, uses[k], received, SmoothingSteps[k])
  BY Bounds DEF QueueInv, QueueTypes, OnePlace, EkfRecords
<1> HIDE DEF staged, aged
<1>2. Found(whole, uses[k], received, SmoothingSteps[k], staged, aged)
  BY <1>1, WaitingIsFound
<1> HIDE DEF whole
<1>3. /\ Found(Newest(whole, MaxAged(k)), uses[k], received, SmoothingSteps[k], staged, aged)
      /\ Len(Newest(whole, MaxAged(k))) <= MaxAged(k)
  BY <1>1, <1>2, NewestIsFound
<1> QED
  BY <1>3 DEF Drained, whole, staged, aged

LEMMA UpdateKeepsQueueInv ==
  ASSUME QueueInv, Update
  PROVE  QueueInv'
<1>1. CASE ~Estimating(ekf)
  BY <1>1, OthersKeepQueueInv DEF Update, UpdateStep, QueueInv, QueueTypes
<1>2. CASE Estimating(ekf)
  <2> DEFINE older(k) == OlderByOne(Drained(ekf, k), SmoothingSteps[k])
             counted(k) == Counted(Drained(ekf, k), uses[k])
  <2>1. /\ ekf' = [ekf EXCEPT !.staged = EmptyQueues, !.aged = [k \in Kinds |-> older(k)]]
        /\ uses' = [k \in Kinds |-> counted(k)]
        /\ UNCHANGED <<now, pushing, received, era>>
    BY <1>2 DEF Update, UpdateStep, Counted, Using
  <2>2. ASSUME NEW k \in Kinds
        PROVE  /\ older(k) \in Seq([data : Measurements, age : 1..(SmoothingSteps[k] - 1)])
               /\ Len(older(k)) <= MaxAged(k)
               /\ counted(k) \in [Numbers -> Nat]
               /\ Placed(<<>>, older(k), counted(k), received, SmoothingSteps[k])
               /\ \A i \in DOMAIN older(k) :
                    \/ \E j \in DOMAIN ekf.staged[k] : older(k)[i].data = ekf.staged[k][j]
                    \/ \E j \in DOMAIN ekf.aged[k] : older(k)[i].data = ekf.aged[k][j].data
    <3> DEFINE drained == Drained(ekf, k)
               staged == ekf.staged[k]
               aged == ekf.aged[k]
               used == uses[k]
    <3>1. /\ Found(drained, used, received, SmoothingSteps[k], staged, aged)
          /\ Len(drained) <= MaxAged(k)
      BY DrainedIsFound
    <3>2. /\ SmoothingSteps[k] \in Nat \ {0} /\ used \in [Numbers -> Nat] /\ received \in Nat
          /\ MaxAged(k) \in Nat
      BY Bounds DEF QueueInv, QueueTypes
    <3>3. \A n \in Numbers : used[n] <= SmoothingSteps[k] /\ (n > received => used[n] = 0)
      BY DEF QueueInv, OnePlace, Placed
    <3>4. /\ older(k) = Older(drained, SmoothingSteps[k] - 1)
          /\ counted(k) = Counted(drained, used)
      BY DEF OlderByOne
    <3> HIDE DEF drained, staged, aged, used, older, counted
    <3>5. /\ older(k) \in Seq([data : Measurements, age : 1..(SmoothingSteps[k] - 1)])
          /\ Len(older(k)) <= Len(drained)
          /\ counted(k) \in [Numbers -> Nat]
          /\ Placed(<<>>, older(k), counted(k), received, SmoothingSteps[k])
          /\ \A i \in DOMAIN older(k) :
               \/ \E j \in DOMAIN staged : older(k)[i].data = staged[j]
               \/ \E j \in DOMAIN aged : older(k)[i].data = aged[j].data
      <4>1. Updated(drained, used, received, SmoothingSteps[k], staged, aged)
        BY <3>1, <3>2, <3>3, UpdatingPlaces
      <4> QED
        BY <3>4, <4>1 DEF Updated
    <3>6. Len(older(k)) \in Nat /\ Len(drained) \in Nat
      BY <3>1, <3>5, LenProperties DEF Found
    <3>7. Len(older(k)) <= MaxAged(k)
      BY <3>1, <3>2, <3>5, <3>6
    <3> QED
      BY <3>5, <3>7 DEF staged, aged
  <2> HIDE DEF older, counted
  <2>3. /\ ekf' \in EkfRecords /\ ekf'.active = ekf.active
        /\ \A k \in Kinds : ekf'.staged[k] = <<>> /\ ekf'.aged[k] = older(k)
    <3> DEFINE SM == Seq(Measurements)
               SE == Seq(Entries)
               aged == [k \in Kinds |-> older(k)]
    <3>1. \A k \in Kinds : older(k) \in SE
      <4>1. \A k \in Kinds : [data : Measurements, age : 1..(SmoothingSteps[k] - 1)] \subseteq Entries
        BY Bounds DEF Entries
      <4> QED
        BY <2>2, <4>1, SeqMonotonic
    <3>2. /\ ekf \in [active : BOOLEAN, set : BOOLEAN, pose : {NoPose, ResetPose},
                     staged : [Kinds -> SM], aged : [Kinds -> SE]]
          /\ EmptyQueues \in [Kinds -> SM]
      BY DEF EkfRecords, QueueInv, QueueTypes, EmptyQueues
    <3> HIDE DEF SM, SE
    <3>3. aged \in [Kinds -> SE]
      BY <3>1
    <3>4. \A k \in Kinds : aged[k] = older(k)
      OBVIOUS
    <3>5. ekf' = [ekf EXCEPT !.staged = EmptyQueues, !.aged = aged]
      BY <2>1
    <3> HIDE DEF aged
    <3>6. /\ ekf' \in [active : BOOLEAN, set : BOOLEAN, pose : {NoPose, ResetPose},
                      staged : [Kinds -> SM], aged : [Kinds -> SE]]
          /\ ekf'.active = ekf.active /\ ekf'.staged = EmptyQueues /\ ekf'.aged = aged
      BY <3>2, <3>3, <3>5
    <3> QED
      BY <3>4, <3>6 DEF EkfRecords, SM, SE, EmptyQueues
  <2>4. Len(<<>>) = 0 /\ DOMAIN <<>> = {}
    OBVIOUS
  <2>5. \A k \in Kinds : uses'[k] = counted(k)
    BY <2>1
  <2>6. QueueTypes'
    <3>1. \A k \in Kinds :
            /\ Len(ekf'.staged[k]) <= MaxQueueSize[k]
            /\ ekf'.aged[k] \in Seq([data : Measurements, age : 1..(SmoothingSteps[k] - 1)])
            /\ Len(ekf'.aged[k]) <= MaxAged(k)
      <4>1. \A k \in Kinds : 0 <= MaxQueueSize[k]
        BY Bounds
      <4> QED
        BY <2>2, <2>3, <2>4, <4>1
    <3>2. uses' \in [Kinds -> [Numbers -> Nat]]
      BY <2>1, <2>2
    <3> QED
      BY <2>1, <2>3, <3>1, <3>2 DEF QueueInv, QueueTypes
  <2>7. OnePlace'
    <3>1. ASSUME pushing # NoPush
          PROVE  pushing.number <= received /\ uses'["pose"][pushing.number] = 0
      <4>1. /\ pushing.number <= received /\ uses["pose"][pushing.number] = 0
            /\ \A i \in DOMAIN ekf.staged["pose"] :
                 ekf.staged["pose"][i].number # pushing.number
            /\ pushing.number \in Numbers
        BY <3>1, Bounds DEF QueueInv, OnePlace, QueueTypes
      <4>2. \A i \in DOMAIN ekf.aged["pose"] : ekf.aged["pose"][i].data.number # pushing.number
        <5> DEFINE aged == ekf.aged["pose"]
                   R == [data : Measurements, age : 1..(SmoothingSteps["pose"] - 1)]
        <5>1. aged \in Seq(R)
          BY Bounds DEF QueueInv, QueueTypes
        <5>4. \A e \in R : e.age # 0
          <6>1. \A n \in 1..(SmoothingSteps["pose"] - 1) : n # 0
            OBVIOUS
          <6> QED
            BY <6>1
        <5> HIDE DEF R
        <5>2. \A i \in DOMAIN aged : aged[i] \in R
          BY <5>1, ElementOfSeq, LenProperties
        <5>3. \A i \in DOMAIN aged : uses["pose"][aged[i].data.number] = aged[i].age
          BY Bounds DEF QueueInv, OnePlace, Placed
        <5> QED
          BY <4>1, <5>2, <5>3, <5>4
      <4>3. Using("pose", pushing.number) = {}
        <5>1. Found(Drained(ekf, "pose"), uses["pose"], received, SmoothingSteps["pose"],
                    ekf.staged["pose"], ekf.aged["pose"])
          BY Bounds, DrainedIsFound
        <5> QED
          BY <4>1, <4>2, <5>1 DEF Found, Using
      <4>4. uses'["pose"][pushing.number] = uses["pose"][pushing.number] + 0
        <5> DEFINE n == pushing.number
        <5>1. Cardinality(Using("pose", n)) = 0
          BY <4>3, FS_EmptySet
        <5>2. n \in Numbers
          BY <4>1
        <5> HIDE DEF n
        <5>3. counted("pose")[n] = uses["pose"][n] + Cardinality(Using("pose", n))
          BY <5>2 DEF counted, Counted, Using
        <5> QED
          BY <2>5, <5>1, <5>3, Bounds DEF n
      <4> QED
        BY <4>1, <4>4
    <3>2. ASSUME NEW k \in Kinds
          PROVE  Placed(ekf'.staged[k], ekf'.aged[k], uses'[k], received', SmoothingSteps[k])
      <4>1. Placed(<<>>, older(k), counted(k), received, SmoothingSteps[k])
        BY <2>2
      <4>2. ekf'.staged[k] = <<>> /\ ekf'.aged[k] = older(k) /\ uses'[k] = counted(k)
        BY <2>3, <2>5
      <4> QED
        BY <2>1, <4>1, <4>2
    <3>3. pushing' = pushing /\ received' = received /\ "pose" \in Kinds
      BY <2>1, Bounds
    <3>4. DOMAIN (ekf'.staged["pose"]) = {}
      BY <2>3, <2>4, <3>3
    <3> QED
      BY <3>1, <3>2, <3>3, <3>4 DEF OnePlace
  <2>8. OneStale'
    <3>1. \A p : StaleIn(p)' => StaleIn(p)
      <4> SUFFICES ASSUME NEW p, StaleIn(p)' PROVE StaleIn(p)
        OBVIOUS
      <4>1. p.era < era /\ \E i \in DOMAIN older("pose") : p = older("pose")[i].data
        <5>1. /\ ekf'.staged["pose"] = <<>> /\ ekf'.aged["pose"] = older("pose")
              /\ era' = era
          BY <2>1, <2>3, Bounds
        <5>2. /\ p.era < era
              /\ \/ \E i \in DOMAIN (ekf'.staged["pose"]) : p = ekf'.staged["pose"][i]
                 \/ \E i \in DOMAIN (ekf'.aged["pose"]) : p = ekf'.aged["pose"][i].data
          BY <5>1 DEF StaleIn
        <5> QED
          BY <2>4, <5>1, <5>2
      <4>2. \A i \in DOMAIN older("pose") :
              \/ \E j \in DOMAIN ekf.staged["pose"] : older("pose")[i].data = ekf.staged["pose"][j]
              \/ \E j \in DOMAIN ekf.aged["pose"] : older("pose")[i].data = ekf.aged["pose"][j].data
        BY <2>2, Bounds
      <4> QED
        BY <4>1, <4>2 DEF StaleIn
    <3> QED
      BY <2>1, <2>3, <3>1 DEF QueueInv, OneStale
  <2> QED
    BY <2>6, <2>7, <2>8 DEF QueueInv
<1> QED
  BY <1>1, <1>2

LEMMA QueueInvIsInitial == Init => QueueInv
<1> SUFFICES ASSUME Init PROVE QueueInv
  OBVIOUS
<1>1. \A k \in Kinds : ekf.staged[k] = <<>> /\ ekf.aged[k] = <<>>
  BY DEF Init, InitialEkf, EmptyQueues
<1>2. ekf \in EkfRecords
  <2> DEFINE SM == Seq(Measurements)
             SE == Seq(Entries)
  <2>1. EmptyQueues \in [Kinds -> SM] /\ EmptyQueues \in [Kinds -> SE]
    BY DEF EmptyQueues
  <2> HIDE DEF SM, SE
  <2>2. ekf \in [active : BOOLEAN, set : BOOLEAN, pose : {NoPose, ResetPose},
                staged : [Kinds -> SM], aged : [Kinds -> SE]]
    BY <2>1 DEF Init, InitialEkf
  <2> QED
    BY <2>2 DEF EkfRecords, SM, SE
<1>3. Len(<<>>) = 0 /\ DOMAIN <<>> = {}
  OBVIOUS
<1>4. QueueTypes
  <2>1. \A k \in Kinds :
          /\ Len(ekf.staged[k]) <= MaxQueueSize[k]
          /\ ekf.aged[k] \in Seq([data : Measurements, age : 1..(SmoothingSteps[k] - 1)])
          /\ Len(ekf.aged[k]) <= MaxAged(k)
    <3>1. \A k \in Kinds : 0 <= MaxQueueSize[k] /\ 0 <= MaxAged(k)
      BY Bounds
    <3>2. \A S : <<>> \in Seq(S)
      BY EmptySeq
    <3> QED
      BY <1>1, <1>3, <3>1, <3>2
  <2>2. /\ now \in Times /\ era \in 0..MaxEras /\ received \in 0..MaxMeasurements
        /\ pushing = NoPush /\ uses \in [Kinds -> [Numbers -> Nat]]
    BY Bounds DEF Init, Times
  <2> QED
    BY <1>2, <2>1, <2>2 DEF QueueTypes
<1>5. OnePlace
  <2>1. \A k \in Kinds : \A n \in Numbers : uses[k][n] = 0
    BY DEF Init
  <2>2. pushing = NoPush
    BY DEF Init
  <2> QED
    <3>1. \A k \in Kinds : \A n \in Numbers : uses[k][n] <= SmoothingSteps[k]
      BY <2>1, Bounds
    <3>2. ASSUME NEW k \in Kinds
          PROVE  Placed(<<>>, <<>>, uses[k], received, SmoothingSteps[k])
      BY <1>3, <2>1, <3>1, Zenon DEF Placed, Distinct
    <3> QED
      BY <1>1, <2>2, <3>2, Zenon DEF OnePlace
<1>6. OneStale
  BY DEF Init, InitialEkf, OneStale
<1> QED
  BY <1>4, <1>5, <1>6 DEF QueueInv

LEMMA QueueInvIsKept == QueueInv /\ [Next]_vars => QueueInv'
<1> SUFFICES ASSUME QueueInv, [Next]_vars PROVE QueueInv'
  OBVIOUS
<1>0. /\ now \in Times /\ received \in Nat /\ MaxMeasurements \in Nat /\ era \in 0..MaxEras
      /\ ekf \in EkfRecords
  BY Bounds DEF QueueInv, QueueTypes
<1>1. CASE Tick
  <2>1. now' \in Times
    BY <1>0, <1>1, Bounds DEF Tick, Times
  <2> QED
    BY <1>0, <1>1, <2>1, OthersKeepQueueInv DEF Tick
<1>2. CASE OnTwist
  <2> DEFINE m == [number |-> received', era |-> era]
  <2>1. /\ received' \in Numbers /\ received' \in 0..MaxMeasurements /\ received < received'
        /\ UNCHANGED <<now, era, uses, pushing>> /\ ekf' = Stage(ekf, "twist", m)
    BY <1>0, <1>2 DEF OnTwist, Receive, Numbers
  <2>2. m \in Measurements /\ m.number = received'
    BY <1>0, <2>1 DEF Measurements
  <2> HIDE DEF m
  <2>3. Placed(ekf.staged["twist"], ekf.aged["twist"], uses["twist"], received,
               SmoothingSteps["twist"])
    BY Bounds DEF QueueInv, OnePlace
  <2>4. uses["twist"][m.number] = 0
    <3>1. received' > received
      BY <1>0, <2>1
    <3> QED
      BY <2>1, <2>2, <2>3, <3>1 DEF Placed
  <2>5. \A i \in DOMAIN ekf.staged["twist"] : ekf.staged["twist"][i].number # m.number
    <3>1. \A i \in DOMAIN ekf.staged["twist"] : ekf.staged["twist"][i].number <= received
      BY <2>3 DEF Placed
    <3>2. ~(received' <= received)
      BY <1>0, <2>1
    <3> QED
      BY <2>2, <3>1, <3>2
  <2>6. "twist" # "pose" /\ "twist" \in Kinds
    BY DEF Kinds
  <2>7. received <= received' /\ m.number <= received'
    BY <1>0, <2>1, <2>2
  <2> QED
    BY <2>1, <2>2, <2>4, <2>5, <2>6, <2>7, StageKeepsQueueInv
<1>3. CASE OnPose
  BY <1>0, <1>3, OthersKeepQueueInv DEF OnPose, Receive
<1>4. CASE StagePose
  <2>1. /\ pushing # NoPush /\ pushing \in Measurements /\ pushing' = NoPush
        /\ UNCHANGED <<now, era, uses, received>> /\ ekf' = Stage(ekf, "pose", pushing)
    BY <1>4 DEF StagePose, QueueInv, QueueTypes
  <2>2. /\ pushing.number <= received' /\ uses["pose"][pushing.number] = 0
        /\ \A i \in DOMAIN ekf.staged["pose"] :
             ekf.staged["pose"][i].number # pushing.number
    BY <2>1 DEF QueueInv, OnePlace
  <2>3. received <= received' /\ received' \in 0..MaxMeasurements
    BY <1>0, <2>1 DEF QueueInv, QueueTypes
  <2>4. "pose" \in Kinds
    BY Bounds
  <2> QED
    BY <2>1, <2>2, <2>3, <2>4, StageKeepsQueueInv
<1>5. CASE OnReset
  <2>1. /\ ekf' \in EkfRecords /\ ekf'.staged = ekf.staged /\ ekf'.aged = ekf.aged
        /\ ekf'.active = ekf.active
    <3> DEFINE QM == [Kinds -> Seq(Measurements)]
               QE == [Kinds -> Seq(Entries)]
    <3>1. ekf \in [active : BOOLEAN, set : BOOLEAN, pose : {NoPose, ResetPose},
                  staged : QM, aged : QE]
      BY <1>0 DEF EkfRecords
    <3>2. ekf' = [ekf EXCEPT !.set = TRUE, !.pose = ResetPose]
      BY <1>5 DEF OnReset, Initialize
    <3> HIDE DEF QM, QE
    <3>3. ekf' \in [active : BOOLEAN, set : BOOLEAN, pose : {NoPose, ResetPose},
                   staged : QM, aged : QE]
      BY <3>1, <3>2
    <3>4. /\ ekf'.staged = ekf.staged /\ ekf'.aged = ekf.aged
          /\ ekf'.active = ekf.active
      BY <3>1, <3>2
    <3> QED
      BY <3>3, <3>4 DEF EkfRecords, QM, QE
  <2> QED
    BY <1>0, <1>5, <2>1, OthersKeepQueueInv DEF OnReset
<1>6. CASE ActivateEkf
  BY <1>6, ActivationKeepsQueueInv DEF ActivateEkf
<1>7. CASE DeactivateEkf
  <2>1. /\ ekf' \in EkfRecords /\ ekf'.staged = ekf.staged /\ ekf'.aged = ekf.aged
        /\ ~ekf'.active
    <3> DEFINE QM == [Kinds -> Seq(Measurements)]
               QE == [Kinds -> Seq(Entries)]
    <3>1. ekf \in [active : BOOLEAN, set : BOOLEAN, pose : {NoPose, ResetPose},
                  staged : QM, aged : QE]
      BY <1>0 DEF EkfRecords
    <3>2. ekf' = [ekf EXCEPT !.active = FALSE, !.set = FALSE]
      BY <1>7 DEF DeactivateEkf, Activate
    <3> HIDE DEF QM, QE
    <3>3. ekf' \in [active : BOOLEAN, set : BOOLEAN, pose : {NoPose, ResetPose},
                   staged : QM, aged : QE]
      BY <3>1, <3>2
    <3>4. /\ ekf'.staged = ekf.staged /\ ekf'.aged = ekf.aged /\ ~ekf'.active
      BY <3>1, <3>2
    <3> QED
      BY <3>3, <3>4 DEF EkfRecords, QM, QE
  <2> QED
    BY <1>0, <1>7, <2>1, OthersKeepQueueInv DEF DeactivateEkf
<1>8. CASE Update
  BY <1>8, UpdateKeepsQueueInv
<1>9. CASE UNCHANGED vars
  BY <1>0, <1>9, OthersKeepQueueInv DEF vars
<1> QED
  BY <1>1, <1>2, <1>3, <1>4, <1>5, <1>6, <1>7, <1>8, <1>9 DEF Next

(* A measurement is used in no more updates than its covariance was scaled *)
(* for, whatever is queued, dropped and cleared meanwhile (push_pose,      *)
(* pop_increment_age and the queue bounds of EKFLocalizer).                *)
THEOREM UsedFewTimes == Spec => []UsedInFewUpdates
<1>1. QueueInv => UsedInFewUpdates
  BY DEF QueueInv, OnePlace, Placed, UsedInFewUpdates
<1> QED
  BY <1>1, QueueInvIsInitial, QueueInvIsKept, PTL DEF Spec

(* After an activation the estimate meets one pose of an earlier one at    *)
(* most: the one push_pose was busy with while the queues were emptied.    *)
THEOREM OneStalePose == Spec => []AtMostOneStalePose
<1>1. QueueInv => AtMostOneStalePose
  <2> SUFFICES ASSUME QueueInv PROVE AtMostOneStalePose
    OBVIOUS
  <2> DEFINE stale == {p \in ToSet(ekf.staged["pose"])
                              \cup {entry.data : entry \in ToSet(ekf.aged["pose"])} :
                         ekf.active /\ p.era < era}
  <2>1. \A p \in stale : p \in Measurements /\ StaleIn(p) /\ ekf.active
    <3> SUFFICES ASSUME NEW p \in stale PROVE p \in Measurements /\ StaleIn(p) /\ ekf.active
      OBVIOUS
    <3>1. ekf.staged["pose"] \in Seq(Measurements) /\ ekf.aged["pose"] \in Seq(Entries)
      BY Bounds DEF QueueInv, QueueTypes, EkfRecords
    <3>2. CASE p \in ToSet(ekf.staged["pose"])
      BY <3>1, <3>2, MeasurementsOf DEF ToSet, StaleIn
    <3>3. CASE p \in {entry.data : entry \in ToSet(ekf.aged["pose"])}
      BY <3>1, <3>3, MeasurementsIn DEF ToSet, StaleIn
    <3> QED
      BY <3>2, <3>3
  <2> HIDE DEF stale
  <2>2. CASE stale = {}
    BY <2>2, FS_EmptySet DEF AtMostOneStalePose, stale
  <2>3. CASE stale # {}
    <3>1. PICK p : p \in stale
      BY <2>3
    <3>2. stale = {p}
      BY <2>1, <3>1 DEF QueueInv, OneStale
    <3>3. Cardinality(stale) = 1
      BY <3>2, FS_Singleton
    <3> QED
      BY <3>3 DEF AtMostOneStalePose, stale
  <2> QED
    BY <2>2, <2>3
<1> QED
  BY <1>1, QueueInvIsInitial, QueueInvIsKept, PTL DEF Spec
-----------------------------------------------------------------------------
FilterRecords ==
  [slots : [Slots -> Times \cup {FromReset}], table : [Slots -> Nat],
   last : Times \cup {NoTime}, dt : 0..MaxDt]

(* The delays grow from the first, and those that are not as large as the  *)
(* ones the table started with happened since the clock did.               *)
TableGrows ==
  /\ filter.last <= now
  /\ filter.table[1] \in {0, Never}
  /\ \A i, j \in Slots : i <= j => filter.table[i] <= filter.table[j]
  /\ \A i \in Slots : filter.table[i] < Never =>
       /\ filter.table[i] <= now
       /\ filter.last # NoTime => filter.table[i] <= filter.last

(* The dt of an update that comes some time after the one before.          *)
Counting(elapsed) == IF elapsed > MaxDt THEN MaxDt ELSE elapsed

(* The predictions since the reset come first, and the table tells how far *)
(* apart those that it knows are.                                          *)
SlotsMatch ==
  /\ ekf.set /\ (~ekf.active \/ filter.last = NoTime) =>
       \A i \in Slots : filter.slots[i] = FromReset
  /\ Estimating(ekf) /\ filter.last # NoTime =>
       /\ \A i \in Slots : i + 1 \in Slots /\ filter.slots[i + 1] # FromReset => i \in Known
       /\ 1 \in Known => filter.slots[1] = filter.last
       /\ \A i \in Known : i + 1 \in Known =>
            /\ filter.slots[i + 1] <= filter.slots[i]
            /\ filter.table[i + 1] =
                 filter.table[i] + Counting(filter.slots[i] - filter.slots[i + 1])

FilterInv == filter \in FilterRecords /\ TableGrows /\ SlotsMatch

LEMMA FilterBounds ==
  /\ ExtendStateStep \in Nat /\ 1 \in Slots /\ ExtendStateStep \in Slots
  /\ \A i \in Slots : i \in Nat /\ (i # 1 => i - 1 \in Slots)
  /\ MaxDt \in Nat /\ Never \in Nat /\ MaxTime \in Nat /\ 0 < Never
  /\ \A t \in Times : t \in Nat /\ t < Never /\ t # FromReset /\ t # NoTime
<1>1. ExtendStateStep \in Nat \ {0} /\ MaxDt \in Nat /\ Never \in Nat
  BY DelayAssumption
<1>2. MaxTime \in Nat /\ MaxTime < Never
  BY UpdatesAssumption
<1> QED
  BY <1>1, <1>2 DEF Slots, Times, FromReset, NoTime

(* What a prediction makes of the filter's record. *)
LEMMA Predicting ==
  ASSUME filter \in FilterRecords, now \in Times, filter.last < now,
         filter' = Predict(filter, now)
  PROVE  /\ filter' \in FilterRecords /\ filter'.last = now
         /\ filter'.slots[1] = now
         /\ \A i \in Slots : i # 1 => filter'.slots[i] = filter.slots[i - 1]
         /\ filter.last = NoTime => filter'.table = filter.table
         /\ filter.last # NoTime =>
              /\ filter'.table[1] = 0
              /\ \A i \in Slots : i # 1 =>
                   filter'.table[i] = filter.table[i - 1] + Counting(now - filter.last)
<1> DEFINE dt == IF filter.last = NoTime THEN filter.dt ELSE Counting(now - filter.last)
           slots == [i \in Slots |-> IF i = 1 THEN now ELSE filter.slots[i - 1]]
           table == IF filter.last = NoTime THEN filter.table ELSE Accumulated(filter.table, dt)
<1>1. filter' = [slots |-> slots, table |-> table, last |-> now, dt |-> dt]
  BY DEF Predict, Counting
<1>2. dt \in 0..MaxDt
  <2>1. CASE filter.last = NoTime
    BY <2>1 DEF FilterRecords
  <2>2. CASE filter.last # NoTime
    <3>1. filter.last \in Times
      BY <2>2 DEF FilterRecords
    <3> QED
      BY <2>2, <3>1, FilterBounds DEF Counting
  <2> QED
    BY <2>1, <2>2
<1>3. slots \in [Slots -> Times \cup {FromReset}]
  BY FilterBounds DEF FilterRecords
<1>4. table \in [Slots -> Nat]
  <2>1. \A i \in Slots : i # 1 => filter.table[i - 1] + dt \in Nat
    BY <1>2, FilterBounds DEF FilterRecords
  <2> HIDE DEF dt
  <2> QED
    BY <2>1 DEF Accumulated, FilterRecords
<1>5. filter.last # NoTime =>
        /\ table[1] = 0
        /\ \A i \in Slots : i # 1 => table[i] = filter.table[i - 1] + Counting(now - filter.last)
  BY FilterBounds DEF Accumulated
<1>6. slots[1] = now /\ \A i \in Slots : i # 1 => slots[i] = filter.slots[i - 1]
  BY FilterBounds
<1>7. filter.last = NoTime => table = filter.table
  OBVIOUS
<1> HIDE DEF slots, table, dt
<1> QED
  BY <1>1, <1>2, <1>3, <1>4, <1>5, <1>6, <1>7 DEF FilterRecords

LEMMA PredictKeepsTable ==
  ASSUME filter \in FilterRecords, TableGrows, now \in Times, now' = now, filter.last < now,
         filter' = Predict(filter, now)
  PROVE  TableGrows'
<1>1. CASE filter.last = NoTime
  BY <1>1, Predicting, FilterBounds DEF TableGrows
<1>2. CASE filter.last # NoTime
  <2> DEFINE dt == Counting(now - filter.last)
  <2>0. filter.last \in Nat /\ now \in Nat /\ now < Never
    BY <1>2, FilterBounds DEF FilterRecords
  <2>1. dt \in Nat /\ filter.last + dt <= now
    BY <2>0, FilterBounds DEF Counting
  <2>2. /\ filter'.last = now /\ filter'.table[1] = 0
        /\ \A i \in Slots : i # 1 => filter'.table[i] = filter.table[i - 1] + dt
    BY <1>2, Predicting
  <2> HIDE DEF dt
  <2>3. \A i \in Slots : filter.table[i] \in Nat
    BY DEF FilterRecords
  <2>4. ASSUME NEW i \in Slots, NEW j \in Slots, i <= j
        PROVE  filter'.table[i] <= filter'.table[j]
    <3>1. CASE i = 1
      <4>1. j # 1 => filter.table[j - 1] + dt \in Nat
        BY <2>1, <2>3, FilterBounds
      <4> QED
        BY <2>2, <3>1, <4>1
    <3>2. CASE i # 1
      <4>1. j # 1 /\ i - 1 \in Slots /\ j - 1 \in Slots /\ i - 1 <= j - 1
        BY <2>4, <3>2, FilterBounds
      <4>2. filter.table[i - 1] <= filter.table[j - 1]
        BY <4>1 DEF TableGrows
      <4> QED
        BY <2>1, <2>2, <2>3, <3>2, <4>1, <4>2
    <3> QED
      BY <3>1, <3>2
  <2>5. ASSUME NEW i \in Slots, filter'.table[i] < Never
        PROVE  filter'.table[i] <= now
    <3>1. CASE i = 1
      BY <2>0, <2>2, <3>1
    <3>2. CASE i # 1
      <4>1. i - 1 \in Slots /\ filter'.table[i] = filter.table[i - 1] + dt
        BY <2>2, <3>2, FilterBounds
      <4>2. filter.table[i - 1] < Never
        BY <2>1, <2>3, <2>5, <4>1, FilterBounds
      <4>3. filter.table[i - 1] <= filter.last
        BY <1>2, <4>1, <4>2 DEF TableGrows
      <4> QED
        BY <2>0, <2>1, <2>3, <4>1, <4>3
    <3> QED
      BY <3>1, <3>2
  <2>6. now <= now
    BY <2>0
  <2> QED
    BY <2>2, <2>4, <2>5, <2>6 DEF TableGrows
<1> QED
  BY <1>1, <1>2

LEMMA PredictKeepsSlots ==
  ASSUME filter \in FilterRecords, TableGrows, SlotsMatch, now \in Times, filter.last < now,
         Estimating(ekf), filter' = Predict(filter, now),
         ekf'.active = ekf.active, ekf'.set = ekf.set
  PROVE  SlotsMatch'
<1>0. now \in Nat /\ now < Never /\ now # FromReset /\ now # NoTime
  BY FilterBounds
<1>1. /\ filter'.last = now /\ filter'.slots[1] = now
      /\ \A i \in Slots : i # 1 => filter'.slots[i] = filter.slots[i - 1]
  BY Predicting
<1>2. ASSUME NEW i \in Slots, i + 1 \in Slots
      PROVE  filter'.slots[i + 1] = filter.slots[i]
  <2> DEFINE j == i + 1
  <2>1. j \in Slots /\ j # 1 /\ j - 1 = i
    BY <1>2, FilterBounds
  <2> HIDE DEF j
  <2>2. filter'.slots[j] = filter.slots[i]
    BY <1>1, <2>1
  <2> QED
    BY <2>2 DEF j
<1>3. ekf'.active /\ filter'.last # NoTime
  BY <1>0, <1>1 DEF Estimating
<1>4. CASE filter.last = NoTime
  <2>1. \A i \in Slots : i # 1 => filter'.slots[i] = FromReset
    BY <1>1, <1>4, FilterBounds DEF SlotsMatch, Estimating
  <2>2. \A i \in Slots : i + 1 \in Slots => filter'.slots[i + 1] = FromReset
    BY <2>1, FilterBounds
  <2> QED
    BY <1>1, <1>3, <2>2 DEF SlotsMatch, Known
<1>5. CASE filter.last # NoTime
  <2> DEFINE dt == Counting(now - filter.last)
  <2>0. filter.last \in Nat
    BY <1>5, FilterBounds DEF FilterRecords
  <2>1. dt \in Nat /\ filter.last + dt <= now
    BY <1>0, <2>0, FilterBounds DEF Counting
  <2>2. /\ filter'.table[1] = 0
        /\ \A i \in Slots : i # 1 => filter'.table[i] = filter.table[i - 1] + dt
    BY <1>5, Predicting
  <2> HIDE DEF dt
  <2>3. \A i \in Slots : filter.table[i] \in Nat
    BY DEF FilterRecords
  (* The slots the table knows move on by one.                             *)
  <2>4. 1 \in Known'
    BY <1>0, <1>1, <2>2, FilterBounds DEF Known
  <2>5. ASSUME NEW i \in Slots, i # 1
        PROVE  i \in Known' <=> i - 1 \in Known
    <3>1. /\ i - 1 \in Slots /\ filter'.slots[i] = filter.slots[i - 1]
          /\ filter'.table[i] = filter.table[i - 1] + dt
      BY <1>1, <2>2, <2>5, FilterBounds
    <3>2. filter'.table[i] < Never <=> filter.table[i - 1] < Never
      <4>1. filter.table[i - 1] < Never => filter.table[i - 1] <= filter.last
        BY <1>5, <3>1 DEF TableGrows
      <4> QED
        BY <1>0, <2>0, <2>1, <2>3, <3>1, <4>1, FilterBounds
    <3> QED
      BY <3>1, <3>2 DEF Known
  <2>6. ASSUME NEW i \in Slots, i + 1 \in Slots
        PROVE  /\ i + 1 \in Known' <=> i \in Known
               /\ filter'.table[i + 1] = filter.table[i] + dt
    <3> DEFINE j == i + 1
    <3>1. j \in Slots /\ j # 1 /\ j - 1 = i
      BY <2>6, FilterBounds
    <3> HIDE DEF j
    <3>2. (j \in Known' <=> i \in Known) /\ filter'.table[j] = filter.table[i] + dt
      BY <2>2, <2>5, <3>1
    <3> QED
      BY <3>2 DEF j
  <2>7. ASSUME NEW i \in Slots, i + 1 \in Slots, filter'.slots[i + 1] # FromReset
        PROVE  i \in Known'
    <3>1. CASE i = 1
      BY <2>4, <3>1
    <3>2. CASE i # 1
      <4>1. i - 1 \in Slots /\ i - 1 + 1 = i /\ filter.slots[i] # FromReset
        BY <1>2, <2>7, <3>2, FilterBounds
      <4>2. i - 1 \in Known
        BY <1>5, <4>1 DEF SlotsMatch
      <4> QED
        BY <2>5, <3>2, <4>2
    <3> QED
      BY <3>1, <3>2
  <2>8. ASSUME NEW i \in Known', i + 1 \in Known'
        PROVE  /\ filter'.slots[i + 1] <= filter'.slots[i]
               /\ filter'.table[i + 1] =
                    filter'.table[i] + Counting(filter'.slots[i] - filter'.slots[i + 1])
    <3>0. i \in Slots /\ i + 1 \in Slots /\ i \in Known
      <4>1. i \in Slots /\ i + 1 \in Slots
        BY <2>8 DEF Known
      <4> QED
        BY <2>8, <2>6, <4>1
    <3>1. /\ filter'.slots[i + 1] = filter.slots[i]
          /\ filter'.table[i + 1] = filter.table[i] + dt
      BY <1>2, <2>6, <3>0
    <3>2. CASE i = 1
      <4>1. filter.slots[1] = filter.last
        BY <1>5, <3>0, <3>2 DEF SlotsMatch
      <4>2. filter.table[1] = 0
        BY <3>0, <3>2, FilterBounds DEF TableGrows, Known
      <4>3. filter'.slots[i] = now /\ filter'.table[i] = 0
        BY <1>1, <2>2, <3>2
      <4> QED
        BY <1>0, <2>0, <3>1, <3>2, <4>1, <4>2, <4>3 DEF dt
    <3>3. CASE i # 1
      <4>1. i - 1 \in Known /\ i - 1 \in Slots /\ i - 1 + 1 = i
        BY <2>5, <2>8, <3>0, <3>3, FilterBounds
      <4>2. /\ filter'.slots[i] = filter.slots[i - 1]
            /\ filter'.table[i] = filter.table[i - 1] + dt
        BY <1>1, <2>2, <3>0, <3>3
      <4>3. /\ filter.slots[i] <= filter.slots[i - 1]
            /\ filter.table[i] =
                 filter.table[i - 1] + Counting(filter.slots[i - 1] - filter.slots[i])
        BY <1>5, <3>0, <4>1 DEF SlotsMatch
      <4> DEFINE more == Counting(filter.slots[i - 1] - filter.slots[i])
      <4>4. more \in Nat /\ filter.table[i - 1] \in Nat
        <5>1. filter.slots[i] \in Nat /\ filter.slots[i - 1] \in Nat
          BY <3>0, <4>1, FilterBounds DEF Known, FilterRecords
        <5>2. \A n \in Nat : Counting(n) \in Nat
          BY FilterBounds DEF Counting
        <5>3. filter.slots[i - 1] - filter.slots[i] \in Nat
          BY <4>3, <5>1
        <5> HIDE DEF Counting
        <5> QED
          BY <2>3, <4>1, <5>2, <5>3
      <4> HIDE DEF more
      <4>5. filter.table[i - 1] + more + dt = filter.table[i - 1] + dt + more
        BY <2>1, <4>4
      <4> QED
        BY <3>1, <4>2, <4>3, <4>5 DEF more
    <3> QED
      BY <3>2, <3>3
  <2> QED
    BY <1>1, <1>3, <2>7, <2>8 DEF SlotsMatch
<1> QED
  BY <1>4, <1>5

LEMMA FilterInvIsInitial == Init => FilterInv
<1> SUFFICES ASSUME Init PROVE FilterInv
  OBVIOUS
<1>1. /\ filter = [slots |-> [i \in Slots |-> FromReset], table |-> [i \in Slots |-> Never],
                   last |-> NoTime, dt |-> 0]
      /\ now = 0 /\ ~ekf.active /\ ~ekf.set
  BY DEF Init, InitialFilter, InitialEkf
<1>2. filter \in FilterRecords
  BY <1>1, FilterBounds DEF FilterRecords
<1>3. TableGrows
  BY <1>1, FilterBounds DEF TableGrows, NoTime
<1>4. SlotsMatch
  BY <1>1 DEF SlotsMatch, Estimating
<1> QED
  BY <1>2, <1>3, <1>4 DEF FilterInv

(* What the steps do to the flags. *)
LEMMA FlagsOf ==
  ASSUME QueueInv
  PROVE  /\ \A kind \in Kinds : \A m :
              Stage(ekf, kind, m).active = ekf.active /\ Stage(ekf, kind, m).set = ekf.set
         /\ Initialize(ekf, ResetPose).active = ekf.active /\ Initialize(ekf, ResetPose).set
         /\ Activate(ekf, TRUE).active /\ Activate(ekf, TRUE).set = ekf.set
         /\ ~Activate(ekf, FALSE).active /\ ~Activate(ekf, FALSE).set
         /\ UpdateStep(ekf).active = ekf.active /\ UpdateStep(ekf).set = ekf.set
<1> DEFINE QM == [Kinds -> Seq(Measurements)]
           QE == [Kinds -> Seq(Entries)]
<1>1. ekf \in [active : BOOLEAN, set : BOOLEAN, pose : {NoPose, ResetPose},
              staged : QM, aged : QE]
  BY DEF QueueInv, QueueTypes, EkfRecords
<1> HIDE DEF QM, QE
<1>2. ASSUME NEW kind \in Kinds, NEW m
      PROVE  Stage(ekf, kind, m).active = ekf.active /\ Stage(ekf, kind, m).set = ekf.set
  <2> DEFINE staged == [ekf.staged EXCEPT ![kind] = Newest(Append(@, m), MaxQueueSize[kind])]
  <2>1. Stage(ekf, kind, m) = [ekf EXCEPT !.staged = staged]
    BY DEF Stage
  <2> HIDE DEF staged
  <2> QED
    BY <1>1, <2>1
<1>3. /\ Initialize(ekf, ResetPose).active = ekf.active /\ Initialize(ekf, ResetPose).set
      /\ Activate(ekf, TRUE).active /\ Activate(ekf, TRUE).set = ekf.set
      /\ ~Activate(ekf, FALSE).active /\ ~Activate(ekf, FALSE).set
  BY <1>1 DEF Initialize, Activate
<1>4. UpdateStep(ekf).active = ekf.active /\ UpdateStep(ekf).set = ekf.set
  <2> DEFINE aged == [k \in Kinds |-> OlderByOne(Drained(ekf, k), SmoothingSteps[k])]
  <2>1. UpdateStep(ekf) = IF ~Estimating(ekf) THEN ekf
                          ELSE [ekf EXCEPT !.staged = EmptyQueues, !.aged = aged]
    BY DEF UpdateStep
  <2> HIDE DEF aged
  <2> QED
    BY <1>1, <2>1
<1> QED
  BY <1>2, <1>3, <1>4

LEMMA FilterInvIsKept == QueueInv /\ FilterInv /\ [Next]_vars => FilterInv'
<1> SUFFICES ASSUME QueueInv, FilterInv, [Next]_vars PROVE FilterInv'
  OBVIOUS
<1>0. /\ filter \in FilterRecords /\ TableGrows /\ SlotsMatch
      /\ now \in Times /\ ekf.active \in BOOLEAN /\ ekf.set \in BOOLEAN
  <2>1. ekf \in EkfRecords /\ now \in Times
    BY DEF QueueInv, QueueTypes
  <2> QED
    BY <2>1 DEF FilterInv, EkfRecords
<1>1. ASSUME UNCHANGED <<now, filter>>, ekf'.active = ekf.active, ekf'.set = ekf.set
      PROVE  FilterInv'
  BY <1>0, <1>1 DEF FilterInv, TableGrows, SlotsMatch, Estimating, Known
<1>2. CASE Tick
  <2>1. /\ now' = now + 1 /\ UNCHANGED <<ekf, filter>> /\ now \in Nat
        /\ filter.last \in Int /\ \A i \in Slots : filter.table[i] \in Nat
    BY <1>0, <1>2, FilterBounds DEF Tick, FilterRecords, NoTime
  <2>2. TableGrows'
    BY <1>0, <2>1 DEF TableGrows
  <2>3. SlotsMatch'
    BY <1>0, <2>1 DEF SlotsMatch, Estimating, Known
  <2> QED
    BY <1>0, <2>1, <2>2, <2>3 DEF FilterInv
<1>3. CASE OnTwist
  <2>1. "twist" \in Kinds
    BY DEF Kinds
  <2> QED
    BY <1>1, <1>3, <2>1, FlagsOf DEF OnTwist, Receive
<1>4. CASE OnPose
  BY <1>1, <1>4 DEF OnPose, Receive
<1>5. CASE StagePose
  <2>1. "pose" \in Kinds
    BY DEF Kinds
  <2> QED
    BY <1>1, <1>5, <2>1, FlagsOf DEF StagePose
<1>6. CASE OnReset
  <2>1. /\ now' = now /\ filter' = [filter EXCEPT !.slots = [i \in Slots |-> FromReset]]
        /\ ekf'.active = ekf.active /\ ekf'.set
    BY <1>6, FlagsOf DEF OnReset, Reset
  <2>2. /\ filter' \in FilterRecords /\ filter'.table = filter.table
        /\ filter'.last = filter.last /\ \A i \in Slots : filter'.slots[i] = FromReset
    BY <1>0, <2>1 DEF FilterRecords
  <2>3. TableGrows'
    BY <1>0, <2>1, <2>2 DEF TableGrows
  <2>4. SlotsMatch'
    BY <2>2 DEF SlotsMatch, Known
  <2> QED
    BY <2>2, <2>3, <2>4 DEF FilterInv
<1>7. CASE ActivateEkf
  <2>1. /\ now' = now /\ filter' = [filter EXCEPT !.last = NoTime]
        /\ ~ekf.active /\ ekf'.active /\ ekf'.set = ekf.set
    BY <1>7, FlagsOf DEF ActivateEkf, ForgetLast
  <2>2. /\ filter' \in FilterRecords /\ filter'.table = filter.table
        /\ filter'.last = NoTime /\ filter'.slots = filter.slots
    BY <1>0, <2>1 DEF FilterRecords
  <2>3. NoTime <= now
    BY <1>0, FilterBounds DEF NoTime
  <2>4. TableGrows'
    BY <1>0, <2>1, <2>2, <2>3 DEF TableGrows
  <2>5. SlotsMatch'
    BY <1>0, <2>1, <2>2 DEF SlotsMatch
  <2> QED
    BY <2>2, <2>4, <2>5 DEF FilterInv
<1>8. CASE DeactivateEkf
  <2>1. UNCHANGED <<now, filter>> /\ ~ekf'.active /\ ~ekf'.set
    BY <1>8, FlagsOf DEF DeactivateEkf
  <2>2. SlotsMatch'
    BY <2>1 DEF SlotsMatch, Estimating
  <2> QED
    BY <1>0, <2>1, <2>2 DEF FilterInv, TableGrows
<1>9. CASE Update
  <2>1. now' = now /\ filter.last < now /\ ekf'.active = ekf.active /\ ekf'.set = ekf.set
    BY <1>9, FlagsOf DEF Update
  <2>2. CASE ~Estimating(ekf)
    BY <1>1, <1>9, <2>1, <2>2 DEF Update
  <2>3. CASE Estimating(ekf)
    <3>1. filter' = Predict(filter, now)
      BY <1>9, <2>3 DEF Update
    <3>2. filter' \in FilterRecords
      BY <1>0, <2>1, <3>1, Predicting
    <3>3. TableGrows'
      BY <1>0, <2>1, <3>1, PredictKeepsTable
    <3>4. SlotsMatch'
      BY <1>0, <2>1, <2>3, <3>1, PredictKeepsSlots
    <3> QED
      BY <3>2, <3>3, <3>4 DEF FilterInv
  <2> QED
    BY <2>2, <2>3
<1>10. CASE UNCHANGED vars
  BY <1>1, <1>10 DEF vars
<1> QED
  BY <1>2, <1>3, <1>4, <1>5, <1>6, <1>7, <1>8, <1>9, <1>10 DEF Next

(* The flags, the queues, the filter's slots and table stay of their types *)
(* and the queues within their bounds, in every reachable state.           *)
THEOREM EkfTypeCorrect == Spec => []EkfTypeOK
<1>1. QueueInv /\ FilterInv => EkfTypeOK
  <2> SUFFICES ASSUME QueueInv, FilterInv PROVE EkfTypeOK
    OBVIOUS
  <2>1. /\ ekf.active \in BOOLEAN /\ ekf.set \in BOOLEAN /\ ekf.pose \in {NoPose, ResetPose}
        /\ \A k \in Kinds : ekf.staged[k] \in Seq(Measurements)
    BY DEF QueueInv, QueueTypes, EkfRecords
  <2>2. /\ filter.slots \in [Slots -> Times \cup {FromReset}]
        /\ filter.table \in [Slots -> Nat]
        /\ filter.last \in Times \cup {NoTime} /\ filter.dt \in 0..MaxDt
    BY DEF FilterInv, FilterRecords
  <2> QED
    BY <2>1, <2>2 DEF EkfTypeOK, QueueInv, QueueTypes
<1> QED
  BY <1>1, QueueInvIsInitial, QueueInvIsKept, FilterInvIsInitial, FilterInvIsKept, PTL DEF Spec
-----------------------------------------------------------------------------
(* When no update was too late, the table is right about what it knows.    *)
LEMMA DelaysAreExact ==
  ASSUME FilterInv, Estimating(ekf), filter.last # NoTime, OnTime
  PROVE  \A i \in Known : filter.table[i] = filter.last - filter.slots[i]
<1> DEFINE T == {i \in Known : filter.table[i] # filter.last - filter.slots[i]}
<1> SUFFICES ASSUME T # {} PROVE FALSE
  OBVIOUS
<1>0. /\ Known \subseteq Slots /\ filter.last \in Nat
      /\ \A i \in Slots : filter.table[i] \in Nat
      /\ \A i \in Known : filter.slots[i] \in Nat
  <2>1. filter \in FilterRecords
    BY DEF FilterInv
  <2> QED
    BY <2>1, FilterBounds DEF FilterRecords, Known
<1>1. PICK i \in T : \A j \in T : i <= j
  <2>1. T \subseteq Nat
    BY <1>0, FilterBounds
  <2> HIDE DEF T
  <2> QED
    BY <2>1, Least
<1>2. CASE i = 1
  <2>1. filter.slots[1] = filter.last
    BY <1>1, <1>2 DEF FilterInv, SlotsMatch
  <2>2. filter.table[1] = 0
    BY <1>1, <1>2, FilterBounds DEF FilterInv, TableGrows, Known
  <2> QED
    BY <1>0, <1>1, <1>2, <2>1, <2>2
<1>3. CASE i # 1
  <2> DEFINE j == i - 1
  <2>0. i \in Known /\ i \in Slots
    BY <1>0, <1>1
  <2>1. j \in Slots /\ j + 1 = i /\ ~(i <= j) /\ i \in Known /\ i \in Slots
    <3>1. i \in Nat /\ j \in Slots
      BY <1>3, <2>0, FilterBounds
    <3>2. \A n \in Nat : (n - 1) + 1 = n /\ ~(n <= n - 1)
      OBVIOUS
    <3> QED
      BY <2>0, <3>1, <3>2
  <2> HIDE DEF j
  <2>2. filter.slots[i] # FromReset
    BY <2>1 DEF Known
  <2>3. j \in Known
    BY <2>1, <2>2 DEF FilterInv, SlotsMatch
  <2>4. filter.table[j] = filter.last - filter.slots[j]
    BY <1>1, <2>1, <2>3
  <2>5. /\ filter.slots[i] <= filter.slots[j]
        /\ filter.table[i] = filter.table[j] + Counting(filter.slots[j] - filter.slots[i])
        /\ filter.slots[j] - filter.slots[i] <= MaxDt
    BY <2>1, <2>3 DEF FilterInv, SlotsMatch, OnTime
  <2>6. Counting(filter.slots[j] - filter.slots[i]) = filter.slots[j] - filter.slots[i]
    BY <1>0, <2>1, <2>3, <2>5, FilterBounds DEF Counting
  <2>7. filter.table[i] = filter.last - filter.slots[i]
    BY <1>0, <2>1, <2>3, <2>4, <2>5, <2>6
  <2> QED
    BY <1>1, <2>7
<1> QED
  BY <1>2, <1>3

(* Off by how much the slot of a delay is from it. *)
Off(i, delay) == Apart(filter.table[i], delay)

(* find_closest_delay_time_index finds the closest in a growing table. *)
LEMMA ClosestIsFound ==
  ASSUME FilterInv, NEW delay \in Nat
  PROVE  LET slot == FindClosestDelayTimeIndex(filter.table, delay) + 1
         IN  slot \in Slots => \A i \in Slots : Off(slot, delay) <= Off(i, delay)
<1> DEFINE table == filter.table
           slot == FindClosestDelayTimeIndex(table, delay) + 1
<1> SUFFICES ASSUME slot \in Slots, NEW k \in Slots
             PROVE  Off(slot, delay) <= Off(k, delay)
  OBVIOUS
<1>0. /\ \A i \in Slots : table[i] \in Nat
      /\ \A i, j \in Slots : i <= j => table[i] <= table[j]
  BY DEF FilterInv, FilterRecords, TableGrows
<1>1. ~(delay > table[ExtendStateStep])
  <2> SUFFICES ASSUME delay > table[ExtendStateStep] PROVE FALSE
    OBVIOUS
  <2>1. slot = ExtendStateStep + 1
    BY DEF FindClosestDelayTimeIndex
  <2> HIDE DEF slot
  <2> QED
    BY <2>1, FilterBounds DEF Slots
<1> DEFINE IsLower(i) == table[i] >= delay /\ \A j \in 1..(i - 1) : table[j] < delay
           lower == CHOOSE i \in Slots : IsLower(i)
<1>2. \E i \in Slots : IsLower(i)
  <2> DEFINE T == {i \in Slots : table[i] >= delay}
  <2>1. ExtendStateStep \in T /\ T \subseteq Nat
    BY <1>0, <1>1, FilterBounds
  <2>2. PICK i \in T : \A j \in T : i <= j
    <3> HIDE DEF T
    <3> QED
      BY <2>1, Least
  <2>3. \A j \in 1..(i - 1) : table[j] < delay
    <3> SUFFICES ASSUME NEW j \in 1..(i - 1) PROVE table[j] < delay
      OBVIOUS
    <3>1. j \in Slots /\ ~(i <= j)
      BY <2>2, FilterBounds DEF Slots
    <3> QED
      BY <1>0, <2>2, <3>1
  <2> QED
    BY <2>2, <2>3
<1>3. lower \in Slots /\ IsLower(lower)
  <2> HIDE DEF IsLower
  <2> QED
    BY <1>2
<1>4. slot = (IF lower = 1 THEN 0
              ELSE IF delay - table[lower - 1] < table[lower] - delay THEN lower - 2
              ELSE lower - 1) + 1
  BY <1>1 DEF FindClosestDelayTimeIndex
<1> HIDE DEF slot, lower
<1>5. table[lower] >= delay /\ \A i \in Slots : ~(lower <= i) => table[i] < delay
  <2>1. \A i \in Slots : ~(lower <= i) => i \in 1..(lower - 1)
    BY <1>3, FilterBounds DEF Slots
  <2> QED
    BY <1>3, <2>1
<1> HIDE DEF table, IsLower
<1>6. Off(slot, delay) = Apart(table[slot], delay) /\ Off(k, delay) = Apart(table[k], delay)
  BY DEF Off, table
(* Above the delay the first is the closest, below it the last.            *)
<1>7. CASE lower <= k
  <2>1. table[lower] <= table[k] /\ table[k] \in Nat /\ table[lower] \in Nat
    BY <1>0, <1>3, <1>7
  <2>2. CASE slot = lower
    BY <1>5, <1>6, <2>1, <2>2 DEF Apart
  <2>3. CASE slot # lower
    <3>1. /\ slot = lower - 1 /\ slot \in Slots /\ ~(lower <= slot)
          /\ delay - table[slot] < table[lower] - delay
      BY <1>3, <1>4, <2>3, FilterBounds
    <3>2. table[slot] < delay /\ table[slot] \in Nat
      BY <1>0, <1>5, <3>1
    <3> QED
      BY <1>5, <1>6, <2>1, <3>1, <3>2 DEF Apart
  <2> QED
    BY <2>2, <2>3
<1>8. CASE ~(lower <= k)
  <2> DEFINE below == lower - 1
  <2>1. below \in Slots /\ k <= below /\ ~(lower <= below) /\ lower # 1
    BY <1>3, <1>8, FilterBounds DEF Slots
  <2>2. slot = IF delay - table[below] < table[lower] - delay THEN below ELSE lower
    BY <1>3, <1>4, <2>1, FilterBounds
  <2> HIDE DEF below
  <2>3. /\ table[k] <= table[below] /\ table[below] < delay /\ delay <= table[lower]
        /\ table[k] \in Nat /\ table[below] \in Nat /\ table[lower] \in Nat
    BY <1>0, <1>3, <1>5, <2>1
  <2>4. CASE slot = below
    BY <1>6, <2>3, <2>4 DEF Apart
  <2>5. CASE slot = lower /\ ~(delay - table[below] < table[lower] - delay)
    BY <1>6, <2>3, <2>5 DEF Apart
  <2> QED
    BY <2>2, <2>4, <2>5
<1> QED
  BY <1>7, <1>8

(* Activated, deactivated, reset and updated in any order, now and then    *)
(* late: the prediction a measurement is compared with is the one closest  *)
(* to it in time of those since the reset (accumulate_delay_time,          *)
(* find_closest_delay_time_index).                                         *)
THEOREM TheMeasurementsPrediction == Spec => []MeasurementMeetsItsPrediction
<1>1. FilterInv => MeasurementMeetsItsPrediction
  <2> SUFFICES ASSUME FilterInv, Estimating(ekf), filter.last # NoTime
               PROVE  /\ \A i \in Slots :
                           i + 1 \in Slots /\ filter.slots[i + 1] # FromReset => i \in Known
                      /\ OnTime => \A stamp \in 0..filter.last :
                           LET slot == FindClosestDelayTimeIndex(filter.table,
                                                                 filter.last - stamp) + 1
                           IN  slot \in Known => \A i \in Known :
                                 Apart(filter.slots[slot], stamp)
                                   <= Apart(filter.slots[i], stamp)
    BY DEF MeasurementMeetsItsPrediction
  <2>1. \A i \in Slots : i + 1 \in Slots /\ filter.slots[i + 1] # FromReset => i \in Known
    BY DEF FilterInv, SlotsMatch
  <2>2. ASSUME OnTime, NEW stamp \in 0..filter.last,
               FindClosestDelayTimeIndex(filter.table, filter.last - stamp) + 1 \in Known,
               NEW i \in Known
        PROVE  Apart(filter.slots[FindClosestDelayTimeIndex(filter.table,
                                                            filter.last - stamp) + 1], stamp)
                 <= Apart(filter.slots[i], stamp)
    <3> DEFINE delay == filter.last - stamp
               slot == FindClosestDelayTimeIndex(filter.table, delay) + 1
    <3>1. /\ filter.last \in Nat /\ delay \in Nat /\ stamp \in Nat /\ stamp = filter.last - delay
          /\ i \in Slots /\ slot \in Slots /\ slot \in Known
      <4>1. filter \in FilterRecords
        BY DEF FilterInv
      <4>2. filter.last \in Nat
        BY <4>1, FilterBounds DEF FilterRecords
      <4> QED
        BY <2>2, <4>2 DEF Known
    <3>2. Off(slot, delay) <= Off(i, delay)
      BY <3>1, ClosestIsFound
    <3> HIDE DEF slot, delay
    <3>3. \A k \in Known : Apart(filter.slots[k], stamp) = Off(k, delay)
      <4> SUFFICES ASSUME NEW k \in Known PROVE Apart(filter.slots[k], stamp) = Off(k, delay)
        OBVIOUS
      <4>1. filter.table[k] = filter.last - filter.slots[k]
        BY <2>2, DelaysAreExact
      <4>2. filter.table[k] \in Nat /\ filter.slots[k] \in Nat
        BY FilterBounds DEF FilterInv, FilterRecords, Known
      <4> QED
        BY <3>1, <4>1, <4>2 DEF Off, Apart
    <3> QED
      BY <3>1, <3>2, <3>3 DEF slot, delay
  <2> QED
    BY <2>1, <2>2
<1> QED
  BY <1>1, QueueInvIsInitial, QueueInvIsKept, FilterInvIsInitial, FilterInvIsKept, PTL DEF Spec
=============================================================================
