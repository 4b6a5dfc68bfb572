-------------------------- MODULE EventConsumerProofs --------------------------
(***************************************************************************)
(* For every bound on the events and every size of the windows: the        *)
(* consumer keeps its ranges sorted, never asks for an event it has seen,  *)
(* never meets an unexpected row, implements EventFeed, and gives up on an *)
(* event only when a window of later ones has been handed over.            *)
(***************************************************************************)
EXTENDS EventConsumer, TLAPS, FiniteSetTheorems

\* What the provers need to know of a list of ranges.
LEMMA RangesTyped ==
    ASSUME NEW rs \in Seq(EventRange)
    PROVE  /\ rs \in [1..Len(rs) -> EventRange] /\ Len(rs) \in Nat
           /\ \A j \in 1..Len(rs) : rs[j].b \in Nat \ {0} /\ rs[j].e \in Nat
<1>1. rs \in [1..Len(rs) -> EventRange] /\ Len(rs) \in Nat
  OBVIOUS
<1>2. \A j \in 1..Len(rs) : rs[j].b \in Nat \ {0} /\ rs[j].e \in Nat
  BY <1>1 DEF EventRange
<1> QED BY <1>1, <1>2

\* Consuming an event of ranges[k] takes that event, and no other, out.
LEMMA ConsumeProperties ==
    ASSUME NEW rs \in Seq(EventRange), Sorted(rs), NEW id \in Nat \ {0},
           NEW k \in 1..Len(rs), Contains(rs[k], id)
    PROVE  /\ Consume(rs, k, id) \in Seq(EventRange)
           /\ Sorted(Consume(rs, k, id))
           /\ \A x \in Nat \ {0} :
                InSomeRange(Consume(rs, k, id), x) <=> InSomeRange(rs, x) /\ x # id
<1> DEFINE new == Consume(rs, k, id)
<1>0. /\ rs \in [1..Len(rs) -> EventRange] /\ Len(rs) \in Nat
      /\ \A j \in 1..Len(rs) : rs[j].b \in Nat \ {0} /\ rs[j].e \in Nat
      /\ \A x \in Nat : Contains(rs[k], x) =>
            \A j \in 1..Len(rs) : Contains(rs[j], x) => j = k
  <2>1. rs \in [1..Len(rs) -> EventRange] /\ Len(rs) \in Nat
    BY RangesTyped
  <2>2. \A j \in 1..Len(rs) : rs[j].b \in Nat \ {0} /\ rs[j].e \in Nat
    BY RangesTyped
  <2>3. ASSUME NEW x \in Nat, Contains(rs[k], x), NEW j \in 1..Len(rs), Contains(rs[j], x)
        PROVE  j = k
    <3>1. ~(j < k)
      BY <2>1, <2>2, <2>3 DEF Sorted, Contains
    <3>2. ~(k < j)
      BY <2>1, <2>2, <2>3 DEF Sorted, Contains
    <3> QED BY <3>1, <3>2
  <2> QED BY <2>1, <2>2, <2>3
<1>s. /\ Len(rs) >= 1 /\ rs[Len(rs)].e = 0
      /\ \A j \in 1..Len(rs) : j < Len(rs) => rs[j].b <= rs[j].e
      /\ \A i, j \in 1..Len(rs) : i < j => rs[i].e # 0 /\ rs[i].e < rs[j].b
  BY DEF Sorted
<1>1. CASE id = rs[k].b
  <2>1. new = [rs EXCEPT ![k].b = id + 1]
    BY <1>1 DEF Consume
  <2>2. /\ new \in Seq(EventRange) /\ Len(new) = Len(rs)
        /\ new[k].b = id + 1 /\ new[k].e = rs[k].e
        /\ \A j \in 1..Len(rs) : j # k => new[j] = rs[j]
    BY <1>0, <2>1 DEF EventRange
  <2> HIDE DEF new
  <2>3. Sorted(new)
    <3>1. new[Len(new)].e = 0 /\ Len(new) >= 1
      BY <1>0, <2>2 DEF Sorted
    <3>2. ASSUME NEW j \in 1..Len(new), j < Len(new)
          PROVE  new[j].b <= new[j].e
      BY <1>0, <1>1, <2>2, <3>2 DEF Sorted, Contains
    <3>3. ASSUME NEW i \in 1..Len(new), NEW j \in 1..Len(new), i < j
          PROVE  new[i].e # 0 /\ new[i].e < new[j].b
      <4>1. CASE j # k
        BY <1>0, <2>2, <3>3, <4>1 DEF Sorted
      <4>2. CASE j = k
        BY <1>0, <1>1, <2>2, <3>3, <4>2 DEF Sorted
      <4> QED BY <4>1, <4>2
    <3> QED BY <3>1, <3>2, <3>3 DEF Sorted
  <2>4. ASSUME NEW x \in Nat \ {0}
        PROVE  InSomeRange(new, x) <=> InSomeRange(rs, x) /\ x # id
    <3>1. Contains(new[k], x) <=> Contains(rs[k], x) /\ x # id
      BY <1>0, <1>1, <2>2 DEF Contains
    <3>2. \A j \in 1..Len(rs) : j # k => (Contains(new[j], x) <=> Contains(rs[j], x))
      BY <2>2
    <3>3. \A j \in 1..Len(rs) : j # k /\ Contains(rs[j], x) => x # id
      BY <1>0
    <3> QED BY <1>0, <2>2, <3>1, <3>2, <3>3 DEF InSomeRange
  <2> QED BY <2>2, <2>3, <2>4 DEF new
<1>2. CASE id # rs[k].b
  <2>1. new = SplitAt(rs, k, id)
    BY <1>2 DEF Consume
  <2>2. /\ new \in [1..(Len(rs) + 1) -> EventRange]
        /\ new \in Seq(EventRange) /\ Len(new) = Len(rs) + 1
        /\ new[k] = [b |-> rs[k].b, e |-> id]
        /\ new[k + 1] = [b |-> id + 1, e |-> rs[k].e]
        /\ \A j \in 1..Len(rs) : j < k => new[j] = rs[j]
        /\ \A j \in 1..(Len(rs) + 1) : j > k + 1 => new[j] = rs[j - 1]
    <3>1. \A j \in 1..(Len(rs) + 1) : j > k + 1 => j - 1 \in 1..Len(rs)
      BY <1>0
    <3>2. /\ [b |-> rs[k].b, e |-> id] \in EventRange
          /\ [b |-> id + 1, e |-> rs[k].e] \in EventRange
      BY <1>0 DEF EventRange
    <3>3. /\ new[k] = [b |-> rs[k].b, e |-> id]
          /\ new[k + 1] = [b |-> id + 1, e |-> rs[k].e]
          /\ \A j \in 1..Len(rs) : j < k => new[j] = rs[j]
          /\ \A j \in 1..(Len(rs) + 1) : j > k + 1 => new[j] = rs[j - 1]
      BY <1>0, <2>1, <3>1 DEF SplitAt
    <3>4. ASSUME NEW j \in 1..(Len(rs) + 1)
          PROVE  new[j] \in EventRange
      <4> HIDE DEF new
      <4>1. CASE j < k
        <5>1. j \in 1..Len(rs)
          BY <1>0, <4>1
        <5> QED BY <1>0, <3>3, <4>1, <5>1
      <4>2. CASE j = k \/ j = k + 1
        BY <3>2, <3>3, <4>2
      <4>3. CASE j > k + 1
        <5>1. j - 1 \in 1..Len(rs) /\ new[j] = rs[j - 1]
          BY <3>1, <3>3, <4>3
        <5> QED BY <1>0, <5>1
      <4> QED BY <1>0, <4>1, <4>2, <4>3
    <3>5. new = [j \in 1..(Len(rs) + 1) |-> new[j]]
      BY <2>1 DEF SplitAt
    <3>6. new \in [1..(Len(rs) + 1) -> EventRange]
      <4> HIDE DEF new
      <4> QED BY <3>4, <3>5
    <3>7. new \in Seq(EventRange) /\ Len(new) = Len(rs) + 1
      <4> HIDE DEF new
      <4>1. Len(rs) + 1 \in Nat
        BY <1>0
      <4> QED BY <3>6, <4>1
    <3> QED
      BY <3>3, <3>6, <3>7
  <2> HIDE DEF new
  <2>3. /\ new[k].b = rs[k].b /\ new[k].e = id
        /\ new[k + 1].b = id + 1 /\ new[k + 1].e = rs[k].e
        /\ id > rs[k].b /\ (rs[k].e = 0 \/ id < rs[k].e)
    BY <1>0, <1>2, <2>2 DEF Contains
  <2>t. /\ \A j \in 1..Len(rs) : j < k => new[j].b = rs[j].b /\ new[j].e = rs[j].e
        /\ \A j \in 1..(Len(rs) + 1) : j > k + 1 =>
              /\ j - 1 \in 1..Len(rs) /\ j - 1 > k
              /\ new[j].b = rs[j - 1].b /\ new[j].e = rs[j - 1].e
    BY SMTT(30), <1>0, <2>2
  <2>4. Sorted(new)
    <3>1. new[Len(new)].e = 0 /\ Len(new) >= 1
      BY SMTT(30), <1>0, <2>2, <2>t, <1>s, <2>3
    <3>2. ASSUME NEW j \in 1..Len(new), j < Len(new)
          PROVE  new[j].b <= new[j].e
      <4>1. CASE j < k
        <5>1. j \in 1..Len(rs) /\ j < Len(rs)
          BY <1>0, <2>2, <4>1
        <5> QED BY <2>t, <1>s, <4>1, <5>1
      <4>2. CASE j = k
        BY <1>0, <2>3, <4>2
      <4>3. CASE j = k + 1
        <5>1. k < Len(rs) /\ Len(rs) \in 1..Len(rs)
          BY <1>0, <2>2, <3>2, <4>3
        <5>2. rs[k].e # 0
          BY <1>s, <5>1
        <5> QED BY <1>0, <2>3, <4>3, <5>2
      <4>4. CASE j > k + 1
        <5>1. j \in 1..(Len(rs) + 1) /\ j < Len(rs) + 1
          BY <2>2, <3>2
        <5>2. j - 1 \in 1..Len(rs) /\ new[j].b = rs[j - 1].b /\ new[j].e = rs[j - 1].e
          BY <2>t, <4>4, <5>1
        <5>3. j - 1 < Len(rs)
          BY <1>0, <5>1
        <5>4. rs[j - 1].b <= rs[j - 1].e
          BY <1>s, <5>2, <5>3
        <5> QED BY <5>2, <5>4
      <4> QED BY <1>0, <2>2, <2>t, <1>s, <4>1, <4>2, <4>3, <4>4
    <3>3. ASSUME NEW i \in 1..Len(new), NEW j \in 1..Len(new), i < j
          PROVE  new[i].e # 0 /\ new[i].e < new[j].b
      <4>1. CASE j < k
        <5>1. i \in 1..Len(rs) /\ j \in 1..Len(rs) /\ i < k
          BY <1>0, <2>2, <3>3, <4>1
        <5> QED BY <2>t, <1>s, <3>3, <4>1, <5>1
      <4>2. CASE j = k
        <5>1. i \in 1..Len(rs) /\ i < k
          BY <1>0, <2>2, <3>3, <4>2
        <5>2. new[i].e = rs[i].e /\ rs[i].e # 0 /\ rs[i].e < rs[k].b
          BY <1>s, <2>t, <5>1
        <5> QED BY <2>3, <4>2, <5>2
      <4>3. CASE j = k + 1
        <5>1. CASE i < k
          <6>1. i \in 1..Len(rs) /\ new[i].e = rs[i].e /\ rs[i].e # 0 /\ rs[i].e < rs[k].b
            BY <1>0, <2>t, <1>s, <5>1, <2>2
          <6> QED BY <1>0, <2>3, <4>3, <6>1
        <5>2. CASE i = k
          BY <1>0, <2>3, <4>3, <5>2
        <5> QED BY <1>0, <2>2, <3>3, <4>3, <5>1, <5>2
      <4>4. CASE j > k + 1
        <5>1. CASE i < k
          <6>1. i \in 1..Len(rs) /\ j - 1 \in 1..Len(rs) /\ i < j - 1
            BY <1>0, <2>2, <2>t, <4>4, <5>1
          <6>2. new[j].b = rs[j - 1].b /\ new[i].e = rs[i].e
            BY <2>2, <2>t, <4>4, <5>1, <6>1
          <6>3. rs[i].e # 0 /\ rs[i].e < rs[j - 1].b
            BY <1>s, <6>1
          <6> QED BY <6>2, <6>3
        <5>2. CASE i = k
          <6>1. j - 1 \in 1..Len(rs) /\ k < j - 1 /\ new[j].b = rs[j - 1].b
            BY <2>2, <2>t, <4>4
          <6>2. rs[k].e # 0 /\ rs[k].e < rs[j - 1].b
            BY <1>s, <6>1
          <6> QED BY SMTT(30), <1>0, <2>3, <5>2, <6>1, <6>2
        <5>3. CASE i = k + 1
          <6>1. j - 1 \in 1..Len(rs) /\ k < j - 1 /\ new[j].b = rs[j - 1].b
            BY <2>2, <2>t, <4>4
          <6>2. rs[k].e # 0 /\ rs[k].e < rs[j - 1].b
            BY <1>s, <6>1
          <6> QED BY <2>3, <5>3, <6>1, <6>2
        <5>4. CASE i > k + 1
          <6>1. i \in 1..(Len(rs) + 1) /\ j \in 1..(Len(rs) + 1)
            BY <2>2
          <6>2. /\ i - 1 \in 1..Len(rs) /\ new[i].e = rs[i - 1].e
                /\ j - 1 \in 1..Len(rs) /\ new[j].b = rs[j - 1].b
            BY <2>t, <4>4, <5>4, <6>1
          <6>3. i - 1 < j - 1
            BY <1>0, <3>3, <6>1
          <6>4. rs[i - 1].e # 0 /\ rs[i - 1].e < rs[j - 1].b
            BY <1>s, <6>2, <6>3
          <6> QED BY <6>2, <6>4
        <5> QED BY <1>0, <2>2, <2>t, <1>s, <5>1, <5>2, <5>3, <5>4
      <4> QED BY <1>0, <2>2, <2>t, <1>s, <4>1, <4>2, <4>3, <4>4
    <3> QED BY <3>1, <3>2, <3>3 DEF Sorted
  <2>5. ASSUME NEW x \in Nat \ {0}
        PROVE  InSomeRange(new, x) <=> InSomeRange(rs, x) /\ x # id
    <3>1. ASSUME NEW j \in 1..Len(new), Contains(new[j], x)
          PROVE  InSomeRange(rs, x) /\ x # id
      <4>1. CASE j < k
        BY SMTT(30), <1>0, <2>2, <3>1, <4>1 DEF InSomeRange
      <4>2. CASE j = k \/ j = k + 1
        <5>1. Contains(rs[k], x) /\ x # id
          BY <1>0, <2>2, <2>3, <3>1, <4>2 DEF Contains
        <5> QED BY <5>1 DEF InSomeRange
      <4>3. CASE j > k + 1
        <5>1. j - 1 \in 1..Len(rs) /\ j - 1 # k /\ Contains(rs[j - 1], x)
          BY <1>0, <2>2, <3>1, <4>3
        <5> QED BY <1>0, <5>1 DEF InSomeRange
      <4> QED BY <1>0, <2>2, <4>1, <4>2, <4>3
    <3>2. ASSUME NEW j \in 1..Len(rs), Contains(rs[j], x), x # id
          PROVE  InSomeRange(new, x)
      <4>1. CASE j < k
        BY <1>0, <2>2, <3>2, <4>1 DEF InSomeRange
      <4>2. CASE j = k
        <5>1. Contains(new[k], x) \/ Contains(new[k + 1], x)
          BY <1>0, <2>2, <2>3, <3>2, <4>2 DEF Contains
        <5>2. k \in 1..Len(new) /\ k + 1 \in 1..Len(new)
          BY <1>0, <2>2
        <5> QED BY <5>1, <5>2 DEF InSomeRange
      <4>3. CASE j > k
        <5>1. j + 1 \in 1..Len(new) /\ new[j + 1] = rs[j]
          BY SMTT(30), <1>0, <2>2, <4>3
        <5> QED BY <3>2, <5>1 DEF InSomeRange
      <4> QED BY <1>0, <4>1, <4>2, <4>3
    <3> QED BY <3>1, <3>2 DEF InSomeRange
  <2> QED BY <2>2, <2>4, <2>5 DEF new
<1> QED BY <1>1, <1>2

\* The ranges before the cursor are left alone, and they are behind the event.
LEMMA ConsumeKeepsCursor ==
    ASSUME NEW rs \in Seq(EventRange), Sorted(rs), NEW id \in Nat \ {0},
           NEW k \in 1..Len(rs), Contains(rs[k], id),
           NEW x \in Nat \ {0}, x > id, InSomeRange(rs, x)
    PROVE  \E j \in k..Len(Consume(rs, k, id)) : Contains(Consume(rs, k, id)[j], x)
<1> DEFINE new == Consume(rs, k, id)
<1>1. /\ new \in Seq(EventRange) /\ InSomeRange(new, x)
  BY ConsumeProperties
<1>2. PICK j \in 1..Len(new) : Contains(new[j], x)
  BY <1>1 DEF InSomeRange
<1>3. ASSUME j < k PROVE FALSE
  <2>1. /\ rs \in [1..Len(rs) -> EventRange] /\ Len(rs) \in Nat
        /\ \A i \in 1..Len(rs) : rs[i].b \in Nat /\ rs[i].e \in Nat
    BY RangesTyped
  <2>2. j \in 1..Len(rs)
    BY <1>3, <2>1, <1>1
  <2>3. new[j] = rs[j]
    BY <1>3, <2>1, <2>2 DEF Consume, SplitAt
  <2>4. rs[j].e # 0 /\ rs[j].e < rs[k].b
    BY <1>3, <2>2 DEF Sorted
  <2>5. x < rs[j].e /\ rs[k].b <= id
    BY <1>2, <2>3, <2>4 DEF Contains
  <2> QED BY <2>1, <2>2, <2>4, <2>5
<1>4. j \in k..Len(new)
  BY <1>1, <1>3
<1> QED BY <1>2, <1>4

\* An empty range is dropped: the rest stays sorted and covers the same IDs.
LEMMA DropProperties ==
    ASSUME NEW rs \in Seq(EventRange), Sorted(rs), NEW k \in 1..Len(rs),
           rs[k].b = rs[k].e
    PROVE  /\ DropRange(rs, k) \in Seq(EventRange)
           /\ Sorted(DropRange(rs, k))
           /\ \A x \in Nat \ {0} :
                InSomeRange(DropRange(rs, k), x) <=> InSomeRange(rs, x)
<1> DEFINE new == DropRange(rs, k)
<1>1. /\ rs \in [1..Len(rs) -> EventRange] /\ Len(rs) \in Nat
      /\ \A j \in 1..Len(rs) : rs[j].b \in Nat \ {0} /\ rs[j].e \in Nat
  BY RangesTyped
<1>2. /\ Len(rs) >= 1 /\ rs[Len(rs)].e = 0
      /\ \A j \in 1..Len(rs) : j < Len(rs) => rs[j].b <= rs[j].e
      /\ \A i, j \in 1..Len(rs) : i < j => rs[i].e # 0 /\ rs[i].e < rs[j].b
  BY DEF Sorted
<1>3. k < Len(rs) /\ Len(rs) - 1 \in Nat
  BY <1>1, <1>2
<1>4. /\ \A j \in 1..(Len(rs) - 1) : j < k => new[j] = rs[j] /\ j \in 1..Len(rs)
      /\ \A j \in 1..(Len(rs) - 1) : j >= k =>
            new[j] = rs[j + 1] /\ j + 1 \in 1..Len(rs)
  BY <1>1, <1>3 DEF DropRange
<1>5. new = [j \in 1..(Len(rs) - 1) |-> new[j]]
  BY DEF DropRange
<1> HIDE DEF new
<1>6. \A j \in 1..(Len(rs) - 1) : new[j] \in EventRange
  <2> SUFFICES ASSUME NEW j \in 1..(Len(rs) - 1) PROVE new[j] \in EventRange
    OBVIOUS
  <2>1. CASE j < k
    BY <1>1, <1>4, <2>1
  <2>2. CASE j >= k
    BY <1>1, <1>4, <2>2
  <2> QED BY <1>1, <2>1, <2>2
<1>7. new \in [1..(Len(rs) - 1) -> EventRange]
  BY <1>5, <1>6
<1>8. new \in Seq(EventRange) /\ Len(new) = Len(rs) - 1
  BY <1>3, <1>7
<1>9. Sorted(new)
  <2>1. Len(new) >= 1 /\ new[Len(new)].e = 0
    BY <1>1, <1>2, <1>3, <1>4, <1>8
  <2>2. ASSUME NEW j \in 1..Len(new), j < Len(new)
        PROVE  new[j].b <= new[j].e
    BY <1>1, <1>2, <1>3, <1>4, <1>8, <2>2
  <2>3. ASSUME NEW i \in 1..Len(new), NEW j \in 1..Len(new), i < j
        PROVE  new[i].e # 0 /\ new[i].e < new[j].b
    <3>1. CASE j < k
      <4>1. i < k
        BY <1>1, <2>3, <3>1, <1>8
      <4> QED BY <1>2, <1>4, <1>8, <2>3, <3>1, <4>1
    <3>2. CASE i < k /\ j >= k
      <4>1. i < j + 1
        BY <1>1, <1>8, <2>3
      <4>2. i \in 1..Len(rs) /\ j + 1 \in 1..Len(rs) /\ new[i] = rs[i] /\ new[j] = rs[j + 1]
        BY <1>4, <1>8, <3>2
      <4> QED BY <1>2, <4>1, <4>2
    <3>3. CASE i >= k
      <4>1. j >= k /\ i + 1 < j + 1
        BY <1>1, <1>8, <2>3, <3>3
      <4>2. /\ i + 1 \in 1..Len(rs) /\ j + 1 \in 1..Len(rs)
            /\ new[i] = rs[i + 1] /\ new[j] = rs[j + 1]
        BY <1>4, <1>8, <3>3, <4>1
      <4> QED BY <1>2, <4>1, <4>2
    <3> QED BY <1>1, <1>8, <3>1, <3>2, <3>3
  <2> QED BY <2>1, <2>2, <2>3 DEF Sorted
<1>10. ASSUME NEW x \in Nat \ {0}
       PROVE  InSomeRange(new, x) <=> InSomeRange(rs, x)
  <2>1. ASSUME NEW j \in 1..Len(new), Contains(new[j], x)
        PROVE  InSomeRange(rs, x)
    BY <1>1, <1>4, <1>8, <2>1 DEF InSomeRange
  <2>2. ASSUME NEW j \in 1..Len(rs), Contains(rs[j], x)
        PROVE  InSomeRange(new, x)
    <3>1. j # k
      BY <1>1, <2>2 DEF Contains
    <3>2. CASE j < k
      <4>1. j \in 1..Len(new) /\ new[j] = rs[j]
        BY <1>1, <1>3, <1>4, <1>8, <3>2
      <4> QED BY <2>2, <4>1 DEF InSomeRange
    <3>3. CASE j > k
      <4>1. j - 1 \in 1..(Len(rs) - 1) /\ j - 1 >= k /\ (j - 1) + 1 = j
        BY <1>1, <1>3, <3>3
      <4>2. j - 1 \in 1..Len(new) /\ new[j - 1] = rs[j]
        BY <1>4, <1>8, <4>1
      <4> QED BY <2>2, <4>2 DEF InSomeRange
    <3> QED BY <1>1, <3>1, <3>2, <3>3
  <2> QED BY <2>1, <2>2 DEF InSomeRange
<1> QED BY <1>8, <1>9, <1>10 DEF new

\* The newest ranges are sorted and cover nothing that was not covered.
LEMMA NewestProperties ==
    ASSUME NEW rs \in Seq(EventRange), Sorted(rs), Len(rs) > GapWindow
    PROVE  /\ NewestRanges(rs) \in Seq(EventRange)
           /\ Sorted(NewestRanges(rs))
           /\ \A x \in Nat \ {0} :
                InSomeRange(NewestRanges(rs), x) => InSomeRange(rs, x)
<1> DEFINE new == NewestRanges(rs)
<1> DEFINE d == Len(rs) - GapWindow
<1>1. /\ rs \in [1..Len(rs) -> EventRange] /\ Len(rs) \in Nat
      /\ GapWindow \in Nat \ {0} /\ d \in Nat /\ GapWindow + d = Len(rs)
  BY WindowAssumption
<1>2. /\ Len(rs) >= 1 /\ rs[Len(rs)].e = 0
      /\ \A j \in 1..Len(rs) : j < Len(rs) => rs[j].b <= rs[j].e
      /\ \A i, j \in 1..Len(rs) : i < j => rs[i].e # 0 /\ rs[i].e < rs[j].b
  BY DEF Sorted
<1>3. \A j \in 1..GapWindow : new[j] = rs[j + d]
  BY DEF NewestRanges
<1>4. new = [j \in 1..GapWindow |-> new[j]]
  BY DEF NewestRanges
<1> HIDE DEF new, d
<1>5. \A j \in 1..GapWindow : j + d \in 1..Len(rs)
  BY <1>1
<1>6. new \in [1..GapWindow -> EventRange]
  BY <1>1, <1>3, <1>4, <1>5
<1>7. new \in Seq(EventRange) /\ Len(new) = GapWindow
  BY <1>1, <1>6
<1>8. Sorted(new)
  <2>1. Len(new) >= 1 /\ new[Len(new)].e = 0
    <3>1. GapWindow \in 1..GapWindow
      BY <1>1
    <3>2. new[GapWindow] = rs[Len(rs)]
      BY <1>1, <1>3, <3>1
    <3> QED BY <1>1, <1>2, <1>7, <3>2
  <2>2. ASSUME NEW j \in 1..Len(new), j < Len(new)
        PROVE  new[j].b <= new[j].e
    <3>1. j + d \in 1..Len(rs) /\ j + d < Len(rs)
      BY <1>1, <1>7, <2>2
    <3> QED BY <1>2, <1>3, <1>7, <3>1
  <2>3. ASSUME NEW i \in 1..Len(new), NEW j \in 1..Len(new), i < j
        PROVE  new[i].e # 0 /\ new[i].e < new[j].b
    <3>1. i + d \in 1..Len(rs) /\ j + d \in 1..Len(rs) /\ i + d < j + d
      BY <1>1, <1>7, <2>3
    <3> QED BY <1>2, <1>3, <1>7, <3>1
  <2> QED BY <2>1, <2>2, <2>3 DEF Sorted
<1>9. \A x \in Nat \ {0} : InSomeRange(new, x) => InSomeRange(rs, x)
  BY <1>3, <1>5, <1>7 DEF InSomeRange
<1> QED BY <1>7, <1>8, <1>9 DEF new

--------------------------------------------------------------------------------
\* IDs come from the sequence before they are inserted and are inserted before
\* they are committed; only a call in progress holds rows, and only visible ones.
Bookkeeping ==
    /\ open \subseteq 1..(next - 1) /\ committed \subseteq 1..(next - 1)
    /\ open \cap committed = {}
    /\ batch \subseteq committed /\ delivered \subseteq committed
    /\ pc # "reading" => batch = {}

\* The inductive invariant.
IInv == TypeOK /\ RangesSorted /\ NothingSeenIsAskedAgain /\ CursorFound /\ Bookkeeping

LEMMA InitInvariant == Init => IInv
<1> SUFFICES ASSUME Init PROVE IInv
  OBVIOUS
<1>1. PICK begin \in 1..(MaxEvent + 1) : ranges = <<[b |-> begin, e |-> 0]>>
  BY DEF Init
<1>2. [b |-> begin, e |-> 0] \in EventRange
  BY EventAssumption, <1>1 DEF EventRange
<1>3. ranges \in Seq(EventRange) /\ Len(ranges) = 1 /\ ranges[1].e = 0
  BY <1>1, <1>2
<1>4. TypeOK
  BY EventAssumption, <1>3 DEF Init, TypeOK, EventIDs
<1>5. RangesSorted
  BY <1>3 DEF RangesSorted, Sorted
<1> QED
  BY EventAssumption, <1>4, <1>5
  DEF Init, IInv, NothingSeenIsAskedAgain, CursorFound, Bookkeeping

\* What the rows of a call in progress satisfy.
LEMMA ReadRow ==
    ASSUME IInv, NEW id \in batch, NEW k \in 1..Len(ranges), Contains(ranges[k], id)
    PROVE  /\ id \in Nat \ {0} /\ id \in committed /\ id \in EventIDs
           /\ id \notin delivered /\ InSomeRange(ranges, id)
<1>1. id \in Nat \ {0} /\ id \in committed /\ id \in EventIDs
  BY EventAssumption DEF IInv, TypeOK, Bookkeeping, EventIDs
<1>2. InSomeRange(ranges, id)
  BY DEF InSomeRange
<1> QED BY <1>1, <1>2 DEF IInv, NothingSeenIsAskedAgain

LEMMA NextInvariant == IInv /\ [Next]_vars => IInv'
<1> SUFFICES ASSUME IInv, [Next]_vars PROVE IInv'
  OBVIOUS
<1> USE EventAssumption, WindowAssumption
<1>0. /\ ranges \in Seq(EventRange) /\ Sorted(ranges) /\ Len(ranges) \in Nat
      /\ EventIDs \subseteq Nat \ {0}
  BY RangesTyped DEF IInv, TypeOK, RangesSorted, EventIDs
<1>1. CASE CreateEvent
  <2>1. TypeOK'
    BY <1>1 DEF IInv, CreateEvent, TypeOK, EventIDs, consumerVars
  <2>2. Bookkeeping'
    BY <1>1 DEF IInv, CreateEvent, Bookkeeping, TypeOK, consumerVars
  <2> QED
    BY <1>1, <2>1, <2>2
    DEF IInv, CreateEvent, consumerVars, RangesSorted, NothingSeenIsAskedAgain, CursorFound
<1>2. ASSUME NEW id \in open, CommitEvent(id) \/ RollbackEvent(id)
      PROVE  IInv'
  <2>1. TypeOK'
    BY <1>2 DEF IInv, CommitEvent, RollbackEvent, TypeOK, consumerVars
  <2>2. Bookkeeping'
    BY <1>2 DEF IInv, CommitEvent, RollbackEvent, Bookkeeping, TypeOK, consumerVars
  <2> QED
    BY <1>2, <2>1, <2>2
    DEF IInv, CommitEvent, RollbackEvent, consumerVars, RangesSorted,
        NothingSeenIsAskedAgain, CursorFound
<1>3. CASE LoadEvents
  <2>1. TypeOK'
    BY <1>3 DEF IInv, LoadEvents, TypeOK, dbVars
  <2>3. Bookkeeping'
    BY <1>3 DEF IInv, LoadEvents, Bookkeeping, dbVars
  <2>2. CursorFound'
    <3> SUFFICES ASSUME NEW id \in batch'
                 PROVE  \E k \in 1..Len(ranges) : Contains(ranges[k], id)
      BY <1>3 DEF LoadEvents, CursorFound
    <3>1. PICK k \in 1..Len(ranges) : WhereMatches(ranges[k], id)
      BY <1>3 DEF LoadEvents
    <3>2. id \in Nat /\ ranges[k].b \in Nat /\ ranges[k].e \in Nat
      BY <1>0, <1>3, RangesTyped DEF LoadEvents, IInv, TypeOK
    <3>3. Contains(ranges[k], id)
      BY <3>1, <3>2 DEF Contains, WhereMatches
    <3> QED BY <3>3
  <2> QED
    BY <1>3, <2>1, <2>2, <2>3
    DEF IInv, LoadEvents, RangesSorted, NothingSeenIsAskedAgain
<1>4. CASE ConsumeEvent
  <2>1. PICK id \in batch, k \in 1..Len(ranges) :
            /\ IsLeast(id, batch) /\ IsCursor(k, id)
            /\ ranges' = Consume(ranges, k, id)
            /\ it' = k
            /\ batch' = batch \ {id}
            /\ delivered' = delivered \cup {id}
    BY <1>4 DEF ConsumeEvent
  <2>2. Contains(ranges[k], id)
    BY <2>1 DEF IsCursor
  <2>3. id \in Nat \ {0} /\ id \in committed /\ id \in EventIDs
    BY <2>2, ReadRow
  <2>4. /\ ranges' \in Seq(EventRange) /\ Sorted(ranges')
        /\ \A x \in Nat \ {0} : InSomeRange(ranges', x) <=> InSomeRange(ranges, x) /\ x # id
    BY <1>0, <2>1, <2>2, <2>3, ConsumeProperties
  <2>5. TypeOK' /\ Bookkeeping'
    BY <1>0, <1>4, <2>1, <2>3, <2>4 DEF IInv, ConsumeEvent, TypeOK, Bookkeeping, dbVars
  <2>6. RangesSorted'
    BY <2>4 DEF RangesSorted
  <2>7. NothingSeenIsAskedAgain'
    <3> SUFFICES ASSUME NEW x \in delivered' PROVE ~InSomeRange(ranges', x)
      BY DEF NothingSeenIsAskedAgain
    <3>1. x \in Nat \ {0} /\ (x = id \/ x \in delivered)
      BY <1>0, <2>1, <2>3 DEF IInv, TypeOK
    <3> QED BY <2>4, <3>1 DEF IInv, NothingSeenIsAskedAgain
  <2>8. CursorFound'
    <3> SUFFICES ASSUME NEW x \in batch, x # id
                 PROVE  \E j \in k..Len(Consume(ranges, k, id)) :
                            Contains(Consume(ranges, k, id)[j], x)
      BY <2>1 DEF CursorFound
    <3>1. x \in Nat \ {0} /\ x > id
      BY <1>0, <2>1, <2>3 DEF IInv, TypeOK, IsLeast
    <3>2. InSomeRange(ranges, x)
      BY <1>0 DEF IInv, TypeOK, CursorFound, InSomeRange
    <3> QED BY <1>0, <2>2, <2>3, <3>1, <3>2, ConsumeKeepsCursor
  <2> QED BY <2>5, <2>6, <2>7, <2>8 DEF IInv
<1>5. CASE CallbackError \/ EndOfRows
  <2>1. TypeOK'
    BY <1>5 DEF IInv, CallbackError, EndOfRows, TypeOK, dbVars
  <2>2. Bookkeeping'
    BY <1>5 DEF IInv, CallbackError, EndOfRows, Bookkeeping, dbVars
  <2> QED
    BY <1>5, <2>1, <2>2
    DEF IInv, CallbackError, EndOfRows, RangesSorted, NothingSeenIsAskedAgain, CursorFound
<1>6. CASE CompactStep
  <2>0. batch = {} /\ batch' = {} /\ CursorFound'
    BY <1>6 DEF IInv, Bookkeeping, CompactStep, CursorFound
  <2>1. CASE UNCHANGED ranges /\ it' = it + 1
    <3>1. TypeOK' /\ Bookkeeping'
      BY <1>6, <2>1 DEF IInv, CompactStep, TypeOK, Bookkeeping, dbVars
    <3> QED
      BY <1>6, <2>0, <2>1, <3>1
      DEF IInv, CompactStep, RangesSorted, NothingSeenIsAskedAgain
  <2>2. CASE ranges[it].b = ranges[it].e /\ ranges' = DropRange(ranges, it) /\ UNCHANGED it
    <3>1. it \in 1..Len(ranges)
      BY <1>0, <1>6 DEF IInv, TypeOK, CompactStep
    <3>2. /\ ranges' \in Seq(EventRange) /\ Sorted(ranges')
          /\ \A x \in Nat \ {0} : InSomeRange(ranges', x) <=> InSomeRange(ranges, x)
      BY <1>0, <2>2, <3>1, DropProperties
    <3>3. TypeOK' /\ Bookkeeping'
      BY <1>6, <2>2, <3>2 DEF IInv, CompactStep, TypeOK, Bookkeeping, dbVars
    <3>4. NothingSeenIsAskedAgain'
      BY <1>0, <1>6, <3>2 DEF IInv, TypeOK, CompactStep, NothingSeenIsAskedAgain
    <3> QED BY <2>0, <3>2, <3>3, <3>4 DEF IInv, RangesSorted
  <2> QED BY <1>6, <2>1, <2>2 DEF CompactStep
<1>7. CASE SkipGaps
  <2>0. batch = {} /\ batch' = {} /\ CursorFound'
    BY <1>7 DEF IInv, Bookkeeping, SkipGaps, CursorFound
  <2>1. /\ ranges' \in Seq(EventRange) /\ Sorted(ranges')
        /\ \A x \in Nat \ {0} : InSomeRange(ranges', x) => InSomeRange(ranges, x)
    BY <1>0, <1>7, NewestProperties DEF SkipGaps
  <2>2. TypeOK' /\ Bookkeeping'
    BY <1>7, <2>1 DEF IInv, SkipGaps, TypeOK, Bookkeeping, dbVars
  <2>3. NothingSeenIsAskedAgain'
    BY <1>0, <1>7, <2>1 DEF IInv, TypeOK, SkipGaps, NothingSeenIsAskedAgain
  <2> QED BY <2>0, <2>1, <2>2, <2>3 DEF IInv, RangesSorted
<1>8. CASE UNCHANGED vars
  BY <1>8
  DEF IInv, TypeOK, RangesSorted, NothingSeenIsAskedAgain, CursorFound, Bookkeeping,
      vars, dbVars, consumerVars
<1> QED BY <1>1, <1>2, <1>3, <1>4, <1>5, <1>6, <1>7, <1>8 DEF Next

LEMMA Invariance == Spec => []IInv
BY InitInvariant, NextInvariant, PTL DEF Spec

--------------------------------------------------------------------------------
(* The variables keep their types, whatever the windows. *)
THEOREM TypeCorrect == Spec => []TypeOK
BY Invariance, PTL DEF IInv

(* The list of ranges ConsumeEvents keeps between and during calls is       *)
(* sorted, disjoint, and open only at its end.                              *)
THEOREM RangesStaySorted == Spec => []RangesSorted
BY Invariance, PTL DEF IInv

(* ConsumeEvents never asks for an event its callback has accepted.         *)
THEOREM SeenOnce == Spec => []NothingSeenIsAskedAgain
BY Invariance, PTL DEF IInv

(* ConsumeEvents never returns "invalid event ID".                          *)
THEOREM NoInvalidEvent == Spec => []CursorFound
BY Invariance, PTL DEF IInv

\* The initial states of the consumer are initial states of the feed ...
LEMMA FeedInitial == Init => Feed!FeedInit
<1> SUFFICES ASSUME Init PROVE Feed!FeedInit
  OBVIOUS
<1>1. committed \subseteq EventIDs
  BY InitInvariant DEF IInv, TypeOK
<1> QED
  BY <1>1 DEF Init, Skipped, EventIDs, Feed!FeedInit, Feed!EventIDs

\* ... and its steps are steps of the feed, or change nothing of it.
LEMMA FeedStep == IInv /\ [Next]_vars => [Feed!FeedNext]_(Feed!feedVars)
<1> SUFFICES ASSUME IInv, [Next]_vars PROVE [Feed!FeedNext]_(Feed!feedVars)
  OBVIOUS
<1> USE EventAssumption, WindowAssumption
<1>0. /\ ranges \in Seq(EventRange) /\ Sorted(ranges) /\ Len(ranges) \in Nat
      /\ EventIDs \subseteq Nat \ {0} /\ Feed!EventIDs = EventIDs
  BY RangesTyped DEF IInv, TypeOK, RangesSorted, EventIDs, Feed!EventIDs
<1>1. CASE UNCHANGED <<committed, delivered, ranges>>
  BY <1>1 DEF Feed!feedVars, Skipped, InSomeRange
<1>2. ASSUME NEW id \in open, CommitEvent(id)
      PROVE  Feed!Publish
  <2>1. id \in EventIDs \ committed
    BY DEF IInv, TypeOK, Bookkeeping
  <2>2. UNCHANGED Skipped
    BY <1>2 DEF CommitEvent, consumerVars, Skipped, InSomeRange
  <2> QED BY <1>0, <1>2, <2>1, <2>2 DEF CommitEvent, consumerVars, Feed!Publish
<1>3. CASE ConsumeEvent
  <2>1. PICK id \in batch, k \in 1..Len(ranges) :
            /\ IsLeast(id, batch) /\ IsCursor(k, id)
            /\ ranges' = Consume(ranges, k, id)
            /\ delivered' = delivered \cup {id}
    BY <1>3 DEF ConsumeEvent
  <2>2. Contains(ranges[k], id)
    BY <2>1 DEF IsCursor
  <2>3. /\ id \in Nat \ {0} /\ id \in committed /\ id \in EventIDs
        /\ id \notin delivered /\ InSomeRange(ranges, id)
    BY <2>2, ReadRow
  <2>4. \A x \in EventIDs : InSomeRange(ranges', x) <=> InSomeRange(ranges, x) /\ x # id
    BY <1>0, <2>1, <2>2, <2>3, ConsumeProperties
  <2>5. Skipped' = Skipped
    BY <2>1, <2>3, <2>4 DEF Skipped
  <2>6. id \notin Skipped
    BY <2>3 DEF Skipped
  <2> QED BY <1>3, <2>1, <2>3, <2>5, <2>6 DEF ConsumeEvent, dbVars, Feed!FeedNext, Feed!HandOver
<1>4. ASSUME UNCHANGED <<committed, delivered>>,
             \A x \in Nat \ {0} : InSomeRange(ranges', x) => InSomeRange(ranges, x)
      PROVE  Feed!GiveUp
  <2>1. Skipped \subseteq Skipped'
    BY <1>0, <1>4 DEF Skipped
  <2>2. /\ Skipped' \ Skipped \in SUBSET (EventIDs \ delivered)
        /\ Skipped' = Skipped \cup (Skipped' \ Skipped)
    BY <1>4, <2>1 DEF Skipped
  <2> QED BY <1>0, <1>4, <2>2 DEF Feed!GiveUp
<1>5. CASE CompactStep
  <2>1. CASE UNCHANGED ranges
    BY <1>1, <1>5, <2>1 DEF CompactStep, dbVars
  <2>2. CASE ranges[it].b = ranges[it].e /\ ranges' = DropRange(ranges, it)
    <3>1. it \in 1..Len(ranges)
      BY <1>0, <1>5 DEF IInv, TypeOK, CompactStep
    <3>2. \A x \in Nat \ {0} : InSomeRange(ranges', x) <=> InSomeRange(ranges, x)
      BY <1>0, <2>2, <3>1, DropProperties
    <3> QED BY <1>4, <1>5, <3>2 DEF CompactStep, dbVars, Feed!FeedNext
  <2> QED BY <1>5, <2>1, <2>2 DEF CompactStep
<1>6. CASE SkipGaps
  <2>1. \A x \in Nat \ {0} : InSomeRange(ranges', x) => InSomeRange(ranges, x)
    BY <1>0, <1>6, NewestProperties DEF SkipGaps
  <2> QED BY <1>4, <1>6, <2>1 DEF SkipGaps, dbVars, Feed!FeedNext
<1>7. CASE \/ CreateEvent \/ LoadEvents \/ CallbackError \/ EndOfRows
           \/ (\E id \in open : RollbackEvent(id)) \/ UNCHANGED vars
  BY <1>1, <1>7
  DEF CreateEvent, LoadEvents, CallbackError, EndOfRows, RollbackEvent,
      vars, dbVars, consumerVars
<1> QED BY <1>2, <1>3, <1>5, <1>6, <1>7 DEF Next, Feed!FeedNext

(* The range list implements the abstract feed: whatever the interleaving   *)
(* of writers, failures and compactions, an event is handed over at most    *)
(* once, only when committed, and never after it was given up on.           *)
THEOREM ConsumerImplementsFeed == Spec => ImplementsFeed
BY Invariance, FeedInitial, FeedStep, PTL DEF Spec, ImplementsFeed, Feed!FeedSpec

--------------------------------------------------------------------------------
(* Events are given up on after the window *)

\* From the first range on, what is in no range has been handed over.
SeenSince == \A x \in Nat \ {0} : x >= ranges[1].b /\ ~InSomeRange(ranges, x) => x \in delivered

\* The ranges never begin earlier than they did.
LEMMA ConsumeMovesOn ==
    ASSUME NEW rs \in Seq(EventRange), NEW id \in Nat \ {0}, NEW k \in 1..Len(rs), Contains(rs[k], id)
    PROVE  Consume(rs, k, id)[1].b \in Nat /\ Consume(rs, k, id)[1].b >= rs[1].b
<1>1. /\ rs \in [1..Len(rs) -> EventRange] /\ Len(rs) \in Nat
      /\ \A j \in 1..Len(rs) : rs[j].b \in Nat /\ rs[j].e \in Nat
  BY RangesTyped
<1>2. 1 \in 1..Len(rs) /\ 1 \in 1..(Len(rs) + 1) /\ k \in Nat /\ k >= 1
  BY <1>1
<1>3. id >= rs[k].b
  BY DEF Contains
<1>4. rs[1] \in EventRange /\ rs[1].b \in Nat
  BY <1>1, <1>2
<1>5. CASE id = rs[k].b
  <2>1. Consume(rs, k, id) = [rs EXCEPT ![k].b = id + 1]
    BY <1>5 DEF Consume
  <2>2. CASE k = 1
    <3>1. Consume(rs, k, id)[1].b = id + 1
      BY <1>1, <1>2, <1>4, <2>1, <2>2 DEF EventRange
    <3> QED BY <1>3, <1>4, <2>2, <3>1
  <2>3. CASE k # 1
    <3>1. Consume(rs, k, id)[1] = rs[1]
      BY <1>1, <1>2, <2>1, <2>3
    <3> QED BY <1>4, <3>1
  <2> QED BY <2>2, <2>3
<1>6. CASE id # rs[k].b
  <2>1. Consume(rs, k, id)[1] = IF 1 < k THEN rs[1] ELSE [b |-> rs[k].b, e |-> id]
    BY <1>1, <1>2, <1>6 DEF Consume, SplitAt
  <2>2. k # 1 => 1 < k
    BY <1>2
  <2> QED BY <1>2, <1>4, <2>1, <2>2
<1> QED BY <1>5, <1>6

\* Nor when an empty one is dropped.
LEMMA DropMovesOn ==
    ASSUME NEW rs \in Seq(EventRange), Sorted(rs), NEW k \in 1..Len(rs), rs[k].b = rs[k].e
    PROVE  DropRange(rs, k)[1].b \in Nat /\ DropRange(rs, k)[1].b >= rs[1].b
<1>1. /\ Len(rs) \in Nat
      /\ \A j \in 1..Len(rs) : rs[j].b \in Nat \ {0} /\ rs[j].e \in Nat
  BY RangesTyped
<1>2. k # Len(rs)
  BY <1>1 DEF Sorted
<1>3. 1 \in 1..(Len(rs) - 1) /\ 1 \in 1..Len(rs) /\ 2 \in 1..Len(rs)
  BY <1>1, <1>2
<1>4. DropRange(rs, k)[1] = IF 1 < k THEN rs[1] ELSE rs[2]
  BY <1>3 DEF DropRange
<1>5. rs[1].b <= rs[1].e /\ rs[1].e < rs[2].b
  BY <1>1, <1>3 DEF Sorted
<1> QED BY <1>1, <1>3, <1>4, <1>5

\* What the newest ranges leave out is before them.
LEMMA NewestLeavesOld ==
    ASSUME NEW rs \in Seq(EventRange), Sorted(rs), Len(rs) > GapWindow
    PROVE  /\ NewestRanges(rs)[1].b \in Nat /\ NewestRanges(rs)[1].b >= rs[1].b
           /\ \A x \in Nat \ {0} : x >= NewestRanges(rs)[1].b /\ InSomeRange(rs, x) =>
                                        InSomeRange(NewestRanges(rs), x)
<1> DEFINE new == NewestRanges(rs)
<1>1. PICK d : d = Len(rs) - GapWindow
  OBVIOUS
<1>2. /\ Len(rs) \in Nat /\ GapWindow \in Nat \ {0}
      /\ \A j \in 1..Len(rs) : rs[j].b \in Nat \ {0} /\ rs[j].e \in Nat
  BY RangesTyped, WindowAssumption
<1>3. d \in Nat /\ d > 0 /\ GapWindow + d = Len(rs)
  BY <1>1, <1>2
<1>4. /\ \A j \in 1..Len(rs) : j < Len(rs) => rs[j].b <= rs[j].e
      /\ \A i, j \in 1..Len(rs) : i < j => rs[i].e # 0 /\ rs[i].e < rs[j].b
  BY DEF Sorted
<1>5. \A j \in 1..GapWindow : new[j] = rs[j + d]
  BY <1>1 DEF NewestRanges
<1>6. new \in Seq(EventRange) /\ Len(new) = GapWindow
  <2>1. new \in Seq(EventRange)
    BY NewestProperties
  <2>2. DOMAIN new = 1..GapWindow
    BY DEF NewestRanges
  <2> HIDE DEF new
  <2> QED BY <1>2, <2>1, <2>2
<1> HIDE DEF new
<1>7. 1 \in 1..GapWindow /\ 1 \in 1..Len(rs) /\ 1 + d \in 1..Len(rs) /\ 1 < 1 + d
  BY <1>2, <1>3
<1>8. new[1] = rs[1 + d]
  BY <1>5, <1>7
<1>9. rs[1].b <= rs[1].e /\ rs[1].e < rs[1 + d].b
  BY <1>2, <1>3, <1>4, <1>7
<1>10. new[1].b \in Nat /\ new[1].b >= rs[1].b
  BY <1>2, <1>7, <1>8, <1>9
<1>11. ASSUME NEW x \in Nat \ {0}, x >= new[1].b, InSomeRange(rs, x) PROVE InSomeRange(new, x)
  <2>1. PICK j \in 1..Len(rs) : Contains(rs[j], x)
    BY <1>11 DEF InSomeRange
  <2>2. CASE j < 1 + d
    <3>1. rs[j].e # 0 /\ rs[j].e < rs[1 + d].b
      BY <1>4, <1>7, <2>2
    <3>2. x < rs[j].e
      BY <2>1, <3>1 DEF Contains
    <3>3. rs[j].e \in Nat /\ rs[1 + d].b \in Nat
      BY <1>2, <1>7
    <3> QED BY <1>8, <1>11, <3>1, <3>2, <3>3
  <2>3. CASE j >= 1 + d
    <3>1. j - d \in 1..GapWindow /\ (j - d) + d = j
      BY <1>2, <1>3, <2>3
    <3>2. new[j - d] = rs[j]
      BY <1>5, <3>1
    <3> QED BY <1>6, <2>1, <3>1, <3>2 DEF InSomeRange
  <2>4. j < 1 + d \/ j >= 1 + d
    BY <1>2, <1>3
  <2> QED BY <2>2, <2>3, <2>4
<1> QED BY <1>10, <1>11 DEF new

\* A step that moves the ranges on keeps it, when what it takes out is handed over or
\* before the first range.
LEMMA SeenSinceKept ==
    ASSUME TypeOK, SeenSince, delivered \subseteq delivered', ranges[1].b \in Nat,
           ranges'[1].b \in Nat, ranges'[1].b >= ranges[1].b,
           \A x \in Nat \ {0} : x >= ranges'[1].b /\ InSomeRange(ranges, x) =>
                                    InSomeRange(ranges', x) \/ x \in delivered'
    PROVE  SeenSince'
BY DEF SeenSince

\* Every step keeps it.
LEMMA SeenSinceStep ==
    ASSUME IInv, SeenSince, [Next]_vars
    PROVE  SeenSince'
<1> USE EventAssumption, WindowAssumption
<1>0. /\ ranges \in Seq(EventRange) /\ Sorted(ranges) /\ Len(ranges) \in Nat /\ TypeOK
      /\ ranges[1].b \in Nat
  <2>1. ranges \in Seq(EventRange) /\ Sorted(ranges) /\ TypeOK
    BY DEF IInv, TypeOK, RangesSorted
  <2>2. Len(ranges) \in Nat /\ \A j \in 1..Len(ranges) : ranges[j].b \in Nat
    BY <2>1, RangesTyped
  <2>3. 1 \in 1..Len(ranges)
    BY <2>1, <2>2 DEF Sorted
  <2> QED BY <2>1, <2>2, <2>3
<1>1. CASE UNCHANGED <<delivered, ranges>>
  BY <1>1 DEF SeenSince, InSomeRange
<1>2. CASE ConsumeEvent
  <2>1. PICK id \in batch, k \in 1..Len(ranges) :
            /\ IsLeast(id, batch) /\ IsCursor(k, id)
            /\ ranges' = Consume(ranges, k, id)
            /\ delivered' = delivered \cup {id}
    BY <1>2 DEF ConsumeEvent
  <2>2. Contains(ranges[k], id)
    BY <2>1 DEF IsCursor
  <2>3. id \in Nat \ {0}
    BY <2>2, ReadRow
  <2>4. \A x \in Nat \ {0} : InSomeRange(ranges', x) <=> InSomeRange(ranges, x) /\ x # id
    BY <1>0, <2>1, <2>2, <2>3, ConsumeProperties
  <2>5. ranges'[1].b \in Nat /\ ranges'[1].b >= ranges[1].b
    BY <1>0, <2>1, <2>2, <2>3, ConsumeMovesOn
  <2> QED BY <1>0, <2>1, <2>4, <2>5, SeenSinceKept
<1>3. CASE CompactStep
  <2>1. CASE UNCHANGED ranges
    BY <1>1, <1>3, <2>1 DEF CompactStep
  <2>2. CASE ranges[it].b = ranges[it].e /\ ranges' = DropRange(ranges, it)
    <3>1. it \in 1..Len(ranges)
      BY <1>0, <1>3 DEF TypeOK, CompactStep
    <3>2. \A x \in Nat \ {0} : InSomeRange(ranges', x) <=> InSomeRange(ranges, x)
      BY <1>0, <2>2, <3>1, DropProperties
    <3>3. ranges'[1].b \in Nat /\ ranges'[1].b >= ranges[1].b
      BY <1>0, <2>2, <3>1, DropMovesOn
    <3>4. delivered' = delivered
      BY <1>3 DEF CompactStep
    <3> QED BY <1>0, <3>2, <3>3, <3>4, SeenSinceKept
  <2> QED BY <1>3, <2>1, <2>2 DEF CompactStep
<1>4. CASE SkipGaps
  <2>1. delivered' = delivered
    BY <1>4 DEF SkipGaps
  <2>2. CASE Len(ranges) > GapWindow
    <3>1. ranges' = NewestRanges(ranges)
      BY <1>4, <2>2 DEF SkipGaps
    <3>2. /\ ranges'[1].b \in Nat /\ ranges'[1].b >= ranges[1].b
          /\ \A x \in Nat \ {0} : x >= ranges'[1].b /\ InSomeRange(ranges, x) => InSomeRange(ranges', x)
      BY <1>0, <2>2, <3>1, NewestLeavesOld
    <3> QED BY <1>0, <2>1, <3>2, SeenSinceKept
  <2>3. CASE ~(Len(ranges) > GapWindow)
    BY <1>1, <1>4, <2>1, <2>3 DEF SkipGaps
  <2> QED BY <2>2, <2>3
<1>5. CASE \/ CreateEvent \/ LoadEvents \/ CallbackError \/ EndOfRows
           \/ (\E id \in open : CommitEvent(id) \/ RollbackEvent(id)) \/ UNCHANGED vars
  BY <1>1, <1>5
  DEF CreateEvent, LoadEvents, CallbackError, EndOfRows, CommitEvent, RollbackEvent,
      vars, dbVars, consumerVars
<1> QED BY <1>2, <1>3, <1>4, <1>5 DEF Next

\* A set that has n numbers in a row of growing ones has at least n members.
LEMMA GrowingNumbers ==
    ASSUME NEW n \in Nat, NEW f, NEW S, IsFiniteSet(S), DOMAIN f = 1..n,
           \A i \in 1..n : f[i] \in S /\ f[i] \in Nat,
           \A i, j \in 1..n : i < j => f[i] < f[j]
    PROVE  Cardinality(S) >= n
<1>1. PICK T : T = {f[i] : i \in 1..n}
  OBVIOUS
<1>2. T \subseteq S
  BY <1>1
<1>3. PICK g : g = [i \in 1..n |-> f[i]]
  OBVIOUS
<1>4. \A i, j \in 1..n : g[i] = g[j] => i = j
  <2> SUFFICES ASSUME NEW i \in 1..n, NEW j \in 1..n, f[i] = f[j] PROVE i = j
    BY <1>3
  <2>1. ~(i < j) /\ ~(j < i)
    OBVIOUS
  <2> QED BY <2>1
<1>5. g \in [1..n -> T] /\ \A t \in T : \E i \in 1..n : g[i] = t
  BY <1>1, <1>3
<1>6. g \in Bijection(1..n, T)
  BY <1>4, <1>5 DEF Bijection, Injection, Surjection, IsInjective
<1>7. ExistsBijection(1..n, T)
  BY <1>6 DEF ExistsBijection
<1>8. Cardinality(T) = n
  BY <1>7, FS_CountingElements
<1>9. IsFiniteSet(T) /\ Cardinality(T) <= Cardinality(S)
  BY <1>2, FS_Subset
<1>10. Cardinality(S) \in Nat /\ Cardinality(T) \in Nat
  BY <1>9, FS_CardinalityType
<1> QED BY <1>8, <1>9, <1>10

\* Between two ranges there is an event that was handed over.
LEMMA GapsAreSeen ==
    ASSUME IInv, SeenSince, NEW j \in 1..Len(ranges), j < Len(ranges)
    PROVE  ranges[j].e \in delivered
<1>1. /\ ranges \in Seq(EventRange) /\ Len(ranges) \in Nat
      /\ \A i \in 1..Len(ranges) : ranges[i].b \in Nat \ {0} /\ ranges[i].e \in Nat
  BY RangesTyped DEF IInv, TypeOK
<1>2. /\ \A i \in 1..Len(ranges) : i < Len(ranges) => ranges[i].b <= ranges[i].e
      /\ \A i, k \in 1..Len(ranges) : i < k => ranges[i].e # 0 /\ ranges[i].e < ranges[k].b
  BY DEF IInv, RangesSorted, Sorted
<1>3. PICK x : x = ranges[j].e
  OBVIOUS
<1>4. x \in Nat \ {0}
  <2>1. Len(ranges) \in 1..Len(ranges)
    BY <1>1
  <2> QED BY <1>1, <1>2, <1>3, <2>1
<1>5. x >= ranges[1].b
  <2>1. 1 \in 1..Len(ranges)
    BY <1>1
  <2>2. CASE j = 1
    BY <1>1, <1>2, <1>3, <2>2
  <2>3. CASE 1 < j
    <3>1. 1 < Len(ranges) /\ ranges[1].b <= ranges[1].e /\ ranges[1].e < ranges[j].b /\ ranges[j].b <= x
      BY <1>1, <1>2, <1>3, <2>1, <2>3
    <3> QED BY <1>1, <1>4, <2>1, <3>1
  <2> QED BY <2>2, <2>3
<1>6. ASSUME NEW k \in 1..Len(ranges), Contains(ranges[k], x) PROVE FALSE
  <2>1. x >= ranges[k].b /\ (ranges[k].e = 0 \/ x < ranges[k].e)
    BY <1>6 DEF Contains
  <2>2. CASE j < k
    BY <1>1, <1>2, <1>3, <2>1, <2>2
  <2>3. CASE k = j
    BY <1>3, <1>4, <2>1, <2>3
  <2>4. CASE k < j
    <3>1. ranges[k].e # 0 /\ ranges[k].e < ranges[j].b /\ ranges[j].b <= x
      BY <1>2, <1>3, <2>4
    <3> QED BY <1>1, <1>4, <2>1, <3>1
  <2> QED BY <2>2, <2>3, <2>4
<1>7. ~InSomeRange(ranges, x)
  BY <1>6 DEF InSomeRange
<1> QED BY <1>3, <1>4, <1>5, <1>7 DEF SeenSince

\* An event that the newest ranges leave out has a window of seen ones behind it.
LEMMA LeftOutIsOld ==
    ASSUME IInv, SeenSince, Len(ranges) > GapWindow, NEW id \in Nat \ {0},
           InSomeRange(ranges, id), ~InSomeRange(NewestRanges(ranges), id)
    PROVE  Cardinality({d \in delivered : d > id}) >= GapWindow
<1>1. /\ ranges \in Seq(EventRange) /\ Len(ranges) \in Nat /\ Sorted(ranges)
      /\ \A i \in 1..Len(ranges) : ranges[i].b \in Nat \ {0} /\ ranges[i].e \in Nat
  BY RangesTyped DEF IInv, TypeOK, RangesSorted
<1>2. /\ \A i \in 1..Len(ranges) : i < Len(ranges) => ranges[i].b <= ranges[i].e
      /\ \A i, k \in 1..Len(ranges) : i < k => ranges[i].e # 0 /\ ranges[i].e < ranges[k].b
  BY <1>1 DEF Sorted
<1>3. PICK m \in 1..Len(ranges) : Contains(ranges[m], id)
  BY DEF InSomeRange
<1>4. GapWindow \in Nat \ {0}
  BY WindowAssumption
<1>5. PICK d : d = Len(ranges) - GapWindow
  OBVIOUS
<1>6. d \in Nat /\ d > 0 /\ GapWindow + d = Len(ranges)
  BY <1>1, <1>4, <1>5
<1>7. m <= d
  <2> SUFFICES ASSUME ~(m <= d) PROVE FALSE
    OBVIOUS
  <2>1. m - d \in 1..GapWindow /\ (m - d) + d = m
    BY <1>1, <1>4, <1>6
  <2>2. NewestRanges(ranges)[m - d] = ranges[m]
    BY <1>5, <2>1 DEF NewestRanges
  <2>3. Len(NewestRanges(ranges)) = GapWindow
    <3>1. NewestRanges(ranges) \in Seq(EventRange)
      BY <1>1, NewestProperties
    <3>2. DOMAIN NewestRanges(ranges) = 1..GapWindow
      BY DEF NewestRanges
    <3>3. PICK new : new = NewestRanges(ranges)
      OBVIOUS
    <3> QED BY <1>4, <3>1, <3>2, <3>3
  <2> QED BY <1>3, <2>1, <2>2, <2>3 DEF InSomeRange
<1>8. PICK f : f = [i \in 1..GapWindow |-> ranges[m + i - 1].e]
  OBVIOUS
<1>9. \A i \in 1..GapWindow : m + i - 1 \in 1..Len(ranges) /\ m + i - 1 < Len(ranges) /\ m + i - 1 >= m
  BY <1>1, <1>4, <1>6, <1>7
<1>10. ASSUME NEW i \in 1..GapWindow
       PROVE  f[i] \in Nat /\ f[i] \in delivered /\ f[i] > id
  <2>1. PICK j \in 1..Len(ranges) : j = m + i - 1 /\ j < Len(ranges) /\ j >= m
    BY <1>9
  <2>2. f[i] = ranges[j].e /\ ranges[j].e \in Nat
    BY <1>1, <1>8, <2>1
  <2>3. ranges[j].e \in delivered
    BY <2>1, GapsAreSeen
  <2>4. ranges[m].e # 0 /\ id < ranges[m].e
    <3>1. Len(ranges) \in 1..Len(ranges) /\ m < Len(ranges)
      BY <1>1, <2>1
    <3>2. ranges[m].e # 0
      BY <1>2, <3>1
    <3> QED BY <1>3, <3>2 DEF Contains
  <2>5. CASE j = m
    BY <2>2, <2>3, <2>4, <2>5
  <2>6. CASE m < j
    <3>1. ranges[m].e < ranges[j].b /\ ranges[j].b <= ranges[j].e
      BY <1>2, <2>1, <2>6
    <3> QED BY <1>1, <2>2, <2>3, <2>4, <3>1
  <2>7. j = m \/ m < j
    BY <1>1, <2>1
  <2> QED BY <2>5, <2>6, <2>7
<1>11. ASSUME NEW i \in 1..GapWindow, NEW j \in 1..GapWindow, i < j
       PROVE  f[i] < f[j]
  <2>1. PICK p \in 1..Len(ranges), q \in 1..Len(ranges) : p = m + i - 1 /\ q = m + j - 1
    BY <1>9
  <2>2. p < q /\ q < Len(ranges)
    BY <1>1, <1>9, <1>11, <2>1
  <2>3. f[i] = ranges[p].e /\ f[j] = ranges[q].e
    BY <1>8, <2>1
  <2>4. ranges[p].e < ranges[q].b /\ ranges[q].b <= ranges[q].e
    BY <1>2, <2>2
  <2> QED BY <1>1, <2>3, <2>4
<1>12. PICK S : S = {x \in delivered : x > id}
  OBVIOUS
<1>13. IsFiniteSet(S)
  <2>1. S \subseteq 1..MaxEvent
    BY <1>12 DEF IInv, TypeOK, EventIDs
  <2>2. IsFiniteSet(1..MaxEvent)
    BY EventAssumption, FS_Interval
  <2> QED BY <2>1, <2>2, FS_Subset
<1>14. DOMAIN f = 1..GapWindow /\ \A i \in 1..GapWindow : f[i] \in S /\ f[i] \in Nat
  BY <1>8, <1>10, <1>12
<1>15. Cardinality(S) >= GapWindow
  BY <1>4, <1>11, <1>13, <1>14, GrowingNumbers
<1> QED BY <1>12, <1>15

\* Only the end of a compaction gives up on events.
LEMMA SkipStep ==
    ASSUME IInv, SeenSince, [Next]_vars, NEW id \in Skipped', id \notin Skipped
    PROVE  Cardinality({d \in delivered : d > id}) >= GapWindow
<1> USE EventAssumption, WindowAssumption
<1>0. /\ ranges \in Seq(EventRange) /\ Sorted(ranges) /\ Len(ranges) \in Nat /\ EventIDs \subseteq Nat \ {0}
  BY RangesTyped DEF IInv, TypeOK, RangesSorted, EventIDs
<1>1. id \in EventIDs /\ id \in Nat \ {0} /\ id \notin delivered' /\ ~InSomeRange(ranges', id)
  BY <1>0 DEF Skipped
<1>2. delivered \subseteq delivered'
  BY DEF Next, vars, dbVars, consumerVars, CreateEvent, CommitEvent, RollbackEvent, LoadEvents, ConsumeEvent,
         CallbackError, EndOfRows, CompactStep, SkipGaps
<1>3. InSomeRange(ranges, id)
  BY <1>1, <1>2 DEF Skipped
<1>4. ~UNCHANGED ranges
  BY <1>1, <1>3 DEF InSomeRange
<1>5. CASE ConsumeEvent
  <2>1. PICK r \in batch, k \in 1..Len(ranges) :
            /\ IsLeast(r, batch) /\ IsCursor(k, r)
            /\ ranges' = Consume(ranges, k, r)
            /\ delivered' = delivered \cup {r}
    BY <1>5 DEF ConsumeEvent
  <2>2. Contains(ranges[k], r)
    BY <2>1 DEF IsCursor
  <2>3. r \in Nat \ {0}
    BY <2>2, ReadRow
  <2>4. InSomeRange(ranges', id) <=> InSomeRange(ranges, id) /\ id # r
    BY <1>0, <1>1, <2>1, <2>2, <2>3, ConsumeProperties
  <2> QED BY <1>1, <1>3, <2>1, <2>4
<1>6. CASE CompactStep
  <2>1. ranges[it].b = ranges[it].e /\ ranges' = DropRange(ranges, it)
    BY <1>4, <1>6 DEF CompactStep
  <2>2. it \in 1..Len(ranges)
    BY <1>0, <1>6 DEF IInv, TypeOK, CompactStep
  <2>3. InSomeRange(ranges', id) <=> InSomeRange(ranges, id)
    BY <1>0, <1>1, <2>1, <2>2, DropProperties
  <2> QED BY <1>1, <1>3, <2>3
<1>7. CASE SkipGaps
  <2>1. Len(ranges) > GapWindow /\ ranges' = NewestRanges(ranges)
    BY <1>4, <1>7 DEF SkipGaps
  <2> QED BY <1>1, <1>3, <2>1, LeftOutIsOld
<1>8. CASE \/ CreateEvent \/ LoadEvents \/ CallbackError \/ EndOfRows
           \/ (\E x \in open : CommitEvent(x) \/ RollbackEvent(x)) \/ UNCHANGED vars
  BY <1>4, <1>8
  DEF CreateEvent, LoadEvents, CallbackError, EndOfRows, CommitEvent, RollbackEvent,
      vars, dbVars, consumerVars
<1> QED BY <1>5, <1>6, <1>7, <1>8 DEF Next

\* Nothing is behind the first range yet.
LEMMA SeenSinceInit == Init => SeenSince
<1> SUFFICES ASSUME Init PROVE SeenSince
  OBVIOUS
<1>1. PICK begin \in 1..(MaxEvent + 1) : ranges = <<[b |-> begin, e |-> 0]>>
  BY DEF Init
<1>2. Len(ranges) = 1 /\ ranges[1].b = begin /\ ranges[1].e = 0
  BY <1>1
<1> QED BY <1>2 DEF SeenSince, InSomeRange, Contains

(* An event is given up on when at least a window of later events has been  *)
(* handed over, whatever holes and late commits the log has.                *)
THEOREM SkippedAfterWindow == Spec => SkipAfterWindow
<1>1. IInv /\ SeenSince /\ [Next]_vars =>
        [\A id \in Skipped' \ Skipped : Cardinality({d \in delivered : d > id}) >= GapWindow]_vars
  BY SkipStep
<1>2. Spec => []SeenSince
  <2>1. IInv /\ SeenSince /\ [Next]_vars => SeenSince'
    BY SeenSinceStep
  <2> QED BY <2>1, Invariance, SeenSinceInit, PTL DEF Spec
<1> QED BY <1>1, <1>2, Invariance, PTL DEF Spec, SkipAfterWindow
================================================================================
