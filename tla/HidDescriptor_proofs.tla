----------------------- MODULE HidDescriptor_proofs -----------------------
(***************************************************************************)
(* Proofs about HidDescriptor, for descriptors of any length: the two       *)
(* passes over a descriptor agree.                                          *)
(***************************************************************************)
EXTENDS HidDescriptorReference, CommonLemmas, SequenceTheorems

-----------------------------------------------------------------------------
(* Sequences of definitions of reports.                                     *)

SameKey(a, b) == a.id = b.id /\ a.type = b.type

Distinct(reports) ==
  \A i, j \in 1..Len(reports) : SameKey(reports[i], reports[j]) => i = j

(* Facts of arithmetic the provers should not look for.                     *)
LEMMA Order ==
  \A x, y, z \in Nat : /\ x <= y /\ y <= z => x <= z
                       /\ x <= y /\ y < z => x < z
                       /\ x < y /\ y <= z => x < z
                       /\ x < y => ~(x >= y)
                       /\ x <= y => ~(x > y)
                       /\ x <= y => x <= y + z
OBVIOUS

(* What Append does to a sequence of whatever.                              *)
LEMMA AppendAny ==
  ASSUME NEW s, s \in Seq(Range(s)), NEW e
  PROVE  /\ Append(s, e) \in Seq(Range(Append(s, e)))
         /\ Len(Append(s, e)) = Len(s) + 1
<1> DEFINE S == Range(s) \cup {e}
<1>1. s \in Seq(S)
  BY SeqMonotonic
<1>2. e \in S
  OBVIOUS
<1> HIDE DEF S
<1>3. Append(s, e) \in Seq(S) /\ Len(Append(s, e)) = Len(s) + 1
  BY <1>1, <1>2, AppendProperties
<1>4. QED
  BY <1>3, SeqOfRange

(* IndexOf finds the first definition of a report, if there is one.         *)
LEMMA IndexOfFacts ==
  ASSUME NEW S, NEW reports \in Seq(S), NEW id, NEW type
  PROVE  LET at == IndexOf(reports, id, type) IN
         /\ at \in 0..Len(reports)
         /\ at # 0 => reports[at].id = id /\ reports[at].type = type
         /\ at = 0 => \A i \in 1..Len(reports) :
                        ~(reports[i].id = id /\ reports[i].type = type)
<1> DEFINE I == {i \in 1..Len(reports) : reports[i].id = id /\ reports[i].type = type}
<1>1. IndexOf(reports, id, type) = IF I # {} THEN Min(I) ELSE 0
  BY DEF IndexOf, SelectInSeq
<1>2. CASE I = {}
  BY <1>1, <1>2
<1>3. CASE I # {}
  <2>1. Len(reports) \in Nat /\ I \in SUBSET (1..Len(reports))
    OBVIOUS
  <2> HIDE DEF I
  <2>2. Min(I) \in I
    BY <1>3, <2>1, FirstAndLast
  <2>3. IndexOf(reports, id, type) \in I
    BY <1>1, <1>3, <2>2
  <2> USE DEF I
  <2>4. QED
    BY <2>1, <2>3
<1>4. QED
  BY <1>2, <1>3

(* Definitions that all have another one of the same report are not more.   *)
LEMMA NoMoreThan ==
  ASSUME NEW S, NEW T, NEW a \in Seq(S), NEW b \in Seq(T), Distinct(a),
         \A r \in 1..Len(a) : \E q \in 1..Len(b) : SameKey(a[r], b[q])
  PROVE  Len(a) <= Len(b)
<1> DEFINE f == [r \in 1..Len(a) |-> CHOOSE q \in 1..Len(b) : SameKey(a[r], b[q])]
<1>1. \A r \in 1..Len(a) : f[r] \in 1..Len(b) /\ SameKey(a[r], b[f[r]])
  OBVIOUS
<1>2. f \in [1..Len(a) -> 1..Len(b)]
  BY <1>1
<1> HIDE DEF f
<1>3. \A r, q \in 1..Len(a) : f[r] = f[q] => r = q
  <2>1. TAKE r, q \in 1..Len(a)
  <2>2. HAVE f[r] = f[q]
  <2>3. SameKey(a[r], a[q])
    BY <1>1, <2>2 DEF SameKey
  <2>4. QED
    BY <2>3 DEF Distinct
<1>4. f \in Injection(1..Len(a), 1..Len(b))
  BY <1>2, <1>3 DEF Injection, IsInjective
<1>5. Len(a) \in Nat /\ Len(b) \in Nat
  OBVIOUS
<1>6. /\ IsFiniteSet(1..Len(b)) /\ Cardinality(1..Len(b)) = Len(b)
      /\ Cardinality(1..Len(a)) = Len(a)
  <2>1. /\ \A n \in Nat : IsFiniteSet(1..n)
        /\ \A n \in Nat : Cardinality(1..n) = IF 1 > n THEN 0 ELSE n - 1 + 1
    BY FS_Interval
  <2>2. QED
    BY <1>5, <2>1
<1>7. Cardinality(1..Len(a)) <= Cardinality(1..Len(b))
  BY <1>4, <1>6, FS_Injection
<1>8. QED
  BY <1>6, <1>7

-----------------------------------------------------------------------------
(* The counting pass.                                                       *)

Data == Nat \cup {item.data : item \in AnyItem}
Settings == {s \in [{"page", "min", "max", "size", "count", "id"} -> Data] :
               s.count \in 0..Counter - 1}
Counted == [id : Data, type : FieldItem, n : Nat]

(* What the counting pass has after i items: no more of anything than those *)
(* items may declare, and nothing counted twice while no counter wraps.     *)
SumOK(sum, i) ==
  /\ sum \in [ok : BOOLEAN, stack : Seq(Settings), fields : Nat, collections : Nat,
              reports : Seq(Counted), report_count : 0..Counter - 1]
  /\ sum.stack # <<>>
  /\ sum.fields <= i * Counter /\ sum.collections <= i
  /\ Len(sum.reports) <= i /\ sum.report_count <= Len(sum.reports)
  /\ \A q \in 1..Len(sum.reports) : sum.reports[q].n <= sum.fields
  /\ Len(sum.reports) < Counter =>
       /\ sum.report_count = Len(sum.reports)
       /\ Distinct(sum.reports)

(* From one summary to a later one; what is defined stays, while the number *)
(* of reports does not wrap.                                                *)
Grown(sum, later) ==
  /\ later.ok => sum.ok
  /\ sum.fields <= later.fields /\ sum.collections <= later.collections
  /\ Len(sum.reports) <= Len(later.reports)
  /\ Len(later.reports) < Counter =>
       \A q \in 1..Len(sum.reports) : /\ SameKey(later.reports[q], sum.reports[q])
                                      /\ later.reports[q].n >= sum.reports[q].n

(* What is kept of a global item.                                           *)
LEMMA StoredOK ==
  ASSUME NEW item \in AnyItem
  PROVE  /\ Stored(item) \in Data
         /\ item.tag = "count" => Stored(item) \in 0..Counter - 1
<1>1. item.data \in Data
  BY DEF Data
<1>2. Counter \in Nat \ {0} /\ SizeLimit \in Nat \ {0}
  BY HidDescriptorAssumption
<1>3. ASSUME NEW n \in Nat, NEW c \in Nat \ {0}
      PROVE  n % c \in Data /\ n % c \in 0..c - 1
  BY DEF Data
<1>4. CASE item.tag \in {"count", "id"}
  <2>1. Stored(item) = item.data % Counter
    BY <1>4 DEF Stored
  <2>2. item.data \in Nat
    BY <1>4, HidDescriptorAssumption
  <2>3. QED
    BY <1>2, <1>3, <2>1, <2>2
<1>5. CASE item.tag = "page"
  <2>1. Stored(item) = item.data % SizeLimit
    BY <1>5 DEF Stored
  <2>2. item.data \in Nat
    BY <1>5, HidDescriptorAssumption
  <2>3. QED
    BY <1>2, <1>3, <1>5, <2>1, <2>2
<1>6. CASE item.tag \notin {"count", "id", "page"}
  BY <1>1, <1>6 DEF Stored
<1>7. QED
  BY <1>4, <1>5, <1>6

(* The global items leave a stack of settings.                              *)
LEMMA GlobalStepOK ==
  ASSUME NEW stack \in Seq(Settings), stack # <<>>, NEW item \in AnyItem,
         GlobalAllowed(stack, item)
  PROVE  GlobalStep(stack, item) \in Seq(Settings) /\ GlobalStep(stack, item) # <<>>
<1>1. Len(stack) \in Nat /\ Len(stack) >= 1 /\ Last(stack) \in Settings
  <2>1. Len(stack) \in Nat \ {0}
    BY EmptySeq
  <2>2. QED
    BY <2>1 DEF Last
<1>2. item.data \in Data
  BY DEF Data
<1>3. \A s \in Settings : ReplaceAt(stack, Len(stack), s) \in Seq(Settings)
                          /\ ReplaceAt(stack, Len(stack), s) # <<>>
  <2>1. TAKE s \in Settings
  <2>2. Len(stack) \in 1..Len(stack)
    BY <1>1
  <2>3. /\ [stack EXCEPT ![Len(stack)] = s] \in Seq(Settings)
        /\ Len([stack EXCEPT ![Len(stack)] = s]) = Len(stack)
    BY <2>2, ExceptSeq
  <2>4. QED
    BY <1>1, <2>3, EmptySeq DEF ReplaceAt
<1> DOMAIN Settings0 = {"page", "min", "max", "size", "count", "id"}
  BY DEF Settings0
<1>4. CASE item.tag = "push"
  <2>1. GlobalStep(stack, item) = Append(stack, Last(stack))
    BY <1>4 DEF GlobalStep
  <2>2. QED
    BY <1>1, <2>1, AppendProperties
<1>5. CASE item.tag = "pop"
  <2>1. GlobalStep(stack, item) = SubSeq(stack, 1, Len(stack) - 1)
    BY <1>5 DEF GlobalStep, Front
  <2>2. Len(stack) > 1
    BY <1>5 DEF GlobalAllowed, CanPop
  <2>3. \A i \in 1..Len(stack) - 1 : stack[i] \in Settings
    BY <1>1
  <2>4. /\ SubSeq(stack, 1, Len(stack) - 1) \in Seq(Settings)
        /\ Len(SubSeq(stack, 1, Len(stack) - 1)) = Len(stack) - 1
    BY <1>1, <2>2, <2>3, SubSeqProperties
  <2>5. Len(stack) - 1 # 0
    <3>1. PICK k \in Nat : k = Len(stack)
      BY <1>1
    <3>2. k > 1
      BY <2>2, <3>1
    <3>3. k - 1 # 0
      BY <3>2
    <3>4. QED
      BY <3>1, <3>3
  <2>6. SubSeq(stack, 1, Len(stack) - 1) # <<>>
    BY <2>4, <2>5
  <2>7. QED
    BY <2>1, <2>4, <2>6
<1>6. CASE item.tag \in {"page", "min", "max", "size", "count", "id"}
  <2> DEFINE s == [Last(stack) EXCEPT ![item.tag] = Stored(item)]
  <2>1. GlobalStep(stack, item) = ReplaceAt(stack, Len(stack), s)
    BY <1>6 DEF GlobalStep
  <2>2. Stored(item) \in Data /\ (item.tag = "count" => Stored(item) \in 0..Counter - 1)
    BY StoredOK
  <2>3. s \in Settings
    BY <1>1, <1>6, <2>2 DEF Settings
  <2>4. QED
    BY <1>3, <2>1, <2>3
<1>7. CASE item.tag \notin {"push", "pop", "count", "page", "min", "max", "size", "id"}
  <2>2. GlobalStep(stack, item) = stack
    BY <1>7 DEF GlobalStep
  <2>3. QED
    BY <2>2
<1>8. QED
  BY <1>4, <1>5, <1>6, <1>7

(* The remainder of what has just been counted.                             *)
LEMMA Remainders ==
  ASSUME NEW c \in Nat \ {0}, NEW x \in Nat
  PROVE  /\ x % c \in 0..c - 1
         /\ x < c => x % c = x
         /\ x = c => x % c = 0
OBVIOUS

(* An element put in place of the one after the first c.                    *)
Spliced(s, c, e) == SubSeq(s, 1, c) \o <<e>> \o SubSeq(s, c + 1 + 1, Len(s))

LEMMA SplicedFacts ==
  ASSUME NEW S, NEW s \in Seq(S), NEW c \in 0..Len(s), NEW e \in S
  PROVE  /\ Spliced(s, c, e) \in Seq(S)
         /\ Len(Spliced(s, c, e)) = IF c = Len(s) THEN c + 1 ELSE Len(s)
         /\ \A i \in 1..Len(Spliced(s, c, e)) :
              Spliced(s, c, e)[i] = IF i = c + 1 THEN e ELSE s[i]
<1> DEFINE a == SubSeq(s, 1, c)
           b == <<e>>
           d == SubSeq(s, c + 1 + 1, Len(s))
<1>1. Len(s) \in Nat /\ \A i \in 1..Len(s) : s[i] \in S
  OBVIOUS
<1>2. /\ a \in Seq(S) /\ Len(a) = c /\ \A i \in 1..c : a[i] = s[i]
  <2>1. 1 \in Int /\ c \in Int /\ \A i \in 1..c : s[i] \in S
    BY <1>1
  <2>2. /\ SubSeq(s, 1, c) \in Seq(S)
        /\ Len(SubSeq(s, 1, c)) = IF 1 <= c THEN c - 1 + 1 ELSE 0
        /\ \A i \in 1..c - 1 + 1 : SubSeq(s, 1, c)[i] = s[1 + i - 1]
    BY <2>1, SubSeqProperties
  <2>3. c - 1 + 1 = c /\ \A i \in 1..c : 1 + i - 1 = i
    BY <1>1
  <2>4. QED
    BY <1>1, <2>2, <2>3
<1>3. b \in Seq(S) /\ Len(b) = 1 /\ b[1] = e
  OBVIOUS
<1>4. /\ d \in Seq(S) /\ Len(d) = IF c = Len(s) THEN 0 ELSE Len(s) - c - 1
      /\ \A i \in 1..Len(d) : d[i] = s[c + 1 + i]
  <2>1. c + 1 + 1 \in Int /\ Len(s) \in Int /\ \A i \in c + 1 + 1..Len(s) : s[i] \in S
    BY <1>1
  <2>2. /\ d \in Seq(S)
        /\ Len(d) = IF c + 1 + 1 <= Len(s) THEN Len(s) - (c + 1 + 1) + 1 ELSE 0
        /\ \A i \in 1..Len(s) - (c + 1 + 1) + 1 : d[i] = s[c + 1 + 1 + i - 1]
    BY <2>1, SubSeqProperties
  <2> HIDE DEF d
  <2>3. Len(d) = IF c = Len(s) THEN 0 ELSE Len(s) - c - 1
    BY <1>1, <2>2
  <2>4. ASSUME NEW i \in 1..Len(d) PROVE d[i] = s[c + 1 + i]
    <3>1. i \in 1..Len(s) - (c + 1 + 1) + 1 /\ c + 1 + 1 + i - 1 = c + 1 + i
      BY <1>1, <2>2, <2>3
    <3>2. QED
      BY <2>2, <3>1
  <2>5. QED
    BY <2>2, <2>3, <2>4
<1> HIDE DEF a, b, d
<1>5. /\ a \o b \in Seq(S) /\ Len(a \o b) = c + 1
      /\ \A i \in 1..c + 1 : (a \o b)[i] = IF i = c + 1 THEN e ELSE s[i]
  <2>1. /\ a \o b \in Seq(S) /\ Len(a \o b) = Len(a) + Len(b)
        /\ \A i \in 1..Len(a) + Len(b) : (a \o b)[i] = IF i <= Len(a) THEN a[i]
                                                       ELSE b[i - Len(a)]
    BY <1>2, <1>3, ConcatProperties
  <2>2. ASSUME NEW i \in 1..c + 1 PROVE (a \o b)[i] = IF i = c + 1 THEN e ELSE s[i]
    <3>1. (a \o b)[i] = IF i <= c THEN a[i] ELSE b[i - c]
      BY <1>2, <1>3, <2>1
    <3>2. CASE i = c + 1
      BY <1>1, <1>3, <3>1, <3>2
    <3>3. CASE i # c + 1
      BY <1>1, <1>2, <3>1, <3>3
    <3>4. QED
      BY <3>2, <3>3
  <2>3. QED
    BY <1>2, <1>3, <2>1, <2>2
<1> DEFINE ab == a \o b
           new == Spliced(s, c, e)
<1>10. new = ab \o d
  BY DEF a, b, d, Spliced
<1> HIDE DEF ab, new
<1>6. /\ new \in Seq(S) /\ Len(new) = c + 1 + Len(d) /\ Len(d) \in Nat
      /\ \A i \in 1..c + 1 + Len(d) : new[i] = IF i <= c + 1 THEN ab[i] ELSE d[i - (c + 1)]
  <2>1. ab \in Seq(S) /\ Len(ab) = c + 1
    BY <1>5 DEF ab
  <2>2. /\ ab \o d \in Seq(S) /\ Len(ab \o d) = Len(ab) + Len(d)
        /\ \A i \in 1..Len(ab) + Len(d) : (ab \o d)[i] = IF i <= Len(ab) THEN ab[i]
                                                          ELSE d[i - Len(ab)]
    BY <1>4, <2>1, ConcatProperties
  <2>3. Len(d) \in Nat
    BY <1>1, <1>4
  <2>4. QED
    BY <1>10, <2>1, <2>2, <2>3
<1>11. PICK k \in Nat : k = Len(d)
  BY <1>6
<1>7. Len(new) = IF c = Len(s) THEN c + 1 ELSE Len(s)
  <2>1. CASE c = Len(s)
    <3>1. k = 0 /\ Len(new) = c + 1 + k
      BY <1>4, <1>6, <1>11, <2>1
    <3>2. QED
      BY <1>1, <2>1, <3>1
  <2>2. CASE c # Len(s)
    <3>1. c + 1 + (Len(s) - c - 1) = Len(s)
      BY <1>1
    <3>2. QED
      BY <1>4, <1>6, <2>2, <3>1
  <2>3. QED
    BY <2>1, <2>2
<1>8. ASSUME NEW i \in 1..Len(new) PROVE new[i] = IF i = c + 1 THEN e ELSE s[i]
  <2>1. new[i] = IF i <= c + 1 THEN ab[i] ELSE d[i - (c + 1)]
    BY <1>6
  <2>2. CASE i <= c + 1
    BY <1>5, <2>1, <2>2 DEF ab
  <2>3. CASE ~(i <= c + 1)
    <3>1. i - (c + 1) \in 1..Len(d) /\ c + 1 + (i - (c + 1)) = i /\ i # c + 1
      <4>1. Len(new) = c + 1 + k
        BY <1>6, <1>11
      <4>2. i \in c + 1 + 1..c + 1 + k
        BY <1>1, <1>11, <2>3, <4>1
      <4>3. i - (c + 1) \in 1..k /\ c + 1 + (i - (c + 1)) = i /\ i # c + 1
        BY <1>1, <1>11, <4>2
      <4>4. QED
        BY <1>11, <4>3
    <3>2. QED
      BY <1>4, <2>1, <2>3, <3>1
  <2>4. QED
    BY <2>2, <2>3
<1>9. QED
  BY <1>6, <1>7, <1>8 DEF a, b, d, ab, new

(* An item of fields adds as many as it declares to the definition of its   *)
(* report, which it begins where there is none.                             *)
LEMMA CountFieldOK ==
  ASSUME NEW i \in Nat, NEW sum, SumOK(sum, i), NEW item \in AnyItem, item.tag \in FieldItem
  PROVE  LET new == CountField(sum, item)
             n == FieldsOf(item, Last(sum.stack))
         IN  /\ n \in Nat /\ SumOK(new, i + 1) /\ Grown(sum, new)
             /\ new.ok = sum.ok /\ new.stack = sum.stack
             /\ new.fields = sum.fields + n /\ new.collections = sum.collections
             /\ Len(new.reports) < Counter =>
                  \E q \in 1..Len(new.reports) :
                    /\ new.reports[q].id = Last(sum.stack).id
                    /\ new.reports[q].type = item.tag
                    /\ new.reports[q].n >= n
                    /\ q <= Len(sum.reports) => new.reports[q].n = sum.reports[q].n + n
<1> DEFINE id == Last(sum.stack).id
           n == FieldsOf(item, Last(sum.stack))
           rc == sum.report_count
           at == IndexOf(SubSeq(sum.reports, 1, rc), id, item.tag)
           old == IF rc + 1 \in DOMAIN sum.reports THEN sum.reports[rc + 1].n ELSE 0
           new == CountField(sum, item)
<1>1. /\ sum.stack \in Seq(Settings) /\ sum.stack # <<>> /\ Counter \in Nat \ {0}
      /\ sum.fields \in Nat /\ sum.collections \in Nat /\ rc \in 0..Counter - 1
      /\ sum.reports \in Seq(Counted) /\ Len(sum.reports) \in Nat /\ rc <= Len(sum.reports)
      /\ rc \in Nat
  BY HidDescriptorAssumption DEF SumOK
<1>2. id \in Data /\ n \in Nat /\ n <= Counter
  <2>1. Last(sum.stack) \in Settings
    BY <1>1, EmptySeq DEF Last
  <2>2. QED
    BY <1>1, <2>1 DEF Settings, FieldsOf
<1>3. /\ sum.fields + n \in Nat /\ sum.fields + n <= (i + 1) * Counter
      /\ sum.collections <= i + 1 /\ sum.fields <= sum.fields + n
  <2>1. (i + 1) * Counter = i * Counter + Counter /\ i * Counter \in Nat
    BY <1>1
  <2>2. sum.fields <= i * Counter /\ sum.collections <= i
    BY DEF SumOK
  <2>3. PICK k \in Nat, a \in Nat, c \in Nat : k = i * Counter /\ a = sum.fields /\ c = Counter
    BY <1>1, <2>1
  <2>4. a <= k => a + n \in Nat /\ a + n <= k + c /\ a <= a + n
    BY <1>1, <1>2, <2>3
  <2>5. sum.collections <= i + 1
    BY <1>1, <2>2
  <2>6. QED
    BY <2>1, <2>2, <2>3, <2>4, <2>5
<1>4. \A q \in 1..Len(sum.reports) :
        /\ sum.reports[q] \in Counted /\ sum.reports[q].n \in Nat
        /\ sum.reports[q].n <= sum.fields
  <2>1. \A q \in 1..Len(sum.reports) : sum.reports[q] \in Counted
    BY <1>1
  <2>2. QED
    BY <2>1 DEF SumOK, Counted
<1>5. CASE at # 0
  <2> DEFINE r == [sum.reports[at] EXCEPT !.n = @ + n]
  <2>1. /\ at \in 1..Len(sum.reports) /\ at <= rc
        /\ sum.reports[at].id = id /\ sum.reports[at].type = item.tag
    <3>1. \A q \in 1..rc : sum.reports[q] \in Counted
      BY <1>1, <1>4
    <3>2. /\ SubSeq(sum.reports, 1, rc) \in Seq(Counted)
          /\ Len(SubSeq(sum.reports, 1, rc)) = rc
          /\ \A q \in 1..rc : SubSeq(sum.reports, 1, rc)[q] = sum.reports[q]
      BY <1>1, <3>1, SubSeqProperties
    <3> DEFINE front == SubSeq(sum.reports, 1, rc)
    <3> HIDE DEF front
    <3>3. front \in Seq(Counted) /\ Len(front) = rc /\ \A q \in 1..rc : front[q] = sum.reports[q]
      BY <3>2 DEF front
    <3>4. at = IndexOf(front, id, item.tag)
      BY DEF front
    <3> HIDE DEF at, id
    <3>5. at \in 0..Len(front) /\ (at # 0 => front[at].id = id /\ front[at].type = item.tag)
      BY <3>3, <3>4, IndexOfFacts
    <3>6. QED
      BY <1>1, <1>5, <3>3, <3>5
  <2>2. new = [sum EXCEPT !.fields = @ + n, !.reports[at].n = @ + n]
    BY <1>5 DEF CountField
  <2> HIDE DEF at, id, n
  <2>3. /\ new.ok = sum.ok /\ new.stack = sum.stack /\ new.fields = sum.fields + n
        /\ new.collections = sum.collections /\ new.report_count = rc
        /\ new.reports = [sum.reports EXCEPT ![at] = r]
        /\ new = [ok |-> new.ok, stack |-> new.stack, fields |-> new.fields,
                  collections |-> new.collections, reports |-> new.reports,
                  report_count |-> new.report_count]
    BY <2>2 DEF SumOK
  <2>4. r \in Counted /\ r.n = sum.reports[at].n + n /\ SameKey(r, sum.reports[at])
    BY <1>2, <1>4, <2>1 DEF Counted, SameKey
  <2> HIDE DEF r
  <2>5. /\ new.reports \in Seq(Counted) /\ Len(new.reports) = Len(sum.reports)
        /\ \A q \in 1..Len(sum.reports) : new.reports[q] = IF q = at THEN r ELSE sum.reports[q]
    BY <1>1, <2>1, <2>3, <2>4, ExceptSeq
  <2> HIDE DEF new
  <2>6. \A q \in 1..Len(sum.reports) : SameKey(new.reports[q], sum.reports[q])
    BY <2>4, <2>5 DEF SameKey
  <2>7. \A q \in 1..Len(sum.reports) : /\ new.reports[q].n <= new.fields
                                       /\ new.reports[q].n >= sum.reports[q].n
    <3>1. TAKE q \in 1..Len(sum.reports)
    <3>2. CASE q = at
      BY <1>1, <1>2, <1>4, <2>3, <2>4, <2>5, <3>2
    <3>3. CASE q # at
      <4>1. new.reports[q] = sum.reports[q]
        BY <2>5, <3>3
      <4>2. sum.reports[q].n \in Nat /\ sum.reports[q].n <= sum.fields
        BY <1>4
      <4>3. sum.reports[q].n <= sum.fields + n
        BY <1>1, <1>2, <4>2, Order
      <4>4. QED
        BY <2>3, <4>1, <4>2, <4>3
    <3>4. QED
      BY <3>2, <3>3
  <2>8. Grown(sum, new)
    BY <1>1, <1>3, <2>3, <2>5, <2>6, <2>7 DEF Grown
  <2>9. SumOK(new, i + 1)
    <3>1. Distinct(sum.reports) => Distinct(new.reports)
      BY <2>5, <2>6 DEF Distinct, SameKey
    <3>2. Len(sum.reports) <= i + 1
      BY <1>1 DEF SumOK
    <3>3. sum.ok \in BOOLEAN
      BY DEF SumOK
    <3>4. new \in [ok : BOOLEAN, stack : Seq(Settings), fields : Nat, collections : Nat,
                   reports : Seq(Counted), report_count : 0..Counter - 1]
      <4>1. /\ new.ok \in BOOLEAN /\ new.stack \in Seq(Settings) /\ new.fields \in Nat
            /\ new.collections \in Nat /\ new.reports \in Seq(Counted)
            /\ new.report_count \in 0..Counter - 1
        BY <1>1, <1>3, <2>3, <2>5, <3>3
      <4>2. QED
        BY <2>3, <4>1
    <3>5. Len(new.reports) < Counter =>
            new.report_count = Len(new.reports) /\ Distinct(new.reports)
      BY <2>3, <2>5, <3>1 DEF SumOK
    <3>6. QED
      BY <1>1, <1>3, <2>3, <2>5, <2>7, <3>2, <3>4, <3>5 DEF SumOK
  <2>10. /\ new.reports[at].id = id /\ new.reports[at].type = item.tag
         /\ new.reports[at].n >= n /\ new.reports[at].n = sum.reports[at].n + n
         /\ at \in 1..Len(new.reports)
    BY <1>2, <1>4, <2>1, <2>4, <2>5, <2>6 DEF SameKey
  <2>11. QED
    BY <1>2, <2>3, <2>8, <2>9, <2>10 DEF id, n, new
<1>6. CASE at = 0
  <2> DEFINE r == [id |-> id, type |-> item.tag, n |-> old + n]
             spliced == SubSeq(sum.reports, 1, rc) \o <<r>>
                          \o SubSeq(sum.reports, rc + 1 + 1, Len(sum.reports))
  <2>1. new = [sum EXCEPT !.fields = @ + n, !.report_count = (rc + 1) % Counter,
                          !.reports = spliced]
    BY <1>6 DEF CountField
  <2>2. old \in Nat /\ old <= sum.fields /\ (rc = Len(sum.reports) => old = 0)
    <3>1. DOMAIN sum.reports = 1..Len(sum.reports)
      BY <1>1
    <3>2. QED
      BY <1>1, <1>4, <3>1
  <2> HIDE DEF old
  <2>3. r \in Counted /\ r.n = old + n /\ r.id = id /\ r.type = item.tag /\ r.n \in Nat
    BY <1>2, <2>2 DEF Counted
  <2>4. ASSUME rc = Len(sum.reports)
        PROVE  \A q \in 1..Len(sum.reports) :
                 ~(sum.reports[q].id = id /\ sum.reports[q].type = item.tag)
    <3>1. SubSeq(sum.reports, 1, rc) = sum.reports
      BY <1>1, <2>4, SubSeqFull
    <3>2. at = IndexOf(sum.reports, id, item.tag)
      BY <3>1
    <3> HIDE DEF at, id
    <3>3. PICK reports \in Seq(Counted) : reports = sum.reports
      BY <1>1
    <3>4. IndexOf(reports, id, item.tag) = 0 =>
            \A q \in 1..Len(reports) : ~(reports[q].id = id /\ reports[q].type = item.tag)
      BY IndexOfFacts
    <3>5. QED
      BY <1>6, <3>2, <3>3, <3>4
  <2> HIDE DEF at, id, n, r
  <2>5. /\ spliced \in Seq(Counted)
        /\ Len(spliced) = IF rc = Len(sum.reports) THEN rc + 1 ELSE Len(sum.reports)
        /\ \A q \in 1..Len(spliced) : spliced[q] = IF q = rc + 1 THEN r ELSE sum.reports[q]
    <3>1. spliced = Spliced(sum.reports, rc, r)
      BY DEF Spliced
    <3>2. rc \in 0..Len(sum.reports) /\ r \in Counted /\ sum.reports \in Seq(Counted)
      BY <1>1, <2>3
    <3> HIDE DEF spliced, rc
    <3>3. PICK reports, c, x : reports = sum.reports /\ c = rc /\ x = r
      OBVIOUS
    <3>4. c \in 0..Len(reports) /\ x \in Counted /\ reports \in Seq(Counted)
      BY <3>2, <3>3
    <3>5. spliced = Spliced(reports, c, x)
      BY <3>1, <3>3
    <3>6. /\ Spliced(reports, c, x) \in Seq(Counted)
          /\ Len(Spliced(reports, c, x)) = IF c = Len(reports) THEN c + 1 ELSE Len(reports)
          /\ \A q \in 1..Len(Spliced(reports, c, x)) :
               Spliced(reports, c, x)[q] = IF q = c + 1 THEN x ELSE reports[q]
      BY <3>4, SplicedFacts
    <3>7. QED
      BY <3>3, <3>5, <3>6
  <2> HIDE DEF spliced
  <2>6. /\ new.ok = sum.ok /\ new.stack = sum.stack /\ new.fields = sum.fields + n
        /\ new.collections = sum.collections /\ new.report_count = (rc + 1) % Counter
        /\ new.reports = spliced
        /\ new = [ok |-> new.ok, stack |-> new.stack, fields |-> new.fields,
                  collections |-> new.collections, reports |-> new.reports,
                  report_count |-> new.report_count]
    BY <2>1 DEF SumOK
  <2> HIDE DEF new
  <2>7. /\ Len(spliced) \in Nat /\ Len(spliced) >= rc + 1 /\ Len(spliced) >= Len(sum.reports)
        /\ Len(spliced) <= i + 1
    <3>1. Len(sum.reports) <= i
      BY DEF SumOK
    <3>2. QED
      BY <1>1, <2>5, <3>1
  <2>8. \A q \in 1..Len(spliced) : spliced[q].n <= sum.fields + n
    <3>1. TAKE q \in 1..Len(spliced)
    <3>2. CASE q = rc + 1
      <4>1. spliced[q] = r
        BY <2>5, <3>2
      <4>2. r.n <= sum.fields + n
        BY <1>1, <1>2, <2>2, <2>3
      <4>3. QED
        BY <4>1, <4>2
    <3>3. CASE q # rc + 1
      <4>1. q \in 1..Len(sum.reports) /\ spliced[q] = sum.reports[q]
        BY <1>1, <2>5, <3>3
      <4>2. QED
        <5>1. sum.reports[q].n \in Nat /\ sum.reports[q].n <= sum.fields
          BY <1>4, <4>1
        <5>2. QED
          BY <1>1, <1>2, <4>1, <5>1, Order
    <3>4. QED
      BY <3>2, <3>3
  <2>9. ASSUME Len(spliced) < Counter
        PROVE  /\ rc = Len(sum.reports) /\ Len(spliced) = rc + 1
               /\ \A q \in 1..Len(sum.reports) : spliced[q] = sum.reports[q]
               /\ spliced[rc + 1] = r /\ old = 0
               /\ (rc + 1) % Counter = Len(spliced) /\ Distinct(spliced)
    <3>1. rc = Len(sum.reports) /\ Distinct(sum.reports)
      BY <1>1, <2>7, <2>9 DEF SumOK
    <3>2. Len(spliced) = rc + 1
      BY <2>5, <3>1
    <3>3. \A q \in 1..Len(sum.reports) : q \in 1..Len(spliced) /\ q # rc + 1
      BY <1>1, <3>1, <3>2
    <3>4. \A q \in 1..Len(sum.reports) : spliced[q] = sum.reports[q]
      BY <2>5, <3>3
    <3>5. rc + 1 \in 1..Len(spliced)
      BY <1>1, <3>2
    <3>6. spliced[rc + 1] = r
      BY <2>5, <3>5
    <3>7. (rc + 1) % Counter = rc + 1
      <4>1. rc + 1 \in Nat /\ rc + 1 < Counter
        BY <1>1, <2>9, <3>2
      <4>2. QED
        BY <1>1, <4>1, Remainders
    <3>8. Distinct(spliced)
      <4>1. ASSUME NEW p \in 1..Len(spliced), NEW q \in 1..Len(spliced),
                   SameKey(spliced[p], spliced[q])
            PROVE  p = q
        <5>1. \A j \in 1..Len(sum.reports) : ~SameKey(sum.reports[j], r)
                                             /\ ~SameKey(r, sum.reports[j])
          BY <2>3, <2>4, <3>1 DEF SameKey
        <5>2. \A j \in 1..Len(spliced) : j = rc + 1 \/ j \in 1..Len(sum.reports)
          BY <1>1, <3>1, <3>2
        <5>3. CASE p \in 1..Len(sum.reports) /\ q \in 1..Len(sum.reports)
          BY <3>1, <3>4, <4>1, <5>3 DEF Distinct
        <5>4. CASE p = rc + 1 /\ q \in 1..Len(sum.reports)
          BY <3>4, <3>6, <4>1, <5>1, <5>4
        <5>5. CASE q = rc + 1 /\ p \in 1..Len(sum.reports)
          BY <3>4, <3>6, <4>1, <5>1, <5>5
        <5>6. QED
          BY <5>2, <5>3, <5>4, <5>5
      <4>2. QED
        BY <4>1 DEF Distinct
    <3>9. QED
      BY <2>2, <3>1, <3>2, <3>4, <3>6, <3>7, <3>8
  <2>10. Grown(sum, new)
    <3>1. Len(spliced) < Counter =>
            \A q \in 1..Len(sum.reports) : /\ SameKey(spliced[q], sum.reports[q])
                                           /\ spliced[q].n >= sum.reports[q].n
      BY <1>4, <2>9 DEF SameKey
    <3>2. QED
      BY <1>1, <1>3, <2>6, <2>7, <3>1 DEF Grown
  <2>11. SumOK(new, i + 1)
    <3>1. (rc + 1) % Counter \in 0..Counter - 1 /\ (rc + 1) % Counter <= rc + 1
      <4>1. PICK x \in Nat : x = rc + 1
        BY <1>1
      <4>2. x <= Counter
        BY <1>1, <4>1
      <4>3. /\ x % Counter \in 0..Counter - 1
            /\ x < Counter => x % Counter = x
            /\ x = Counter => x % Counter = 0
        BY <1>1, Remainders
      <4> DEFINE y == x % Counter
      <4> HIDE DEF y
      <4>5. y \in 0..Counter - 1 /\ y <= x
        BY <1>1, <4>2, <4>3 DEF y
      <4>6. QED
        BY <4>1, <4>5 DEF y
    <3>2. sum.ok \in BOOLEAN
      BY DEF SumOK
    <3>3. new \in [ok : BOOLEAN, stack : Seq(Settings), fields : Nat, collections : Nat,
                   reports : Seq(Counted), report_count : 0..Counter - 1]
      <4>1. /\ new.ok \in BOOLEAN /\ new.stack \in Seq(Settings) /\ new.fields \in Nat
            /\ new.collections \in Nat /\ new.reports \in Seq(Counted)
            /\ new.report_count \in 0..Counter - 1
        BY <1>1, <1>3, <2>5, <2>6, <3>1, <3>2
      <4>2. QED
        BY <2>6, <4>1
    <3>4. (rc + 1) % Counter <= Len(spliced)
      <4>1. PICK c \in 0..Counter - 1 : c = (rc + 1) % Counter
        BY <3>1
      <4>2. QED
        BY <1>1, <2>7, <3>1, <4>1
    <3>5. QED
      BY <1>1, <1>3, <2>6, <2>7, <2>8, <2>9, <3>3, <3>4 DEF SumOK
  <2>12. Len(spliced) < Counter =>
           \E q \in 1..Len(spliced) :
             /\ spliced[q].id = id /\ spliced[q].type = item.tag /\ spliced[q].n >= n
             /\ q <= Len(sum.reports) => spliced[q].n = sum.reports[q].n + n
    <3>1. HAVE Len(spliced) < Counter
    <3>2. rc + 1 \in 1..Len(spliced) /\ ~(rc + 1 <= Len(sum.reports))
      <4>1. rc = Len(sum.reports) /\ Len(spliced) = rc + 1
        BY <2>9, <3>1
      <4>2. \A k \in Nat : k + 1 \in 1..k + 1 /\ ~(k + 1 <= k)
        OBVIOUS
      <4>3. QED
        BY <1>1, <4>1, <4>2
    <3>3. r.n = n
      BY <1>2, <2>3, <2>9, <3>1
    <3>4. spliced[rc + 1] = r
      BY <2>9, <3>1
    <3>5. n >= n
      BY <1>2
    <3>6. QED
      BY <2>3, <3>2, <3>3, <3>4, <3>5
  <2>13. QED
    BY <1>2, <2>6, <2>10, <2>11, <2>12 DEF id, n, new
<1>7. QED
  BY <1>5, <1>6

LEMMA SumTypes ==
  ASSUME NEW i \in Nat, NEW sum, SumOK(sum, i)
  PROVE  /\ sum.fields \in Nat /\ sum.collections \in Nat /\ Len(sum.reports) \in Nat
         /\ \A q \in 1..Len(sum.reports) : sum.reports[q].n \in Nat
<1>1. /\ sum.fields \in Nat /\ sum.collections \in Nat /\ Len(sum.reports) \in Nat
      /\ \A q \in 1..Len(sum.reports) : sum.reports[q] \in Counted
  BY DEF SumOK
<1>2. \A r \in Counted : r.n \in Nat
  BY DEF Counted
<1>3. QED
  BY <1>1, <1>2

(* Every other item leaves the definitions alone.                           *)
LEMMA CountItemOK ==
  ASSUME NEW i \in Nat, NEW sum, SumOK(sum, i), NEW item \in AnyItem
  PROVE  LET new == CountItem(sum, item) IN
         /\ SumOK(new, i + 1) /\ Grown(sum, new)
         /\ sum.ok /\ item.tag \notin FieldItem =>
              new.fields = sum.fields /\ new.reports = sum.reports
<1> DEFINE new == CountItem(sum, item)
<1> USE HidDescriptorAssumption
<1>1. /\ sum.ok \in BOOLEAN /\ sum.stack \in Seq(Settings) /\ sum.fields \in Nat
      /\ sum.collections \in Nat /\ sum.reports \in Seq(Counted)
      /\ sum.report_count \in 0..Counter - 1
      /\ sum.stack # <<>>
      /\ sum.fields <= i * Counter /\ sum.collections <= i
      /\ Len(sum.reports) <= i /\ sum.report_count <= Len(sum.reports)
      /\ Len(sum.reports) \in Nat
  BY DEF SumOK
<1>2. /\ sum.fields <= (i + 1) * Counter /\ sum.collections <= i + 1
      /\ Len(sum.reports) <= i + 1
  <2>1. (i + 1) * Counter = i * Counter + Counter /\ i * Counter \in Nat /\ Counter \in Nat
    OBVIOUS
  <2>2. QED
    BY <1>1, <2>1
<1>3. \A q \in 1..Len(sum.reports) : /\ SameKey(sum.reports[q], sum.reports[q])
                                     /\ sum.reports[q].n \in Nat
                                     /\ sum.reports[q].n >= sum.reports[q].n
  <2>1. \A q \in 1..Len(sum.reports) : sum.reports[q] \in Counted
    BY <1>1
  <2>2. \A r \in Counted : r.n \in Nat /\ r.n >= r.n
    BY DEF Counted
  <2>3. QED
    BY <2>1, <2>2 DEF SameKey
<1>4. sum = [ok |-> sum.ok, stack |-> sum.stack, fields |-> sum.fields,
             collections |-> sum.collections, reports |-> sum.reports,
             report_count |-> sum.report_count]
  BY DEF SumOK
<1>5. ASSUME NEW ok \in BOOLEAN, NEW stack \in Seq(Settings), stack # <<>>,
             NEW c \in Nat, c <= i + 1, c >= sum.collections, ok => sum.ok,
             new = [sum EXCEPT !.ok = ok, !.stack = stack, !.collections = c]
      PROVE  /\ SumOK(new, i + 1) /\ Grown(sum, new)
             /\ new.fields = sum.fields /\ new.reports = sum.reports
  <2> HIDE DEF new
  <2>1. new = [ok |-> ok, stack |-> stack, fields |-> sum.fields,
               collections |-> c, reports |-> sum.reports,
               report_count |-> sum.report_count]
    BY <1>4, <1>5
  <2>2. /\ new.ok = ok /\ new.stack = stack /\ new.fields = sum.fields
        /\ new.collections = c /\ new.reports = sum.reports
        /\ new.report_count = sum.report_count
    BY <2>1
  <2>3. new \in [ok : BOOLEAN, stack : Seq(Settings), fields : Nat, collections : Nat,
                 reports : Seq(Counted), report_count : 0..Counter - 1]
    BY <1>1, <2>1
  <2>4. SumOK(new, i + 1)
    BY <1>1, <1>2, <1>5, <2>2, <2>3 DEF SumOK
  <2>5. Grown(sum, new)
    <3>1. /\ new.ok => sum.ok
          /\ sum.fields <= new.fields /\ sum.collections <= new.collections
          /\ Len(sum.reports) <= Len(new.reports)
      <4>1. sum.fields <= sum.fields /\ Len(sum.reports) <= Len(sum.reports)
        BY <1>1
      <4>2. sum.collections <= new.collections
        BY <1>1, <1>5, <2>2
      <4>3. QED
        BY <1>5, <2>2, <4>1, <4>2
    <3>2. \A q \in 1..Len(sum.reports) : /\ SameKey(new.reports[q], sum.reports[q])
                                         /\ new.reports[q].n >= sum.reports[q].n
      BY <1>3, <2>2
    <3>3. QED
      BY <3>1, <3>2 DEF Grown
  <2>6. QED
    BY <2>2, <2>4, <2>5
<1>6. CASE ~sum.ok \/ Skipped(item)
  <2>1. new = sum
    BY <1>6 DEF CountItem
  <2>2. new = [sum EXCEPT !.ok = sum.ok, !.stack = sum.stack, !.collections = sum.collections]
    BY <1>4, <2>1
  <2>3. sum.collections >= sum.collections
    BY <1>1
  <2> HIDE DEF new
  <2>4. QED
    BY <1>1, <1>2, <1>5, <2>2, <2>3 DEF new
<1>7. CASE /\ ~(~sum.ok \/ Skipped(item))
           /\ item.tag = "truncated" \/ ~GlobalAllowed(sum.stack, item)
  <2>1. new = [sum EXCEPT !.ok = FALSE]
    <3>1. item.tag \notin FieldItem /\ item.tag # "collection"
      BY <1>7 DEF FieldItem, GlobalAllowed
    <3>2. QED
      BY <1>7, <3>1 DEF CountItem
  <2>2. new = [sum EXCEPT !.ok = FALSE, !.stack = sum.stack, !.collections = sum.collections]
    BY <1>4, <2>1
  <2>3. sum.collections >= sum.collections
    BY <1>1
  <2> HIDE DEF new
  <2>4. QED
    BY <1>1, <1>2, <1>5, <2>2, <2>3 DEF new
<1>8. CASE /\ sum.ok /\ ~Skipped(item) /\ item.tag # "truncated"
           /\ GlobalAllowed(sum.stack, item) /\ item.tag \in FieldItem
  <2>1. new = CountField(sum, item)
    BY <1>8 DEF CountItem, FieldItem
  <2> HIDE DEF new
  <2>2. SumOK(new, i + 1) /\ Grown(sum, new)
    BY <1>8, <2>1, CountFieldOK
  <2>3. QED
    BY <1>8, <2>2 DEF new
<1>9. CASE /\ sum.ok /\ ~Skipped(item) /\ item.tag # "truncated"
           /\ GlobalAllowed(sum.stack, item) /\ item.tag = "collection"
  <2>1. new = [sum EXCEPT !.collections = @ + 1]
    BY <1>9 DEF CountItem, FieldItem
  <2>2. new = [sum EXCEPT !.ok = sum.ok, !.stack = sum.stack,
                          !.collections = sum.collections + 1]
    BY <1>4, <2>1
  <2>3. /\ sum.collections + 1 >= sum.collections /\ sum.collections + 1 <= i + 1
        /\ sum.collections + 1 \in Nat
    BY <1>1
  <2> HIDE DEF new
  <2>4. QED
    BY <1>1, <1>5, <2>2, <2>3 DEF new
<1>10. CASE /\ sum.ok /\ ~Skipped(item) /\ item.tag # "truncated"
            /\ GlobalAllowed(sum.stack, item)
            /\ item.tag \notin FieldItem /\ item.tag # "collection"
  <2>1. new = [sum EXCEPT !.stack = GlobalStep(@, item)]
    BY <1>10 DEF CountItem
  <2> DEFINE stack == GlobalStep(sum.stack, item)
  <2>2. stack \in Seq(Settings) /\ stack # <<>>
    BY <1>1, <1>10, GlobalStepOK
  <2>3. new = [sum EXCEPT !.ok = sum.ok, !.stack = stack, !.collections = sum.collections]
    BY <1>4, <2>1
  <2>4. sum.collections >= sum.collections
    BY <1>1
  <2> HIDE DEF new, stack
  <2>5. QED
    BY <1>1, <1>2, <1>5, <2>2, <2>3, <2>4 DEF new
<1>11. QED
  BY <1>6, <1>7, <1>8, <1>9, <1>10

(* Growing is a preorder.                                                   *)
LEMMA GrownFromSelf ==
  ASSUME NEW i \in Nat, NEW sum, SumOK(sum, i)
  PROVE  Grown(sum, sum)
<1>1. QED
  BY SumTypes DEF Grown, SameKey

LEMMA GrownTwice ==
  ASSUME NEW i \in Nat, NEW j \in Nat, NEW k \in Nat, NEW a, NEW b, NEW c,
         SumOK(a, i), SumOK(b, j), SumOK(c, k), Grown(a, b), Grown(b, c)
  PROVE  Grown(a, c)
<1>1. /\ a.fields \in Nat /\ b.fields \in Nat /\ c.fields \in Nat
      /\ a.collections \in Nat /\ b.collections \in Nat /\ c.collections \in Nat
      /\ Len(a.reports) \in Nat /\ Len(b.reports) \in Nat /\ Len(c.reports) \in Nat
      /\ Counter \in Nat
  BY SumTypes, HidDescriptorAssumption
<1>2. /\ \A q \in 1..Len(a.reports) : a.reports[q].n \in Nat
      /\ \A q \in 1..Len(b.reports) : b.reports[q].n \in Nat
      /\ \A q \in 1..Len(c.reports) : c.reports[q].n \in Nat
  BY SumTypes
<1>3. ASSUME Len(c.reports) < Counter, NEW q \in 1..Len(a.reports)
      PROVE  SameKey(c.reports[q], a.reports[q]) /\ c.reports[q].n >= a.reports[q].n
  <2>1. Len(b.reports) < Counter /\ q \in 1..Len(b.reports) /\ q \in 1..Len(c.reports)
    <3>1. Len(a.reports) <= Len(b.reports) /\ Len(b.reports) <= Len(c.reports)
      BY DEF Grown
    <3>2. Len(b.reports) < Counter
      BY <1>1, <1>3, <3>1, Order
    <3>3. q \in Nat /\ q >= 1 /\ q <= Len(a.reports)
      BY <1>1
    <3>4. q <= Len(b.reports)
      BY <1>1, <3>1, <3>3, Order
    <3>5. q <= Len(c.reports)
      BY <1>1, <3>1, <3>3, <3>4, Order
    <3>6. QED
      BY <1>1, <3>2, <3>3, <3>4, <3>5
  <2>2. SameKey(b.reports[q], a.reports[q]) /\ b.reports[q].n >= a.reports[q].n
    BY <2>1 DEF Grown
  <2>3. SameKey(c.reports[q], b.reports[q]) /\ c.reports[q].n >= b.reports[q].n
    BY <1>3, <2>1 DEF Grown
  <2>4. a.reports[q].n \in Nat /\ b.reports[q].n \in Nat /\ c.reports[q].n \in Nat
    BY <1>2, <2>1
  <2>5. SameKey(c.reports[q], a.reports[q])
    BY <2>2, <2>3 DEF SameKey
  <2>6. c.reports[q].n >= a.reports[q].n
    <3>1. \A x, y, z \in Nat : y >= x /\ z >= y => z >= x
      OBVIOUS
    <3>2. QED
      BY <2>2, <2>3, <2>4, <3>1
  <2>7. QED
    BY <2>5, <2>6
<1>4. /\ c.ok => a.ok
      /\ a.fields <= c.fields /\ a.collections <= c.collections
      /\ Len(a.reports) <= Len(c.reports)
  <2>1. /\ b.ok => a.ok
        /\ a.fields <= b.fields /\ a.collections <= b.collections
        /\ Len(a.reports) <= Len(b.reports)
    BY DEF Grown
  <2>2. /\ c.ok => b.ok
        /\ b.fields <= c.fields /\ b.collections <= c.collections
        /\ Len(b.reports) <= Len(c.reports)
    BY DEF Grown
  <2>3. c.ok => a.ok
    BY <2>1, <2>2
  <2>4. a.fields <= c.fields
    BY <1>1, <2>1, <2>2, Order
  <2>5. a.collections <= c.collections
    BY <1>1, <2>1, <2>2, Order
  <2>6. Len(a.reports) <= Len(c.reports)
    BY <1>1, <2>1, <2>2, Order
  <2>7. QED
    BY <2>3, <2>4, <2>5, <2>6
<1>5. QED
  BY <1>3, <1>4 DEF Grown

SumsOf(f, items) ==
  f = [i \in 0..Len(items) |-> IF i = 0 THEN Summary0 ELSE CountItem(f[i - 1], items[i])]

(* The recursion of Count has a solution.                                   *)
LEMMA CountIsLast ==
  ASSUME NEW items \in Seq(AnyItem)
  PROVE  \E f : SumsOf(f, items) /\ Count(items) = f[Len(items)]
<1> DEFINE Solves(f, n) ==
             f = [i \in 0..n |-> IF i = 0 THEN Summary0 ELSE CountItem(f[i - 1], items[i])]
           T == {n \in Nat : \E f : Solves(f, n)}
<1>1. 0 \in T
  <2>1. Solves([i \in 0..0 |-> Summary0], 0)
    OBVIOUS
  <2>2. QED
    BY <2>1
<1>2. ASSUME NEW n \in Nat, n \in T PROVE n + 1 \in T
  <2>1. PICK f : Solves(f, n)
    BY <1>2
  <2> DEFINE g == [i \in 0..n + 1 |-> IF i = n + 1 THEN CountItem(f[n], items[n + 1]) ELSE f[i]]
  <2>2. ASSUME NEW i \in 0..n + 1
        PROVE  g[i] = IF i = 0 THEN Summary0 ELSE CountItem(g[i - 1], items[i])
    <3>1. CASE i = n + 1
      <4>1. g[i] = CountItem(f[n], items[n + 1]) /\ i - 1 = n /\ g[n] = f[n] /\ i # 0
        BY <3>1
      <4>2. QED
        BY <3>1, <4>1
    <3>2. CASE i # n + 1
      <4>1. i \in 0..n /\ g[i] = f[i] /\ (i # 0 => g[i - 1] = f[i - 1])
        BY <3>2
      <4>2. f[i] = IF i = 0 THEN Summary0 ELSE CountItem(f[i - 1], items[i])
        BY <2>1, <4>1
      <4>3. QED
        BY <4>1, <4>2
    <3>3. QED
      BY <3>1, <3>2
  <2>3. Solves(g, n + 1)
    <3> HIDE DEF g
    <3>1. g = [i \in 0..n + 1 |-> g[i]]
      BY DEF g
    <3>2. QED
      BY <2>2, <3>1
  <2> HIDE DEF g, Solves
  <2>4. QED
    BY <2>3
<1>3. Len(items) \in T
  <2>1. Len(items) \in Nat
    OBVIOUS
  <2> HIDE DEF T
  <2>2. QED
    BY <1>1, <1>2, <2>1, NatSetInduction
<1>4. SumsOf(CHOOSE f : SumsOf(f, items), items)
  BY <1>3 DEF SumsOf
<1>5. Count(items) = (CHOOSE f : SumsOf(f, items))[Len(items)]
  BY DEF Count, SumsOf
<1>6. QED
  BY <1>4, <1>5

(* Each summary is sound, and smaller than those that follow.               *)
LEMMA SumsGrow ==
  ASSUME NEW items \in Seq(AnyItem), NEW f, SumsOf(f, items)
  PROVE  /\ \A i \in 0..Len(items) : SumOK(f[i], i)
         /\ \A i \in 0..Len(items) : Grown(f[i], f[Len(items)])
<1>1. Len(items) \in Nat /\ \A i \in 1..Len(items) : items[i] \in AnyItem
  OBVIOUS
<1>2. f[0] = Summary0 /\ \A i \in 1..Len(items) : f[i] = CountItem(f[i - 1], items[i])
  BY <1>1 DEF SumsOf
<1>3. SumOK(Summary0, 0)
  <2>1. Settings0 \in Settings
    <3>1. 0 \in Data /\ 0 \in 0..Counter - 1
      BY HidDescriptorAssumption DEF Data
    <3>2. Settings0 \in [{"page", "min", "max", "size", "count", "id"} -> Data]
      BY <3>1 DEF Settings0
    <3>3. QED
      BY <3>1, <3>2 DEF Settings, Settings0
  <2>2. /\ Summary0.stack \in Seq(Settings) /\ Summary0.stack # <<>>
        /\ Summary0.reports = <<>> /\ Len(Summary0.reports) = 0
    BY <2>1 DEF Summary0
  <2>3. Summary0 \in [ok : BOOLEAN, stack : Seq(Settings), fields : Nat, collections : Nat,
                      reports : Seq(Counted), report_count : 0..Counter - 1]
    BY <2>1, HidDescriptorAssumption DEF Summary0
  <2>4. Distinct(<<>>)
    BY DEF Distinct
  <2>5. /\ Summary0.fields = 0 /\ Summary0.collections = 0 /\ Summary0.report_count = 0
        /\ 0 * Counter = 0
    BY HidDescriptorAssumption DEF Summary0
  <2>6. QED
    BY <2>2, <2>3, <2>4, <2>5 DEF SumOK
<1> DEFINE n == Len(items)
           T == {m \in Nat : m <= n => \A i \in 0..m : SumOK(f[i], i) /\ Grown(f[i], f[m])}
<1>4. 0 \in T
  <2>1. \A i \in 0..0 : i = 0
    OBVIOUS
  <2>2. SumOK(f[0], 0)
    BY <1>2, <1>3
  <2>3. Grown(f[0], f[0])
    BY <2>2, GrownFromSelf
  <2>4. QED
    BY <2>1, <2>2, <2>3
<1>5. ASSUME NEW m \in Nat, m \in T PROVE m + 1 \in T
  <2> SUFFICES ASSUME m + 1 <= n
               PROVE  \A i \in 0..m + 1 : SumOK(f[i], i) /\ Grown(f[i], f[m + 1])
    OBVIOUS
  <2>1. m + 1 \in 1..Len(items) /\ m + 1 - 1 = m /\ m <= n /\ m \in 0..m
    BY <1>1
  <2>2. \A i \in 0..m : SumOK(f[i], i) /\ Grown(f[i], f[m])
    BY <1>5, <2>1
  <2>3. f[m + 1] = CountItem(f[m], items[m + 1]) /\ items[m + 1] \in AnyItem
    BY <1>1, <1>2, <2>1
  <2>4. SumOK(f[m], m)
    BY <2>1, <2>2
  <2>5. SumOK(f[m + 1], m + 1) /\ Grown(f[m], f[m + 1])
    BY <2>3, <2>4, CountItemOK
  <2>6. ASSUME NEW i \in 0..m + 1 PROVE SumOK(f[i], i) /\ Grown(f[i], f[m + 1])
    <3>1. CASE i = m + 1
      <4>1. Grown(f[m + 1], f[m + 1])
        BY <2>5, GrownFromSelf
      <4>2. QED
        BY <2>5, <3>1, <4>1
    <3>2. CASE i # m + 1
      <4>1. i \in 0..m /\ i \in Nat
        BY <3>2
      <4>2. SumOK(f[i], i) /\ Grown(f[i], f[m])
        BY <2>2, <4>1
      <4>3. Grown(f[i], f[m + 1])
        BY <2>4, <2>5, <4>1, <4>2, GrownTwice
      <4>4. QED
        BY <4>2, <4>3
    <3>3. QED
      BY <3>1, <3>2
  <2>7. QED
    BY <2>6
<1>6. n \in T
  <2> HIDE DEF T
  <2>1. QED
    BY <1>1, <1>4, <1>5, NatSetInduction
<1>7. QED
  BY <1>1, <1>6

-----------------------------------------------------------------------------
(* The filling pass.                                                        *)

Rooms == [fields : Nat, collections : Nat, reports : Nat, perReport : Nat]
Filled == [id : Data, type : FieldItem, fields : Seq(Nat)]

(* What the filling pass has: nothing more than there is room for in the    *)
(* definition of a report, and no two definitions of the same one.          *)
TreeOK(tree) ==
  /\ tree = [ok |-> tree.ok, room |-> tree.room, stack |-> tree.stack,
             local |-> tree.local, open |-> tree.open, active |-> tree.active,
             fields |-> tree.fields, collections |-> tree.collections,
             reports |-> tree.reports]
  /\ tree.ok \in BOOLEAN /\ tree.room \in Rooms
  /\ tree.stack \in Seq(Settings) /\ tree.stack # <<>>
  /\ tree.open \in Seq(Int) /\ tree.active \in Int
  /\ tree.fields \in Seq(Range(tree.fields))
  /\ tree.collections \in Seq([parent : Int])
  /\ tree.reports \in Seq(Filled) /\ Distinct(tree.reports)
  /\ \A r \in 1..Len(tree.reports) : Len(tree.reports[r].fields) <= tree.room.perReport

(* The definitions once the one a field goes to is among them, and its      *)
(* place.                                                                   *)
Known(reports, id, type) ==
  IF IndexOf(reports, id, type) # 0 THEN reports
  ELSE Append(reports, [id |-> id, type |-> type, fields |-> <<>>])
Place(reports, id, type) ==
  IF IndexOf(reports, id, type) # 0 THEN IndexOf(reports, id, type)
  ELSE Len(Known(reports, id, type))

LEMMA KnownFacts ==
  ASSUME NEW reports \in Seq(Filled), Distinct(reports), NEW id \in Data, NEW type \in FieldItem
  PROVE  /\ Known(reports, id, type) \in Seq(Filled) /\ Distinct(Known(reports, id, type))
         /\ Place(reports, id, type) \in 1..Len(Known(reports, id, type))
         /\ Known(reports, id, type)[Place(reports, id, type)].id = id
         /\ Known(reports, id, type)[Place(reports, id, type)].type = type
         /\ \/ Len(Known(reports, id, type)) = Len(reports)
            \/ /\ Len(Known(reports, id, type)) = Len(reports) + 1
               /\ Place(reports, id, type) = Len(reports) + 1
               /\ Known(reports, id, type)[Place(reports, id, type)].fields = <<>>
         /\ \A r \in 1..Len(reports) : Known(reports, id, type)[r] = reports[r]
<1> DEFINE found == IndexOf(reports, id, type)
           r0 == [id |-> id, type |-> type, fields |-> <<>>]
           known == Known(reports, id, type)
           at == Place(reports, id, type)
<1>1. /\ found \in 0..Len(reports)
      /\ found # 0 => reports[found].id = id /\ reports[found].type = type
      /\ found = 0 => \A i \in 1..Len(reports) :
                        ~(reports[i].id = id /\ reports[i].type = type)
  BY IndexOfFacts
<1>2. Len(reports) \in Nat
  OBVIOUS
<1>3. CASE found # 0
  <2>1. known = reports /\ at = found
    BY <1>3 DEF Known, Place
  <2> HIDE DEF known, at, found
  <2>2. found \in 1..Len(reports)
    BY <1>1, <1>2, <1>3
  <2>3. QED
    BY <1>1, <1>3, <2>1, <2>2 DEF known, at
<1>4. CASE found = 0
  <2>1. known = Append(reports, r0) /\ at = Len(known)
    BY <1>4 DEF Known, Place
  <2>2. r0 \in Filled
    BY DEF Filled
  <2>3. /\ known \in Seq(Filled) /\ Len(known) = Len(reports) + 1
        /\ \A i \in 1..Len(reports) : known[i] = reports[i]
        /\ known[Len(reports) + 1] = r0
    BY <2>1, <2>2, AppendProperties
  <2>4. r0.id = id /\ r0.type = type /\ r0.fields = <<>>
    OBVIOUS
  <2> HIDE DEF known, at, found, r0
  <2>5. Distinct(known)
    <3>1. ASSUME NEW p \in 1..Len(known), NEW q \in 1..Len(known), SameKey(known[p], known[q])
          PROVE  p = q
      <4>1. \A j \in 1..Len(reports) : ~SameKey(reports[j], r0) /\ ~SameKey(r0, reports[j])
        BY <1>1, <1>4, <2>4 DEF SameKey
      <4>2. \A j \in 1..Len(known) : j = Len(reports) + 1 \/ j \in 1..Len(reports)
        BY <1>2, <2>3
      <4>3. CASE p \in 1..Len(reports) /\ q \in 1..Len(reports)
        BY <2>3, <3>1, <4>3 DEF Distinct
      <4>4. CASE p = Len(reports) + 1 /\ q \in 1..Len(reports)
        BY <2>3, <3>1, <4>1, <4>4
      <4>5. CASE q = Len(reports) + 1 /\ p \in 1..Len(reports)
        BY <2>3, <3>1, <4>1, <4>5
      <4>6. QED
        BY <4>2, <4>3, <4>4, <4>5
    <3>2. QED
      BY <3>1 DEF Distinct
  <2>6. QED
    BY <1>2, <2>1, <2>3, <2>4, <2>5 DEF known, at
<1>5. QED
  BY <1>3, <1>4

(* The definitions with one field more.                                     *)
WithField(known, at, index) == [known EXCEPT ![at].fields = Append(@, index)]

LEMMA OneMoreField ==
  ASSUME NEW known \in Seq(Filled), Distinct(known), NEW at \in 1..Len(known), NEW index \in Nat
  PROVE  /\ WithField(known, at, index) \in Seq(Filled)
         /\ Len(WithField(known, at, index)) = Len(known)
         /\ Distinct(WithField(known, at, index))
         /\ \A r \in 1..Len(known) : r # at => WithField(known, at, index)[r] = known[r]
         /\ SameKey(WithField(known, at, index)[at], known[at])
         /\ Len(WithField(known, at, index)[at].fields) = Len(known[at].fields) + 1
<1> DEFINE r1 == [known[at] EXCEPT !.fields = Append(@, index)]
           new == [known EXCEPT ![at] = r1]
<1>1. known[at] \in Filled
  OBVIOUS
<1>2. /\ Append(known[at].fields, index) \in Seq(Nat)
      /\ Len(Append(known[at].fields, index)) = Len(known[at].fields) + 1
  BY <1>1, AppendProperties DEF Filled
<1>3. /\ r1 \in Filled /\ SameKey(r1, known[at])
      /\ Len(r1.fields) = Len(known[at].fields) + 1
  BY <1>1, <1>2 DEF Filled, SameKey
<1> HIDE DEF r1
<1>4. /\ new \in Seq(Filled) /\ Len(new) = Len(known)
      /\ \A j \in 1..Len(known) : new[j] = IF j = at THEN r1 ELSE known[j]
  BY <1>3, ExceptSeq
<1>5. WithField(known, at, index) = new
  BY DEF r1, WithField
<1> HIDE DEF new
<1>6. \A j \in 1..Len(known) : SameKey(new[j], known[j])
  BY <1>3, <1>4 DEF SameKey
<1>7. Distinct(new)
  BY <1>4, <1>6 DEF Distinct, SameKey
<1>8. QED
  BY <1>3, <1>4, <1>5, <1>7

(* When there is room, ReserveField adds the field and its index.           *)
LEMMA ReserveFits ==
  ASSUME NEW tree, NEW id, NEW type, NEW field
  PROVE  ReserveField(tree, id, type, field) =
           IF \/ ~tree.ok
              \/ Len(tree.fields) >= tree.room.fields
              \/ Len(Known(tree.reports, id, type)) > tree.room.reports
              \/ Len(Known(tree.reports, id, type)[Place(tree.reports, id, type)].fields)
                   >= tree.room.perReport
           THEN [tree EXCEPT !.ok = FALSE]
           ELSE [tree EXCEPT !.fields = Append(@, field),
                             !.reports = WithField(Known(tree.reports, id, type),
                                                   Place(tree.reports, id, type),
                                                   Len(tree.fields) + 1)]
BY DEF ReserveField, Known, Place, WithField

(* What the fields of an item do not change.                                *)
SameBut(new, tree) ==
  /\ new.room = tree.room /\ new.stack = tree.stack /\ new.local = tree.local
  /\ new.open = tree.open /\ new.active = tree.active /\ new.collections = tree.collections

LEMMA ReserveFieldOK ==
  ASSUME NEW tree, TreeOK(tree), NEW id \in Data, NEW type \in FieldItem, NEW field
  PROVE  LET new == ReserveField(tree, id, type, field) IN
         /\ TreeOK(new) /\ SameBut(new, tree)
         /\ new.ok => tree.ok /\ Len(new.fields) = Len(tree.fields) + 1
<1>0. PICK known, at : known = Known(tree.reports, id, type) /\ at = Place(tree.reports, id, type)
  OBVIOUS
<1> DEFINE new == ReserveField(tree, id, type, field)
           full == \/ ~tree.ok
                   \/ Len(tree.fields) >= tree.room.fields
                   \/ Len(known) > tree.room.reports
                   \/ Len(known[at].fields) >= tree.room.perReport
           more == WithField(known, at, Len(tree.fields) + 1)
<1>1. new = IF full THEN [tree EXCEPT !.ok = FALSE]
            ELSE [tree EXCEPT !.fields = Append(@, field), !.reports = more]
  BY <1>0, ReserveFits
<1>2. CASE full
  <2>1. new = [tree EXCEPT !.ok = FALSE]
    BY <1>1, <1>2
  <2> HIDE DEF new, full
  <2>2. /\ new.ok = FALSE /\ SameBut(new, tree)
        /\ new.fields = tree.fields /\ new.reports = tree.reports
        /\ new = [ok |-> new.ok, room |-> new.room, stack |-> new.stack,
                  local |-> new.local, open |-> new.open, active |-> new.active,
                  fields |-> new.fields, collections |-> new.collections,
                  reports |-> new.reports]
    BY <2>1 DEF TreeOK, SameBut
  <2>3. TreeOK(new)
    BY <2>2 DEF TreeOK, SameBut
  <2>4. QED
    BY <2>2, <2>3 DEF new
<1>3. CASE ~full
  <2>1. new = [tree EXCEPT !.fields = Append(@, field), !.reports = more]
    BY <1>1, <1>3
  <2>2. /\ tree.reports \in Seq(Filled) /\ Distinct(tree.reports)
        /\ tree.fields \in Seq(Range(tree.fields)) /\ tree.room \in Rooms /\ tree.ok \in BOOLEAN
    BY DEF TreeOK
  <2>3. /\ known \in Seq(Filled) /\ Distinct(known) /\ at \in 1..Len(known)
        /\ \/ Len(known) = Len(tree.reports)
           \/ Len(known) = Len(tree.reports) + 1 /\ at = Len(tree.reports) + 1
        /\ \A r \in 1..Len(tree.reports) : known[r] = tree.reports[r]
        /\ Len(known) \in Nat /\ Len(tree.reports) \in Nat
    BY <1>0, <2>2, KnownFacts
  <2>4. /\ Append(tree.fields, field) \in Seq(Range(Append(tree.fields, field)))
        /\ Len(Append(tree.fields, field)) = Len(tree.fields) + 1
        /\ Len(tree.fields) + 1 \in Nat
    BY <2>2, AppendAny
  <2>5. tree.ok /\ Len(known[at].fields) < tree.room.perReport
    <3>1. known[at] \in Filled /\ tree.room.perReport \in Nat
      BY <2>2, <2>3 DEF Rooms
    <3>2. Len(known[at].fields) \in Nat
      BY <3>1 DEF Filled
    <3>3. QED
      BY <1>3, <2>2, <3>1, <3>2
  <2> HIDE DEF new, full
  <2>6. /\ more \in Seq(Filled) /\ Len(more) = Len(known) /\ Distinct(more)
        /\ \A r \in 1..Len(known) : r # at => more[r] = known[r]
        /\ Len(more[at].fields) = Len(known[at].fields) + 1
    BY <2>3, <2>4, OneMoreField
  <2> HIDE DEF more
  <2>7. /\ new.ok = tree.ok /\ SameBut(new, tree)
        /\ new.fields = Append(tree.fields, field) /\ new.reports = more
        /\ new = [ok |-> new.ok, room |-> new.room, stack |-> new.stack,
                  local |-> new.local, open |-> new.open, active |-> new.active,
                  fields |-> new.fields, collections |-> new.collections,
                  reports |-> new.reports]
    BY <2>1 DEF TreeOK, SameBut
  <2>8. \A r \in 1..Len(more) : Len(more[r].fields) <= tree.room.perReport
    <3>1. TAKE r \in 1..Len(more)
    <3>2. CASE r = at
      <4>1. known[at] \in Filled /\ tree.room.perReport \in Nat
        BY <2>2, <2>3 DEF Rooms
      <4>2. Len(known[at].fields) \in Nat
        BY <4>1 DEF Filled
      <4>3. QED
        BY <2>5, <2>6, <3>2, <4>1, <4>2
    <3>3. CASE r # at
      <4>1. r \in 1..Len(known) /\ more[r] = known[r]
        BY <2>6, <3>3
      <4>2. r \in 1..Len(tree.reports)
        BY <2>2, <2>3, <3>3, <4>1
      <4>3. QED
        BY <2>3, <4>1, <4>2 DEF TreeOK
    <3>4. QED
      BY <3>2, <3>3
  <2>9. TreeOK(new)
    <3>1. /\ new.stack \in Seq(Settings) /\ new.stack # <<>> /\ new.open \in Seq(Int)
          /\ new.active \in Int /\ new.collections \in Seq([parent : Int])
          /\ new.room \in Rooms /\ new.ok \in BOOLEAN
      BY <2>7 DEF TreeOK, SameBut
    <3>2. /\ new.fields \in Seq(Range(new.fields))
          /\ new.reports \in Seq(Filled) /\ Distinct(new.reports)
      BY <2>4, <2>6, <2>7
    <3>3. \A r \in 1..Len(new.reports) : Len(new.reports[r].fields) <= new.room.perReport
      BY <2>7, <2>8 DEF SameBut
    <3>4. QED
      BY <2>7, <3>1, <3>2, <3>3 DEF TreeOK
  <2>10. QED
    BY <2>4, <2>5, <2>7, <2>9 DEF new
<1>4. QED
  BY <1>2, <1>3

FieldsSolves(g, tree, item, n) ==
  g = [f \in 0..n |->
         IF f = 0 THEN tree
         ELSE ReserveField(g[f - 1], Last(tree.stack).id, item.tag,
                Field(Last(tree.stack), tree.local, tree.active, item, f - 1))]

(* The recursion of FillFields has a solution.                              *)
LEMMA FillFieldsIsLast ==
  ASSUME NEW tree, NEW item, ~TooManyUsages(tree, item), NEW n \in Nat,
         n = FieldsOf(item, Last(tree.stack))
  PROVE  \E g : FieldsSolves(g, tree, item, n) /\ FillFields(tree, item) = g[n]
<1> DEFINE T == {m \in Nat : \E g : FieldsSolves(g, tree, item, m)}
           field(f) == Field(Last(tree.stack), tree.local, tree.active, item, f)
           reserve(t, f) == ReserveField(t, Last(tree.stack).id, item.tag, field(f))
<1>1. 0 \in T
  <2>1. FieldsSolves([f \in 0..0 |-> tree], tree, item, 0)
    BY DEF FieldsSolves
  <2>2. QED
    BY <2>1
<1>2. ASSUME NEW m \in Nat, m \in T PROVE m + 1 \in T
  <2>1. PICK g : FieldsSolves(g, tree, item, m)
    BY <1>2
  <2>2. g = [f \in 0..m |-> IF f = 0 THEN tree ELSE reserve(g[f - 1], f - 1)]
    BY <2>1 DEF FieldsSolves
  <2> HIDE DEF reserve
  <2> DEFINE h == [f \in 0..m + 1 |-> IF f = m + 1 THEN reserve(g[m], m) ELSE g[f]]
  <2>3. ASSUME NEW f \in 0..m + 1
        PROVE  h[f] = IF f = 0 THEN tree ELSE reserve(h[f - 1], f - 1)
    <3>1. CASE f = m + 1
      <4>1. h[f] = reserve(g[m], m) /\ f - 1 = m /\ h[m] = g[m] /\ f # 0
        BY <3>1
      <4>2. QED
        BY <3>1, <4>1
    <3>2. CASE f # m + 1
      <4>1. f \in 0..m /\ h[f] = g[f] /\ (f # 0 => h[f - 1] = g[f - 1])
        BY <3>2
      <4>2. g[f] = IF f = 0 THEN tree ELSE reserve(g[f - 1], f - 1)
        BY <2>2, <4>1
      <4>3. QED
        BY <4>1, <4>2
    <3>3. QED
      BY <3>1, <3>2
  <2>4. h = [f \in 0..m + 1 |-> IF f = 0 THEN tree ELSE reserve(h[f - 1], f - 1)]
    <3> HIDE DEF h
    <3>1. h = [f \in 0..m + 1 |-> h[f]]
      BY DEF h
    <3>2. QED
      BY <2>3, <3>1
  <2> HIDE DEF h
  <2>5. FieldsSolves(h, tree, item, m + 1)
    BY <2>4 DEF FieldsSolves, reserve
  <2>6. QED
    BY <2>5
<1>3. n \in T
  <2> HIDE DEF T
  <2>1. QED
    BY <1>1, <1>2, NatSetInduction
<1>4. FieldsSolves(CHOOSE g : FieldsSolves(g, tree, item, n), tree, item, n)
  BY <1>3
<1>5. FillFields(tree, item) = (CHOOSE g : FieldsSolves(g, tree, item, n))[n]
  BY DEF FillFields, FieldsSolves
<1>6. QED
  BY <1>4, <1>5

LEMMA FieldsOfFacts ==
  ASSUME NEW stack \in Seq(Settings), stack # <<>>, NEW item
  PROVE  FieldsOf(item, Last(stack)) \in Nat /\ Last(stack).id \in Data
<1>1. Last(stack) \in Settings
  BY EmptySeq DEF Last
<1>2. QED
  BY <1>1, HidDescriptorAssumption DEF Settings, FieldsOf

(* What an item of fields does, when there is room for them.                *)
LEMMA FillFieldsOK ==
  ASSUME NEW tree, TreeOK(tree), NEW item, item.tag \in FieldItem
  PROVE  LET new == FillFields(tree, item) IN
         /\ TreeOK(new) /\ SameBut(new, tree)
         /\ new.ok => /\ tree.ok
                      /\ Len(new.fields) = Len(tree.fields) + FieldsOf(item, Last(tree.stack))
<1>1. PICK n : n = FieldsOf(item, Last(tree.stack))
  OBVIOUS
<1>2. n \in Nat /\ Last(tree.stack).id \in Data /\ Len(tree.fields) \in Nat
  BY <1>1, FieldsOfFacts DEF TreeOK
<1> DEFINE new == FillFields(tree, item)
<1>3. CASE TooManyUsages(tree, item)
  <2>1. new = [tree EXCEPT !.ok = FALSE]
    BY <1>3 DEF FillFields
  <2> HIDE DEF new
  <2>2. /\ new.ok = FALSE /\ SameBut(new, tree)
        /\ new.fields = tree.fields /\ new.reports = tree.reports
        /\ new = [ok |-> new.ok, room |-> new.room, stack |-> new.stack,
                  local |-> new.local, open |-> new.open, active |-> new.active,
                  fields |-> new.fields, collections |-> new.collections,
                  reports |-> new.reports]
    BY <2>1 DEF TreeOK, SameBut
  <2>3. TreeOK(new)
    BY <2>2 DEF TreeOK, SameBut
  <2>4. QED
    BY <2>2, <2>3 DEF new
<1>4. CASE ~TooManyUsages(tree, item)
  <2>1. PICK g : FieldsSolves(g, tree, item, n) /\ new = g[n]
    BY <1>1, <1>2, <1>4, FillFieldsIsLast
  <2> DEFINE field(f) == Field(Last(tree.stack), tree.local, tree.active, item, f)
             Done(m) == /\ TreeOK(g[m]) /\ SameBut(g[m], tree)
                        /\ g[m].ok => tree.ok /\ Len(g[m].fields) = Len(tree.fields) + m
             T == {m \in Nat : m <= n => Done(m)}
  <2>2. /\ g[0] = tree
        /\ \A f \in 1..n : g[f] = ReserveField(g[f - 1], Last(tree.stack).id, item.tag, field(f - 1))
    BY <1>2, <2>1 DEF FieldsSolves
  <2> HIDE DEF field
  <2>3. 0 \in T
    BY <1>2, <2>2 DEF SameBut
  <2>4. ASSUME NEW m \in Nat, m \in T PROVE m + 1 \in T
    <3> HIDE DEF Done
    <3> SUFFICES ASSUME m + 1 <= n PROVE Done(m + 1)
      OBVIOUS
    <3>0. Done(m)
      BY <1>2, <2>4
    <3>1. /\ TreeOK(g[m]) /\ SameBut(g[m], tree)
          /\ g[m].ok => tree.ok /\ Len(g[m].fields) = Len(tree.fields) + m
      BY <3>0 DEF Done
    <3>2. m + 1 \in 1..n /\ m + 1 - 1 = m
      BY <1>2
    <3>3. g[m + 1] = ReserveField(g[m], Last(tree.stack).id, item.tag, field(m))
      BY <2>2, <3>2
    <3>4. /\ TreeOK(g[m + 1]) /\ SameBut(g[m + 1], g[m])
          /\ g[m + 1].ok => g[m].ok /\ Len(g[m + 1].fields) = Len(g[m].fields) + 1
      BY <1>2, <3>1, <3>3, ReserveFieldOK
    <3>5. SameBut(g[m + 1], tree)
      BY <3>1, <3>4 DEF SameBut
    <3>6. g[m + 1].ok => tree.ok /\ Len(g[m + 1].fields) = Len(tree.fields) + (m + 1)
      <4>1. HAVE g[m + 1].ok
      <4>2. /\ tree.ok /\ Len(g[m].fields) = Len(tree.fields) + m
            /\ Len(g[m + 1].fields) = Len(g[m].fields) + 1
        BY <3>1, <3>4, <4>1
      <4>3. PICK k \in Nat : k = Len(tree.fields)
        BY <1>2
      <4>4. k + m + 1 = k + (m + 1)
        OBVIOUS
      <4>5. QED
        BY <4>2, <4>3, <4>4
    <3>7. QED
      BY <3>4, <3>5, <3>6 DEF Done
  <2>5. n \in T
    <3> HIDE DEF T
    <3>1. QED
      BY <1>2, <2>3, <2>4, NatSetInduction
  <2> HIDE DEF new
  <2>6. /\ TreeOK(new) /\ SameBut(new, tree)
        /\ new.ok => tree.ok /\ Len(new.fields) = Len(tree.fields) + n
    BY <1>2, <2>1, <2>5
  <2>7. QED
    BY <1>1, <2>6 DEF new
<1>5. QED
  BY <1>3, <1>4

(* A tree with the fields it had.                                           *)
Changed(tree, ok, stack, local, open, active, collections) ==
  [ok |-> ok, room |-> tree.room, stack |-> stack, local |-> local, open |-> open,
   active |-> active, fields |-> tree.fields, collections |-> collections,
   reports |-> tree.reports]

LEMMA TreeChanged ==
  ASSUME NEW tree, TreeOK(tree), NEW ok \in BOOLEAN, NEW stack \in Seq(Settings), stack # <<>>,
         NEW local, NEW open \in Seq(Int), NEW active \in Int,
         NEW collections \in Seq([parent : Int])
  PROVE  LET new == Changed(tree, ok, stack, local, open, active, collections) IN
         /\ TreeOK(new) /\ new.room = tree.room /\ new.ok = ok /\ new.stack = stack
         /\ new.fields = tree.fields /\ new.collections = collections
<1> DEFINE new == Changed(tree, ok, stack, local, open, active, collections)
<1>4. /\ new.ok = ok /\ new.stack = stack /\ new.local = local /\ new.open = open
      /\ new.active = active /\ new.collections = collections
      /\ new.room = tree.room /\ new.fields = tree.fields /\ new.reports = tree.reports
      /\ new = [ok |-> new.ok, room |-> new.room, stack |-> new.stack,
                local |-> new.local, open |-> new.open, active |-> new.active,
                fields |-> new.fields, collections |-> new.collections,
                reports |-> new.reports]
  BY DEF Changed
<1> HIDE DEF new
<1>5. TreeOK(new)
  BY <1>4 DEF TreeOK
<1>6. QED
  BY <1>4, <1>5 DEF new

(* Two trees that are the same but for their room and local items.          *)
LEMMA SignedIsInt == \A n \in Nat : Signed(n) \in Int
BY HidDescriptorAssumption DEF Signed

(* As long as both passes go on, they are at the same settings and have     *)
(* found the same number of fields and collections.                         *)
InStep(sum, tree) ==
  sum.ok /\ tree.ok =>
    /\ sum.stack = tree.stack
    /\ Len(tree.fields) = sum.fields /\ Len(tree.collections) = sum.collections

LEMMA FillItemInStep ==
  ASSUME NEW i \in Nat, NEW sum, SumOK(sum, i), NEW tree, TreeOK(tree), InStep(sum, tree),
         NEW item \in AnyItem
  PROVE  LET new == FillItem(tree, item)
             counted == CountItem(sum, item)
         IN  /\ TreeOK(new) /\ new.room = tree.room
             /\ new.ok => tree.ok
             /\ InStep(counted, new)
<1> DEFINE new == FillItem(tree, item)
           counted == CountItem(sum, item)
           Goal == /\ TreeOK(new) /\ new.room = tree.room
                   /\ new.ok => tree.ok
                   /\ InStep(counted, new)
           refused == \/ item.tag \in UnknownTag \cup {"truncated"}
                      \/ ~GlobalAllowed(tree.stack, item)
                      \/ item.tag = "usage" /\ tree.local.n > MAX_USAGES
<1> SUFFICES Goal
  OBVIOUS
<1>1. /\ tree.ok \in BOOLEAN /\ tree.stack \in Seq(Settings) /\ tree.stack # <<>>
      /\ tree.open \in Seq(Int) /\ tree.active \in Int
      /\ tree.collections \in Seq([parent : Int]) /\ Len(tree.collections) \in Nat
      /\ sum.ok \in BOOLEAN
  BY DEF TreeOK, SumOK
<1>2. tree = [ok |-> tree.ok, room |-> tree.room, stack |-> tree.stack,
              local |-> tree.local, open |-> tree.open, active |-> tree.active,
              fields |-> tree.fields, collections |-> tree.collections,
              reports |-> tree.reports]
  BY DEF TreeOK
<1>3. counted.ok => sum.ok
  BY CountItemOK DEF Grown
<1>4. ASSUME NEW ok \in BOOLEAN, NEW stack \in Seq(Settings), stack # <<>>,
             NEW local, NEW open \in Seq(Int), NEW active \in Int,
             NEW collections \in Seq([parent : Int]),
             new = Changed(tree, ok, stack, local, open, active, collections),
             ok => tree.ok,
             ok /\ counted.ok => /\ counted.stack = stack /\ counted.fields = sum.fields
                                 /\ Len(collections) = counted.collections
      PROVE  Goal
  <2> HIDE DEF new, counted
  <2>1. TreeOK(new)
    BY <1>4, TreeChanged
  <2>2. /\ new.room = tree.room /\ new.ok = ok /\ new.stack = stack
        /\ new.fields = tree.fields /\ new.collections = collections
    BY <1>4, TreeChanged
  <2>3. InStep(counted, new)
    BY <1>3, <1>4, <2>2 DEF InStep
  <2>4. QED
    BY <1>4, <2>1, <2>2, <2>3
<1>5. ASSUME new = [tree EXCEPT !.ok = FALSE] PROVE Goal
  <2>1. new = Changed(tree, FALSE, tree.stack, tree.local, tree.open, tree.active,
                      tree.collections)
    <3> HIDE DEF new
    <3>1. QED
      BY <1>2, <1>5 DEF Changed
  <2> HIDE DEF Goal, new, counted
  <2>2. QED
    BY <1>1, <1>4, <2>1
<1>6. CASE ~tree.ok
  <2>1. new = tree
    BY <1>6 DEF FillItem
  <2>2. new = [tree EXCEPT !.ok = FALSE]
    <3> HIDE DEF new
    <3>1. tree.ok = FALSE
      BY <1>1, <1>6
    <3>2. QED
      BY <1>2, <2>1, <3>1
  <2> HIDE DEF Goal, new, counted
  <2>3. QED
    BY <1>5, <2>2
<1>7. CASE tree.ok /\ Skipped(item)
  <2>1. new = tree /\ counted = sum
    BY <1>7 DEF FillItem, CountItem
  <2> HIDE DEF new, counted
  <2>2. QED
    BY <2>1 DEF new, counted
<1>8. CASE tree.ok /\ ~Skipped(item) /\ refused
  <2>1. new = [tree EXCEPT !.ok = FALSE]
    BY <1>8 DEF FillItem
  <2> HIDE DEF Goal, new, counted
  <2>2. QED
    BY <1>5, <2>1
<1>9. CASE tree.ok /\ ~Skipped(item) /\ ~refused
  <2> USE <1>9
  <2>1. ASSUME counted.ok
        PROVE  /\ sum.ok /\ sum.stack = tree.stack
               /\ Len(tree.fields) = sum.fields /\ Len(tree.collections) = sum.collections
    BY <1>3, <2>1 DEF InStep
  <2>2. GlobalAllowed(tree.stack, item) /\ item.tag \notin UnknownTag \cup {"truncated"}
    OBVIOUS
  <2>3. CASE item.tag \in FieldItem
    <3> DEFINE filled == FillFields(tree, item)
    <3>1. new = Forget(filled)
      BY <2>3 DEF FillItem, FieldItem, LocalTag
    <3>2. /\ TreeOK(filled) /\ SameBut(filled, tree)
          /\ filled.ok => /\ tree.ok
                          /\ Len(filled.fields) = Len(tree.fields)
                                                    + FieldsOf(item, Last(tree.stack))
      BY <2>3, FillFieldsOK
    <3>3. ASSUME counted.ok
          PROVE  /\ counted.stack = sum.stack /\ counted.collections = sum.collections
                 /\ counted.fields = sum.fields + FieldsOf(item, Last(sum.stack))
      <4>1. counted = CountField(sum, item)
        BY <2>1, <2>2, <2>3, <3>3 DEF CountItem, FieldItem
      <4> HIDE DEF counted
      <4>2. QED
        BY <2>3, <4>1, CountFieldOK
    <3> HIDE DEF filled
    <3>4. filled = [ok |-> filled.ok, room |-> filled.room, stack |-> filled.stack,
                    local |-> filled.local, open |-> filled.open, active |-> filled.active,
                    fields |-> filled.fields, collections |-> filled.collections,
                    reports |-> filled.reports]
      BY <3>2 DEF TreeOK
    <3>5. new = Changed(filled, filled.ok, filled.stack, Locals0, filled.open,
                     filled.active, filled.collections)
      BY <3>1, <3>4 DEF Forget, Changed
    <3>6. /\ filled.ok \in BOOLEAN /\ filled.stack \in Seq(Settings) /\ filled.stack # <<>>
          /\ filled.open \in Seq(Int) /\ filled.active \in Int
          /\ filled.collections \in Seq([parent : Int])
      BY <3>2 DEF TreeOK
    <3> HIDE DEF new, counted
    <3>7. TreeOK(new)
      BY <3>2, <3>5, <3>6, TreeChanged
    <3>8. /\ new.ok = filled.ok /\ new.room = filled.room /\ new.stack = filled.stack
          /\ new.fields = filled.fields /\ new.collections = filled.collections
      BY <3>2, <3>5, <3>6, TreeChanged
    <3>9. InStep(counted, new)
      BY <2>1, <3>2, <3>3, <3>8 DEF InStep, SameBut
    <3>10. QED
      BY <3>2, <3>7, <3>8, <3>9 DEF new, counted, SameBut
  <2>4. CASE item.tag = "collection"
    <3>1. new = Forget(OpenCollection(tree))
      BY <2>4 DEF FillItem, FieldItem, LocalTag
    <3>2. counted.ok => /\ counted.stack = sum.stack /\ counted.fields = sum.fields
                        /\ counted.collections = sum.collections + 1
      <4>1. HAVE counted.ok
      <4>2. counted = [sum EXCEPT !.collections = @ + 1]
        BY <2>1, <2>2, <2>4, <4>1 DEF CountItem, FieldItem
      <4> HIDE DEF counted
      <4>3. QED
        BY <4>2 DEF SumOK
    <3> DEFINE full == \/ Len(tree.open) >= COLLECTION_STACK_SIZE
                       \/ Len(tree.collections) >= tree.room.collections
    <3>3. CASE full
      <4>1. new = Changed(tree, FALSE, tree.stack, Locals0, tree.open,
                     tree.active, tree.collections)
        <5>1. OpenCollection(tree) = [tree EXCEPT !.ok = FALSE]
          BY <3>3 DEF OpenCollection
        <5> HIDE DEF new
        <5>2. QED
          BY <1>2, <3>1, <5>1 DEF Forget, Changed
      <4> HIDE DEF Goal, new, counted
      <4>2. QED
        BY <1>1, <1>4, <4>1
    <3>4. CASE ~full
      <4> DEFINE collections == Append(tree.collections, [parent |-> tree.active])
                 open == Append(tree.open, tree.active)
                 active == Signed(Len(tree.collections))
      <4>1. new = Changed(tree, tree.ok, tree.stack, Locals0, open,
                     active, collections)
        <5>1. OpenCollection(tree) = [tree EXCEPT !.collections = collections,
                                                  !.open = open, !.active = active]
          BY <3>4 DEF OpenCollection
        <5> HIDE DEF new, collections, open, active
        <5>2. QED
          BY <1>2, <3>1, <5>1 DEF Forget, Changed
      <4>2. /\ collections \in Seq([parent : Int]) /\ Len(collections) = Len(tree.collections) + 1
            /\ open \in Seq(Int) /\ active \in Int
        <5>1. [parent |-> tree.active] \in [parent : Int]
          BY <1>1
        <5>2. QED
          BY <1>1, <5>1, AppendProperties, SignedIsInt
      <4> HIDE DEF Goal, new, counted, collections, open, active
      <4>3. counted.ok => /\ counted.stack = tree.stack /\ counted.fields = sum.fields
                          /\ Len(collections) = counted.collections
        BY <2>1, <3>2, <4>2
      <4>4. QED
        BY <1>1, <1>4, <4>1, <4>2, <4>3
    <3>5. QED
      BY <3>3, <3>4
  <2>5. CASE item.tag \notin FieldItem \cup {"collection"}
    <3>1. counted.ok => /\ counted.stack = GlobalStep(sum.stack, item)
                        /\ counted.fields = sum.fields
                        /\ counted.collections = sum.collections
      <4>1. HAVE counted.ok
      <4>2. counted = [sum EXCEPT !.stack = GlobalStep(@, item)]
        BY <2>1, <2>2, <2>5, <4>1 DEF CountItem
      <4> HIDE DEF counted
      <4>3. QED
        BY <4>2 DEF SumOK
    <3>2. CASE item.tag = "end"
      <4>1. new = Forget(CloseCollection(tree))
        BY <3>2 DEF FillItem, FieldItem, LocalTag
      <4>2. GlobalStep(tree.stack, item) = tree.stack
        BY <3>2 DEF GlobalStep, Settings0
      <4>3. CASE tree.open = <<>>
        <5>1. new = Changed(tree, FALSE, tree.stack, Locals0, tree.open,
                     tree.active, tree.collections)
          <6>1. CloseCollection(tree) = [tree EXCEPT !.ok = FALSE]
            BY <4>3 DEF CloseCollection
          <6> HIDE DEF new
          <6>2. QED
            BY <1>2, <4>1, <6>1 DEF Forget, Changed
        <5> HIDE DEF Goal, new, counted
        <5>2. QED
          BY <1>1, <1>4, <5>1
      <4>4. CASE tree.open # <<>>
        <5> DEFINE open == Front(tree.open)
                   active == Last(tree.open)
        <5>1. new = Changed(tree, tree.ok, tree.stack, Locals0, open,
                     active, tree.collections)
          <6>1. CloseCollection(tree) = [tree EXCEPT !.active = active, !.open = open]
            BY <4>4 DEF CloseCollection
          <6> HIDE DEF new, open, active
          <6>2. QED
            BY <1>2, <4>1, <6>1 DEF Forget, Changed
        <5>2. open \in Seq(Int) /\ active \in Int
          <6>1. Len(tree.open) \in Nat \ {0} /\ \A j \in 1..Len(tree.open) : tree.open[j] \in Int
            BY <1>1, <4>4, EmptySeq
          <6>2. SubSeq(tree.open, 1, Len(tree.open) - 1) \in Seq(Int)
            BY <6>1, SubSeqProperties
          <6>3. QED
            BY <6>1, <6>2 DEF Front, Last
        <5> HIDE DEF Goal, new, counted, open, active
        <5>3. counted.ok => /\ counted.stack = tree.stack /\ counted.fields = sum.fields
                            /\ Len(tree.collections) = counted.collections
          BY <2>1, <3>1, <4>2
        <5>4. QED
          BY <1>1, <1>4, <5>1, <5>2, <5>3
      <4>5. QED
        BY <4>3, <4>4
    <3>3. CASE item.tag \in LocalTag
      <4> DEFINE local == LocalStep(tree.local, item)
      <4>1. new = [tree EXCEPT !.local = local]
        BY <3>3 DEF FillItem, FieldItem, LocalTag
      <4>2. new = Changed(tree, tree.ok, tree.stack, local, tree.open,
                     tree.active, tree.collections)
        <5> HIDE DEF new, local
        <5>1. QED
          BY <1>2, <4>1 DEF Changed
      <4>3. GlobalStep(tree.stack, item) = tree.stack
        BY <3>3 DEF GlobalStep, Settings0, LocalTag
      <4> HIDE DEF Goal, new, counted, local
      <4>4. counted.ok => /\ counted.stack = tree.stack /\ counted.fields = sum.fields
                          /\ Len(tree.collections) = counted.collections
        BY <2>1, <3>1, <4>3
      <4>5. QED
        BY <1>1, <1>4, <4>2, <4>4
    <3>4. CASE item.tag \notin LocalTag \cup {"end"}
      <4> DEFINE stack == GlobalStep(tree.stack, item)
      <4>1. new = [tree EXCEPT !.stack = stack]
        BY <2>5, <3>4 DEF FillItem
      <4>2. new = Changed(tree, tree.ok, stack, tree.local, tree.open,
                     tree.active, tree.collections)
        <5> HIDE DEF new, stack
        <5>1. QED
          BY <1>2, <4>1 DEF Changed
      <4>3. stack \in Seq(Settings) /\ stack # <<>>
        BY <1>1, <2>2, GlobalStepOK
      <4>4. counted.ok => /\ counted.stack = stack /\ counted.fields = sum.fields
                          /\ Len(tree.collections) = counted.collections
        <5> HIDE DEF counted
        <5>1. QED
          BY <2>1, <3>1
      <4> HIDE DEF Goal, new, counted, stack
      <4>5. QED
        BY <1>1, <1>4, <4>2, <4>3, <4>4
    <3>5. QED
      BY <3>2, <3>3, <3>4
  <2>6. QED
    BY <2>3, <2>4, <2>5
<1> HIDE DEF Goal, refused, new, counted
<1>10. QED
  BY <1>1, <1>6, <1>7, <1>8, <1>9

TreesOf(g, items, room) ==
  g = [i \in 0..Len(items) |-> IF i = 0 THEN Tree0(room) ELSE FillItem(g[i - 1], items[i])]

(* The recursion of Fill has a solution.                                    *)
LEMMA FillIsLast ==
  ASSUME NEW items \in Seq(AnyItem), NEW room
  PROVE  \E g : TreesOf(g, items, room) /\ Fill(items, room) = g[Len(items)]
<1> DEFINE Solves(g, n) ==
             g = [i \in 0..n |-> IF i = 0 THEN Tree0(room) ELSE FillItem(g[i - 1], items[i])]
           T == {n \in Nat : \E g : Solves(g, n)}
<1>1. 0 \in T
  <2>1. Solves([i \in 0..0 |-> Tree0(room)], 0)
    OBVIOUS
  <2>2. QED
    BY <2>1
<1>2. ASSUME NEW n \in Nat, n \in T PROVE n + 1 \in T
  <2>1. PICK g : Solves(g, n)
    BY <1>2
  <2> DEFINE h == [i \in 0..n + 1 |-> IF i = n + 1 THEN FillItem(g[n], items[n + 1]) ELSE g[i]]
  <2>2. ASSUME NEW i \in 0..n + 1
        PROVE  h[i] = IF i = 0 THEN Tree0(room) ELSE FillItem(h[i - 1], items[i])
    <3>1. CASE i = n + 1
      <4>1. h[i] = FillItem(g[n], items[n + 1]) /\ i - 1 = n /\ h[n] = g[n] /\ i # 0
        BY <3>1
      <4>2. QED
        BY <3>1, <4>1
    <3>2. CASE i # n + 1
      <4>1. i \in 0..n /\ h[i] = g[i] /\ (i # 0 => h[i - 1] = g[i - 1])
        BY <3>2
      <4>2. g[i] = IF i = 0 THEN Tree0(room) ELSE FillItem(g[i - 1], items[i])
        BY <2>1, <4>1
      <4>3. QED
        BY <4>1, <4>2
    <3>3. QED
      BY <3>1, <3>2
  <2>3. Solves(h, n + 1)
    <3> HIDE DEF h
    <3>1. h = [i \in 0..n + 1 |-> h[i]]
      BY DEF h
    <3>2. QED
      BY <2>2, <3>1
  <2> HIDE DEF h, Solves
  <2>4. QED
    BY <2>3
<1>3. Len(items) \in T
  <2>1. Len(items) \in Nat
    OBVIOUS
  <2> HIDE DEF T
  <2>2. QED
    BY <1>1, <1>2, <2>1, NatSetInduction
<1>4. TreesOf(CHOOSE g : TreesOf(g, items, room), items, room)
  BY <1>3 DEF TreesOf
<1>5. Fill(items, room) = (CHOOSE g : TreesOf(g, items, room))[Len(items)]
  BY DEF Fill, TreesOf
<1>6. QED
  BY <1>4, <1>5

LEMMA Tree0OK ==
  ASSUME NEW room \in Rooms
  PROVE  /\ TreeOK(Tree0(room)) /\ Tree0(room).room = room /\ Tree0(room).ok
         /\ Tree0(room).reports = <<>> /\ InStep(Summary0, Tree0(room))
<1>1. Settings0 \in Settings
  <2>1. 0 \in Data /\ 0 \in 0..Counter - 1
    BY HidDescriptorAssumption DEF Data
  <2>2. Settings0 \in [{"page", "min", "max", "size", "count", "id"} -> Data]
    BY <2>1 DEF Settings0
  <2>3. QED
    BY <2>1, <2>2 DEF Settings, Settings0
<1> DEFINE t == Tree0(room)
<1>2. /\ t.ok = TRUE /\ t.room = room /\ t.stack = <<Settings0>> /\ t.local = Locals0
      /\ t.open = <<>> /\ t.active = -1 /\ t.fields = <<>> /\ t.collections = <<>>
      /\ t.reports = <<>>
      /\ t = [ok |-> t.ok, room |-> t.room, stack |-> t.stack,
              local |-> t.local, open |-> t.open, active |-> t.active,
              fields |-> t.fields, collections |-> t.collections,
              reports |-> t.reports]
  BY DEF Tree0
<1> HIDE DEF t
<1>3. /\ <<Settings0>> \in Seq(Settings) /\ <<Settings0>> # <<>>
  BY <1>1
<1>4. /\ t.open \in Seq(Int) /\ t.active \in Int /\ t.fields \in Seq(Range(t.fields))
      /\ t.collections \in Seq([parent : Int]) /\ t.reports \in Seq(Filled)
  BY <1>2
<1>5. Distinct(t.reports) /\ Len(t.reports) = 0 /\ Len(t.fields) = 0 /\ Len(t.collections) = 0
  BY <1>2 DEF Distinct
<1>6. TreeOK(t)
  <2>1. /\ t.ok \in BOOLEAN /\ t.room \in Rooms
        /\ t.stack \in Seq(Settings) /\ t.stack # <<>>
    BY <1>2, <1>3
  <2>2. \A r \in 1..Len(t.reports) : Len(t.reports[r].fields) <= t.room.perReport
    BY <1>5
  <2>3. QED
    BY <1>2, <1>4, <1>5, <2>1, <2>2 DEF TreeOK
<1>7. InStep(Summary0, t)
  BY <1>2, <1>5 DEF InStep, Summary0
<1>8. QED
  BY <1>2, <1>6, <1>7 DEF t

(* Both passes are in step after every item.                                *)
LEMMA TreesInStep ==
  ASSUME NEW items \in Seq(AnyItem), NEW f, SumsOf(f, items),
         NEW room \in Rooms, NEW g, TreesOf(g, items, room)
  PROVE  \A i \in 0..Len(items) : TreeOK(g[i]) /\ g[i].room = room /\ InStep(f[i], g[i])
<1>1. Len(items) \in Nat /\ \A i \in 1..Len(items) : items[i] \in AnyItem
  OBVIOUS
<1>2. f[0] = Summary0 /\ \A i \in 1..Len(items) : f[i] = CountItem(f[i - 1], items[i])
  BY <1>1 DEF SumsOf
<1>3. g[0] = Tree0(room) /\ \A i \in 1..Len(items) : g[i] = FillItem(g[i - 1], items[i])
  BY <1>1 DEF TreesOf
<1> DEFINE Done(i) == TreeOK(g[i]) /\ g[i].room = room /\ InStep(f[i], g[i])
           T == {i \in Nat : i <= Len(items) => Done(i)}
<1>4. 0 \in T
  BY <1>2, <1>3, Tree0OK
<1>5. ASSUME NEW i \in Nat, i \in T PROVE i + 1 \in T
  <2> SUFFICES ASSUME i + 1 <= Len(items) PROVE Done(i + 1)
    OBVIOUS
  <2>1. i + 1 \in 1..Len(items) /\ i + 1 - 1 = i /\ i <= Len(items) /\ i \in 0..Len(items)
    BY <1>1
  <2>2. TreeOK(g[i]) /\ g[i].room = room /\ InStep(f[i], g[i])
    BY <1>5, <2>1
  <2>3. SumOK(f[i], i)
    BY <2>1, SumsGrow
  <2>4. /\ f[i + 1] = CountItem(f[i], items[i + 1]) /\ g[i + 1] = FillItem(g[i], items[i + 1])
        /\ items[i + 1] \in AnyItem
    BY <1>1, <1>2, <1>3, <2>1
  <2>5. QED
    BY <2>2, <2>3, <2>4, FillItemInStep
<1>6. ASSUME NEW i \in 0..Len(items) PROVE Done(i)
  <2>1. i \in T
    <3> HIDE DEF T
    <3>1. i \in Nat
      OBVIOUS
    <3>2. QED
      BY <1>4, <1>5, <3>1, NatSetInduction
  <2>2. QED
    BY <2>1
<1>7. QED
  BY <1>6

-----------------------------------------------------------------------------
(* Room that does not stop the filling pass.                                *)

Covers(room, sum) ==
  /\ room \in Rooms
  /\ sum.fields <= room.fields /\ sum.collections <= room.collections
  /\ Len(sum.reports) <= room.reports
  /\ \A q \in 1..Len(sum.reports) : sum.reports[q].n <= room.perReport

(* Every definition that is filled has been counted, with as many fields    *)
(* and, for definition q, some left.                                        *)
Within(reports, counted, q, left) ==
  \A r \in 1..Len(reports) :
    \E p \in 1..Len(counted) :
      /\ SameKey(reports[r], counted[p])
      /\ Len(reports[r].fields) + (IF p = q THEN left ELSE 0) <= counted[p].n

(* A tree in another room.                                                  *)
InRoom(tree, room) ==
  [ok |-> tree.ok, room |-> room, stack |-> tree.stack, local |-> tree.local,
   open |-> tree.open, active |-> tree.active, fields |-> tree.fields,
   collections |-> tree.collections, reports |-> tree.reports]

(* What ReserveField makes of a tree when nothing stops it.                 *)
Reserved(tree, id, type, field) ==
  [ok |-> tree.ok, room |-> tree.room, stack |-> tree.stack, local |-> tree.local,
   open |-> tree.open, active |-> tree.active, fields |-> Append(tree.fields, field),
   collections |-> tree.collections,
   reports |-> WithField(Known(tree.reports, id, type), Place(tree.reports, id, type),
                         Len(tree.fields) + 1)]

(* A field that has been counted is reserved in any room that covers the    *)
(* count.                                                                   *)
LEMMA ReserveCounted ==
  ASSUME NEW tree, TreeOK(tree), tree.ok,
         NEW room, NEW i \in Nat, NEW sum, SumOK(sum, i), Len(sum.reports) < Counter,
         Covers(room, sum),
         NEW q \in 1..Len(sum.reports), NEW left \in Nat, left >= 1,
         left <= sum.reports[q].n,
         Within(tree.reports, sum.reports, q, left), Len(tree.fields) + left <= sum.fields,
         NEW field
  PROVE  LET id == sum.reports[q].id
             type == sum.reports[q].type
         IN  /\ ReserveField(InRoom(tree, room), id, type, field)
                  = InRoom(Reserved(tree, id, type, field), room)
             /\ Within(Reserved(tree, id, type, field).reports, sum.reports, q, left - 1)
<1>1. PICK id, type : id = sum.reports[q].id /\ type = sum.reports[q].type
  OBVIOUS
<1>2. /\ sum.reports \in Seq(Counted) /\ Len(sum.reports) \in Nat /\ Distinct(sum.reports)
      /\ sum.fields \in Nat
      /\ \A p \in 1..Len(sum.reports) : sum.reports[p].n \in Nat
  BY SumTypes DEF SumOK
<1>3. id \in Data /\ type \in FieldItem
  <2>1. sum.reports[q] \in Counted
    BY <1>2
  <2>2. \A c \in Counted : c.id \in Data /\ c.type \in FieldItem
    BY DEF Counted
  <2>3. QED
    BY <1>1, <2>1, <2>2
<1>4. /\ tree.reports \in Seq(Filled) /\ Distinct(tree.reports) /\ Len(tree.reports) \in Nat
      /\ Len(tree.fields) \in Nat
  BY DEF TreeOK
<1>5. PICK known, at : known = Known(tree.reports, id, type) /\ at = Place(tree.reports, id, type)
  OBVIOUS
<1>6. /\ known \in Seq(Filled) /\ Distinct(known) /\ at \in 1..Len(known)
      /\ known[at].id = id /\ known[at].type = type
      /\ \/ Len(known) = Len(tree.reports)
         \/ /\ Len(known) = Len(tree.reports) + 1
            /\ at = Len(tree.reports) + 1 /\ known[at].fields = <<>>
      /\ \A r \in 1..Len(tree.reports) : known[r] = tree.reports[r]
      /\ Len(known) \in Nat
  <2>1. /\ known \in Seq(Filled) /\ Distinct(known) /\ at \in 1..Len(known)
        /\ \A r \in 1..Len(tree.reports) : known[r] = tree.reports[r]
    <3>1. PICK reports \in Seq(Filled) : reports = tree.reports
      BY <1>4
    <3>2. Distinct(reports) /\ known = Known(reports, id, type) /\ at = Place(reports, id, type)
      BY <1>4, <1>5, <3>1
    <3>3. /\ Known(reports, id, type) \in Seq(Filled) /\ Distinct(Known(reports, id, type))
          /\ Place(reports, id, type) \in 1..Len(Known(reports, id, type))
          /\ \A r \in 1..Len(reports) : Known(reports, id, type)[r] = reports[r]
      BY <1>3, <3>2, KnownFacts
    <3>4. QED
      BY <3>1, <3>2, <3>3
  <2>2. known[at].id = id /\ known[at].type = type
    BY <1>3, <1>4, <1>5, KnownFacts
  <2>3. \/ Len(known) = Len(tree.reports)
        \/ /\ Len(known) = Len(tree.reports) + 1
           /\ at = Len(tree.reports) + 1 /\ known[at].fields = <<>>
    BY <1>3, <1>4, <1>5, KnownFacts
  <2>4. QED
    BY <2>1, <2>2, <2>3
<1>7. \A r \in 1..Len(known) : Len(known[r].fields) \in Nat
  <2>1. \A r \in 1..Len(known) : known[r] \in Filled
    BY <1>6
  <2>2. QED
    BY <2>1 DEF Filled
<1>8. SameKey(known[at], sum.reports[q])
  BY <1>1, <1>6 DEF SameKey
<1>9. Within(known, sum.reports, q, left)
  <2>1. ASSUME NEW r \in 1..Len(known)
        PROVE  \E p \in 1..Len(sum.reports) :
                 /\ SameKey(known[r], sum.reports[p])
                 /\ Len(known[r].fields) + (IF p = q THEN left ELSE 0) <= sum.reports[p].n
    <3>1. CASE r \in 1..Len(tree.reports)
      BY <1>6, <3>1 DEF Within
    <3>2. CASE r \notin 1..Len(tree.reports)
      <4>1. r = at /\ known[at].fields = <<>>
        BY <1>4, <1>6, <3>2
      <4>2. Len(known[r].fields) + left <= sum.reports[q].n
        BY <4>1
      <4>3. QED
        BY <1>8, <4>1, <4>2
    <3>3. QED
      BY <3>1, <3>2
  <2>2. QED
    BY <2>1 DEF Within
<1>10. Len(known[at].fields) + left <= sum.reports[q].n
  <2>1. PICK p \in 1..Len(sum.reports) :
               /\ SameKey(known[at], sum.reports[p])
               /\ Len(known[at].fields) + (IF p = q THEN left ELSE 0) <= sum.reports[p].n
    BY <1>6, <1>9 DEF Within
  <2>2. SameKey(sum.reports[p], sum.reports[q])
    BY <1>8, <2>1 DEF SameKey
  <2>3. p = q
    BY <1>2, <2>2 DEF Distinct
  <2>4. QED
    BY <2>1, <2>3
<1>11. Len(known) <= Len(sum.reports)
  <2>1. \A r \in 1..Len(known) : \E p \in 1..Len(sum.reports) : SameKey(known[r], sum.reports[p])
    BY <1>9 DEF Within
  <2>2. QED
    BY <1>2, <1>6, <2>1, NoMoreThan
<1> DEFINE index == Len(tree.fields) + 1
           more == WithField(known, at, index)
           roomy == InRoom(tree, room)
<1>12. /\ Len(more) = Len(known)
       /\ \A r \in 1..Len(known) : r # at => more[r] = known[r]
       /\ SameKey(more[at], known[at])
       /\ Len(more[at].fields) = Len(known[at].fields) + 1
  <2>1. index \in Nat
    BY <1>4
  <2> HIDE DEF index
  <2>2. QED
    BY <1>6, <2>1, OneMoreField
<1>13. Reserved(tree, id, type, field).reports = more
  BY <1>5 DEF Reserved
<1> HIDE DEF more, index
<1>14. Within(more, sum.reports, q, left - 1)
  <2>1. ASSUME NEW r \in 1..Len(more)
        PROVE  \E p \in 1..Len(sum.reports) :
                 /\ SameKey(more[r], sum.reports[p])
                 /\ Len(more[r].fields) + (IF p = q THEN left - 1 ELSE 0) <= sum.reports[p].n
    <3>1. CASE r = at
      <4>1. SameKey(more[r], sum.reports[q])
        BY <1>8, <1>12, <3>1 DEF SameKey
      <4>2. Len(more[r].fields) + (left - 1) <= sum.reports[q].n
        BY <1>2, <1>6, <1>7, <1>10, <1>12, <3>1
      <4>3. QED
        BY <4>1, <4>2
    <3>2. CASE r # at
      <4>1. r \in 1..Len(known) /\ more[r] = known[r]
        BY <1>12, <3>2
      <4>2. PICK p \in 1..Len(sum.reports) :
                   /\ SameKey(known[r], sum.reports[p])
                   /\ Len(known[r].fields) + (IF p = q THEN left ELSE 0) <= sum.reports[p].n
        BY <1>9, <4>1 DEF Within
      <4>3. Len(known[r].fields) \in Nat /\ sum.reports[p].n \in Nat
        BY <1>2, <1>7, <4>1
      <4>4. Len(known[r].fields) + (IF p = q THEN left - 1 ELSE 0) <= sum.reports[p].n
        <5>1. PICK a \in Nat, b \in Nat : a = Len(known[r].fields) /\ b = sum.reports[p].n
          BY <4>3
        <5>2. a + (IF p = q THEN left ELSE 0) <= b
          BY <4>2, <5>1
        <5>3. a + (IF p = q THEN left - 1 ELSE 0) <= b
          BY <5>2
        <5>4. QED
          BY <5>1, <5>3
      <4>5. QED
        BY <4>1, <4>2, <4>4
    <3>3. QED
      BY <3>1, <3>2
  <2>2. QED
    BY <2>1 DEF Within
<1>15. /\ ~(Len(tree.fields) >= room.fields) /\ ~(Len(known) > room.reports)
       /\ ~(Len(known[at].fields) >= room.perReport)
  <2>1. /\ room.fields \in Nat /\ room.reports \in Nat /\ room.perReport \in Nat
        /\ sum.fields <= room.fields /\ Len(sum.reports) <= room.reports
        /\ sum.reports[q].n <= room.perReport
    BY DEF Covers, Rooms
  <2>2. Len(known[at].fields) \in Nat /\ sum.reports[q].n \in Nat
    BY <1>2, <1>6, <1>7
  <2>3. Len(tree.fields) < room.fields
    BY <1>2, <1>4, <2>1
  <2>4. Len(known) <= room.reports
    BY <1>2, <1>6, <1>11, <2>1
  <2>5. Len(known[at].fields) < room.perReport
    <3>1. Len(known[at].fields) < sum.reports[q].n
      BY <1>10, <2>2
    <3>2. QED
      BY <2>1, <2>2, <3>1, Order
  <2>6. ~(Len(tree.fields) >= room.fields)
    BY <1>4, <2>1, <2>3, Order
  <2>7. ~(Len(known) > room.reports)
    BY <1>6, <2>1, <2>4, Order
  <2>8. ~(Len(known[at].fields) >= room.perReport)
    BY <2>1, <2>2, <2>5, Order
  <2>9. QED
    BY <2>6, <2>7, <2>8
<1>16. /\ roomy.ok = tree.ok /\ roomy.fields = tree.fields /\ roomy.room = room
       /\ roomy.reports = tree.reports
  BY DEF InRoom
<1>17. ReserveField(roomy, id, type, field)
         = [roomy EXCEPT !.fields = Append(@, field), !.reports = more]
  <2> HIDE DEF roomy
  <2>1. QED
    BY <1>5, <1>15, <1>16, ReserveFits DEF more, index
<1>18. [roomy EXCEPT !.fields = Append(@, field), !.reports = more]
         = [ok |-> tree.ok, room |-> room, stack |-> tree.stack, local |-> tree.local,
            open |-> tree.open, active |-> tree.active, fields |-> Append(tree.fields, field),
            collections |-> tree.collections, reports |-> more]
  <2>1. PICK new : new = [roomy EXCEPT !.fields = Append(@, field), !.reports = more]
    OBVIOUS
  <2>2. roomy = [ok |-> roomy.ok, room |-> roomy.room, stack |-> roomy.stack,
                 local |-> roomy.local, open |-> roomy.open, active |-> roomy.active,
                 fields |-> roomy.fields, collections |-> roomy.collections,
                 reports |-> roomy.reports]
    BY DEF InRoom
  <2>3. /\ roomy.stack = tree.stack /\ roomy.local = tree.local /\ roomy.open = tree.open
        /\ roomy.active = tree.active /\ roomy.collections = tree.collections
    BY DEF InRoom
  <2> HIDE DEF roomy
  <2>4. /\ new.ok = roomy.ok /\ new.room = roomy.room /\ new.stack = roomy.stack
        /\ new.local = roomy.local /\ new.open = roomy.open /\ new.active = roomy.active
        /\ new.fields = Append(roomy.fields, field) /\ new.collections = roomy.collections
        /\ new.reports = more
        /\ new = [ok |-> new.ok, room |-> new.room, stack |-> new.stack,
                  local |-> new.local, open |-> new.open, active |-> new.active,
                  fields |-> new.fields, collections |-> new.collections,
                  reports |-> new.reports]
    BY <2>1, <2>2
  <2>5. new = [ok |-> tree.ok, room |-> room, stack |-> tree.stack, local |-> tree.local,
               open |-> tree.open, active |-> tree.active,
               fields |-> Append(tree.fields, field),
               collections |-> tree.collections, reports |-> more]
    BY <1>16, <2>3, <2>4
  <2>6. QED
    BY <2>1, <2>5, Zenon
<1>19. InRoom(Reserved(tree, id, type, field), room)
         = [ok |-> tree.ok, room |-> room, stack |-> tree.stack, local |-> tree.local,
            open |-> tree.open, active |-> tree.active, fields |-> Append(tree.fields, field),
            collections |-> tree.collections, reports |-> more]
  BY <1>5 DEF InRoom, Reserved, more, index
<1>20. QED
  BY <1>1, <1>13, <1>14, <1>17, <1>18, <1>19

LEMMA RoomFacts ==
  ASSUME NEW tree, TreeOK(tree), NEW room
  PROVE  /\ tree = InRoom(tree, tree.room)
         /\ \A other : InRoom(InRoom(tree, other), room) = InRoom(tree, room)
         /\ InRoom(tree, room).ok = tree.ok /\ InRoom(tree, room).room = room
         /\ InRoom(tree, room).stack = tree.stack /\ InRoom(tree, room).local = tree.local
         /\ InRoom(tree, room).open = tree.open /\ InRoom(tree, room).active = tree.active
         /\ InRoom(tree, room).fields = tree.fields
         /\ InRoom(tree, room).collections = tree.collections
         /\ InRoom(tree, room).reports = tree.reports
<1>1. tree = InRoom(tree, tree.room)
  BY DEF TreeOK, InRoom
<1>2. QED
  BY <1>1 DEF InRoom

(* What is filled is within the count of one more item of fields.           *)
LEMMA WithinMore ==
  ASSUME NEW i \in Nat, NEW sum, SumOK(sum, i), NEW counted, SumOK(counted, i + 1),
         Grown(sum, counted), Len(counted.reports) < Counter,
         NEW tree, TreeOK(tree), Within(tree.reports, sum.reports, 0, 0),
         NEW q, NEW n \in Nat,
         q \in 1..Len(sum.reports) => counted.reports[q].n = sum.reports[q].n + n
  PROVE  Within(tree.reports, counted.reports, q, n)
<1>1. /\ \A p \in 1..Len(sum.reports) : sum.reports[p].n \in Nat
      /\ Len(sum.reports) \in Nat
  BY SumTypes
<1>2. i + 1 \in Nat
  OBVIOUS
<1>3. /\ \A p \in 1..Len(counted.reports) : counted.reports[p].n \in Nat
      /\ Len(counted.reports) \in Nat
  BY <1>2, SumTypes
<1>4. \A r \in 1..Len(tree.reports) : Len(tree.reports[r].fields) \in Nat
  <2>1. \A r \in 1..Len(tree.reports) : tree.reports[r] \in Filled
    BY DEF TreeOK
  <2>2. QED
    BY <2>1 DEF Filled
<1>5. ASSUME NEW r \in 1..Len(tree.reports)
      PROVE  \E p \in 1..Len(counted.reports) :
               /\ SameKey(tree.reports[r], counted.reports[p])
               /\ Len(tree.reports[r].fields) + (IF p = q THEN n ELSE 0) <= counted.reports[p].n
  <2>1. PICK p \in 1..Len(sum.reports) :
               /\ SameKey(tree.reports[r], sum.reports[p])
               /\ Len(tree.reports[r].fields) + (IF p = 0 THEN 0 ELSE 0) <= sum.reports[p].n
    BY DEF Within
  <2>2. p \in 1..Len(counted.reports)
    BY <1>1, <1>3 DEF Grown
  <2>3. SameKey(counted.reports[p], sum.reports[p]) /\ counted.reports[p].n >= sum.reports[p].n
    BY DEF Grown
  <2>4. SameKey(tree.reports[r], counted.reports[p])
    BY <2>1, <2>3 DEF SameKey
  <2>5. PICK a \in Nat, b \in Nat, c \in Nat :
             a = Len(tree.reports[r].fields) /\ b = sum.reports[p].n /\ c = counted.reports[p].n
    BY <1>1, <1>3, <1>4, <2>2
  <2>6. a + (IF p = 0 THEN 0 ELSE 0) <= b /\ b <= c /\ (p = q => c = b + n)
    BY <2>1, <2>3, <2>5
  <2>7. a + (IF p = q THEN n ELSE 0) <= c
    BY <2>6
  <2>8. QED
    BY <2>2, <2>4, <2>5, <2>7
<1>6. QED
  BY <1>5 DEF Within

(* An item of fields that has been counted is filled in the same way in any *)
(* room that covers the count.                                              *)
LEMMA FillFieldsCounted ==
  ASSUME NEW i \in Nat, NEW sum, SumOK(sum, i), NEW item \in AnyItem, item.tag \in FieldItem,
         Len(CountField(sum, item).reports) < Counter,
         NEW tree, TreeOK(tree), tree.ok, sum.stack = tree.stack,
         Len(tree.fields) = sum.fields, Within(tree.reports, sum.reports, 0, 0),
         Covers(tree.room, CountField(sum, item)),
         NEW room, Covers(room, CountField(sum, item))
  PROVE  /\ FillFields(InRoom(tree, room), item) = InRoom(FillFields(tree, item), room)
         /\ FillFields(tree, item).ok =>
              Within(FillFields(tree, item).reports, CountField(sum, item).reports, 0, 0)
<1>1. PICK counted : counted = CountField(sum, item)
  OBVIOUS
<1>2. PICK n : n = FieldsOf(item, Last(tree.stack))
  OBVIOUS
<1>3. /\ n \in Nat /\ SumOK(counted, i + 1) /\ Grown(sum, counted)
      /\ counted.fields = sum.fields + n
      /\ Len(counted.reports) < Counter =>
           \E q \in 1..Len(counted.reports) :
             /\ counted.reports[q].id = Last(sum.stack).id
             /\ counted.reports[q].type = item.tag
             /\ counted.reports[q].n >= n
             /\ q <= Len(sum.reports) => counted.reports[q].n = sum.reports[q].n + n
  <2>1. /\ FieldsOf(item, Last(sum.stack)) \in Nat
        /\ SumOK(CountField(sum, item), i + 1) /\ Grown(sum, CountField(sum, item))
        /\ CountField(sum, item).fields = sum.fields + FieldsOf(item, Last(sum.stack))
    BY CountFieldOK
  <2>2. Len(CountField(sum, item).reports) < Counter =>
          \E q \in 1..Len(CountField(sum, item).reports) :
            /\ CountField(sum, item).reports[q].id = Last(sum.stack).id
            /\ CountField(sum, item).reports[q].type = item.tag
            /\ CountField(sum, item).reports[q].n >= FieldsOf(item, Last(sum.stack))
            /\ q <= Len(sum.reports) =>
                 CountField(sum, item).reports[q].n
                   = sum.reports[q].n + FieldsOf(item, Last(sum.stack))
    BY CountFieldOK
  <2>3. n = FieldsOf(item, Last(sum.stack))
    BY <1>2
  <2>4. QED
    BY <1>1, <2>1, <2>2, <2>3
<1>4. PICK q \in 1..Len(counted.reports) :
             /\ counted.reports[q].id = Last(sum.stack).id
             /\ counted.reports[q].type = item.tag
             /\ counted.reports[q].n >= n
             /\ q <= Len(sum.reports) => counted.reports[q].n = sum.reports[q].n + n
  BY <1>1, <1>3
<1>5. /\ Len(tree.fields) \in Nat /\ sum.fields \in Nat /\ Last(tree.stack).id \in Data
      /\ counted.reports[q].n \in Nat
  <2>1. i + 1 \in Nat
    OBVIOUS
  <2>2. QED
    BY <1>3, <1>4, <2>1, SumTypes, FieldsOfFacts DEF TreeOK
<1>6. Within(tree.reports, counted.reports, q, n)
  <2>1. q \in 1..Len(sum.reports) => counted.reports[q].n = sum.reports[q].n + n
    BY <1>4
  <2>2. Len(counted.reports) < Counter
    BY <1>1
  <2>3. QED
    BY <1>3, <2>1, <2>2, WithinMore
<1> DEFINE roomy == InRoom(tree, room)
<1>7. /\ roomy.ok = tree.ok /\ roomy.stack = tree.stack /\ roomy.local = tree.local
      /\ roomy.active = tree.active
      /\ TooManyUsages(roomy, item) <=> TooManyUsages(tree, item)
  <2>1. roomy.ok = tree.ok /\ roomy.stack = tree.stack /\ roomy.local = tree.local
    BY RoomFacts
  <2>2. roomy.active = tree.active
    BY RoomFacts
  <2> HIDE DEF roomy
  <2>3. QED
    BY <2>1, <2>2 DEF TooManyUsages
<1>8. CASE TooManyUsages(tree, item)
  <2>1. /\ FillFields(tree, item) = [tree EXCEPT !.ok = FALSE]
        /\ FillFields(roomy, item) = [roomy EXCEPT !.ok = FALSE]
    <3> HIDE DEF roomy
    <3>1. QED
      BY <1>7, <1>8 DEF FillFields
  <2>2. [roomy EXCEPT !.ok = FALSE] = InRoom([tree EXCEPT !.ok = FALSE], room)
    <3>1. PICK d, e : d = [tree EXCEPT !.ok = FALSE] /\ e = [roomy EXCEPT !.ok = FALSE]
      OBVIOUS
    <3>2. /\ d.stack = tree.stack /\ d.local = tree.local /\ d.open = tree.open
          /\ d.active = tree.active /\ d.fields = tree.fields
          /\ d.collections = tree.collections /\ d.reports = tree.reports /\ d.ok = FALSE
      BY <3>1 DEF TreeOK
    <3>3. /\ roomy = [ok |-> roomy.ok, room |-> roomy.room, stack |-> roomy.stack,
                     local |-> roomy.local, open |-> roomy.open, active |-> roomy.active,
                     fields |-> roomy.fields, collections |-> roomy.collections,
                     reports |-> roomy.reports]
          /\ roomy.room = room /\ roomy.stack = tree.stack /\ roomy.local = tree.local
          /\ roomy.open = tree.open /\ roomy.active = tree.active
          /\ roomy.fields = tree.fields /\ roomy.collections = tree.collections
          /\ roomy.reports = tree.reports
      BY DEF InRoom
    <3> HIDE DEF roomy
    <3>4. /\ e = [ok |-> e.ok, room |-> e.room, stack |-> e.stack,
                 local |-> e.local, open |-> e.open, active |-> e.active,
                 fields |-> e.fields, collections |-> e.collections, reports |-> e.reports]
          /\ e.ok = FALSE /\ e.room = roomy.room /\ e.stack = roomy.stack
          /\ e.local = roomy.local /\ e.open = roomy.open /\ e.active = roomy.active
          /\ e.fields = roomy.fields /\ e.collections = roomy.collections
          /\ e.reports = roomy.reports
      BY <3>1, <3>3
    <3>5. e = InRoom(d, room)
      BY <3>2, <3>3, <3>4 DEF InRoom
    <3>6. QED
      BY <3>1, <3>5
  <2>3. [tree EXCEPT !.ok = FALSE].ok = FALSE
    BY DEF TreeOK
  <2>4. QED
    BY <2>1, <2>2, <2>3
<1>9. CASE ~TooManyUsages(tree, item)
  <2> HIDE DEF roomy
  <2>1. PICK g : FieldsSolves(g, tree, item, n) /\ FillFields(tree, item) = g[n]
    BY <1>2, <1>3, <1>9, FillFieldsIsLast
  <2>2. PICK h : FieldsSolves(h, roomy, item, n) /\ FillFields(roomy, item) = h[n]
    BY <1>2, <1>3, <1>7, <1>9, FillFieldsIsLast
  <2> DEFINE id == Last(tree.stack).id
             field(f) == Field(Last(tree.stack), tree.local, tree.active, item, f)
             Done(m) == /\ TreeOK(g[m]) /\ SameBut(g[m], tree) /\ g[m].ok
                        /\ Len(g[m].fields) = Len(tree.fields) + m
                        /\ Within(g[m].reports, counted.reports, q, n - m)
                        /\ h[m] = InRoom(g[m], room)
             T == {m \in Nat : m <= n => Done(m)}
  <2>3. /\ g[0] = tree
        /\ \A f \in 1..n : g[f] = ReserveField(g[f - 1], id, item.tag, field(f - 1))
    BY <1>3, <2>1 DEF FieldsSolves
  <2>4. /\ h[0] = roomy
        /\ \A f \in 1..n : h[f] = ReserveField(h[f - 1], id, item.tag, field(f - 1))
    BY <1>3, <1>7, <2>2 DEF FieldsSolves
  <2> HIDE DEF field
  <2>5. 0 \in T
    <3>1. n - 0 = n /\ Len(tree.fields) + 0 = Len(tree.fields)
      BY <1>3, <1>5
    <3>2. QED
      BY <1>6, <2>3, <2>4, <3>1 DEF SameBut, roomy
  <2>6. ASSUME NEW m \in Nat, m \in T PROVE m + 1 \in T
    <3> HIDE DEF Done
    <3> SUFFICES ASSUME m + 1 <= n PROVE Done(m + 1)
      OBVIOUS
    <3>1. Done(m)
      BY <1>3, <2>6
    <3>2. /\ TreeOK(g[m]) /\ SameBut(g[m], tree) /\ g[m].ok
          /\ Len(g[m].fields) = Len(tree.fields) + m
          /\ Within(g[m].reports, counted.reports, q, n - m)
          /\ h[m] = InRoom(g[m], room)
      BY <3>1 DEF Done
    <3>3. m + 1 \in 1..n /\ m + 1 - 1 = m
      BY <1>3
    <3>4. PICK left : left = n - m
      OBVIOUS
    <3>5. /\ left \in Nat /\ left >= 1 /\ left <= counted.reports[q].n
          /\ left - 1 = n - (m + 1)
          /\ Len(g[m].fields) + left <= counted.fields
      <4>1. /\ left \in Nat /\ left >= 1 /\ left <= n /\ left - 1 = n - (m + 1)
            /\ m + left = n
        BY <1>3, <3>4
      <4>2. left <= counted.reports[q].n
        BY <1>3, <1>4, <1>5, <4>1
      <4>3. PICK k \in Nat : k = Len(tree.fields)
        BY <1>5
      <4>4. k + m + left <= k + n
        BY <1>3, <4>1
      <4>5. Len(g[m].fields) = k + m /\ counted.fields = k + n
        BY <1>3, <3>2, <4>3
      <4>6. QED
        BY <4>1, <4>2, <4>4, <4>5
    <3>6. /\ Last(sum.stack).id = id /\ counted.reports[q].id = id
          /\ counted.reports[q].type = item.tag
      BY <1>4
    <3>7. Covers(tree.room, counted) /\ Covers(room, counted) /\ Len(counted.reports) < Counter
      BY <1>1
    <3>8. i + 1 \in Nat
      OBVIOUS
    <3> DEFINE next == Reserved(g[m], id, item.tag, field(m))
    <3>9. ASSUME NEW other, Covers(other, counted)
          PROVE  /\ ReserveField(InRoom(g[m], other), id, item.tag, field(m))
                      = InRoom(next, other)
                 /\ Within(next.reports, counted.reports, q, left - 1)
      <4>1. PICK t, new : t = g[m] /\ new = field(m)
        OBVIOUS
      <4>2. /\ TreeOK(t) /\ t.ok /\ Within(t.reports, counted.reports, q, left)
            /\ Len(t.fields) + left <= counted.fields
        BY <3>2, <3>4, <3>5, <4>1
      <4>3. PICK i1 \in Nat : i1 = i + 1
        BY <3>8
      <4>4. SumOK(counted, i1)
        BY <1>3, <4>3
      <4>5. LET at == counted.reports[q].id
                type == counted.reports[q].type
            IN  /\ ReserveField(InRoom(t, other), at, type, new)
                      = InRoom(Reserved(t, at, type, new), other)
                /\ Within(Reserved(t, at, type, new).reports, counted.reports, q, left - 1)
        BY <3>5, <3>7, <3>9, <4>2, <4>4, ReserveCounted
      <4> HIDE DEF id
      <4>6. QED
        BY <3>6, <4>1, <4>5
    <3>10. Within(next.reports, counted.reports, q, left - 1)
      BY <3>7, <3>9
    <3> HIDE DEF id, next
    <3>11. InRoom(g[m], tree.room) = g[m]
      BY <3>2, RoomFacts DEF SameBut
    <3>12. g[m + 1] = InRoom(next, tree.room) /\ h[m + 1] = InRoom(next, room)
      BY <2>3, <2>4, <3>2, <3>3, <3>7, <3>9, <3>11
    <3>13. next.ok
      BY <3>2 DEF next, Reserved
    <3>14. /\ h[m + 1] = InRoom(g[m + 1], room) /\ g[m + 1].ok
           /\ g[m + 1].reports = next.reports
      BY <3>12, <3>13 DEF InRoom
    <3>15. /\ TreeOK(g[m + 1]) /\ SameBut(g[m + 1], g[m])
           /\ g[m + 1].ok => g[m].ok /\ Len(g[m + 1].fields) = Len(g[m].fields) + 1
      <4>1. g[m + 1] = ReserveField(g[m], id, item.tag, field(m))
        BY <2>3, <3>3
      <4>2. id \in Data
        BY <1>5 DEF id
      <4>3. PICK t, next1, id1, new :
                 t = g[m] /\ next1 = g[m + 1] /\ id1 = id /\ new = field(m)
        OBVIOUS
      <4>4. TreeOK(t) /\ id1 \in Data /\ next1 = ReserveField(t, id1, item.tag, new)
        BY <3>2, <4>1, <4>2, <4>3
      <4>5. /\ TreeOK(next1) /\ SameBut(next1, t)
            /\ next1.ok => t.ok /\ Len(next1.fields) = Len(t.fields) + 1
        BY <4>4, ReserveFieldOK
      <4>6. QED
        BY <4>3, <4>5
    <3>16. SameBut(g[m + 1], tree)
      BY <3>2, <3>15 DEF SameBut
    <3>17. Len(g[m + 1].fields) = Len(tree.fields) + (m + 1)
      <4>1. PICK k \in Nat : k = Len(tree.fields)
        BY <1>5
      <4>2. k + m + 1 = k + (m + 1)
        OBVIOUS
      <4>3. QED
        BY <3>2, <3>14, <3>15, <4>1, <4>2
    <3>18. QED
      BY <3>5, <3>10, <3>14, <3>15, <3>16, <3>17 DEF Done
  <2>7. Done(n)
    <3>1. n \in T
      <4> HIDE DEF T
      <4>1. QED
        BY <1>3, <2>5, <2>6, NatSetInduction
    <3> HIDE DEF Done
    <3>2. QED
      BY <1>3, <3>1
  <2>8. Within(g[n].reports, counted.reports, 0, 0)
    <3>1. Within(g[n].reports, counted.reports, q, 0)
      BY <1>3, <2>7
    <3>2. QED
      BY <3>1 DEF Within
  <2>9. h[n] = InRoom(g[n], room)
    BY <2>7
  <2>10. QED
    BY <1>1, <2>1, <2>2, <2>8, <2>9 DEF roomy
<1>10. QED
  BY <1>8, <1>9

(* The other items are filled in the same way in any room for one more      *)
(* collection.                                                              *)
LEMMA FillOtherCounted ==
  ASSUME NEW tree, tree = InRoom(tree, tree.room), NEW item, item.tag \notin FieldItem,
         NEW room,
         item.tag = "collection" => /\ ~(Len(tree.collections) >= tree.room.collections)
                                    /\ ~(Len(tree.collections) >= room.collections)
  PROVE  /\ FillItem(InRoom(tree, room), item) = InRoom(FillItem(tree, item), room)
         /\ FillItem(tree, item).reports = tree.reports
         /\ FillItem(tree, item).ok => tree.ok
<1> DEFINE Like(v) == /\ v = InRoom(tree, v.room)
                      /\ item.tag = "collection" =>
                           ~(Len(tree.collections) >= v.room.collections)
           Goal == /\ FillItem(InRoom(tree, room), item) = InRoom(FillItem(tree, item), room)
                   /\ FillItem(tree, item).reports = tree.reports
                   /\ FillItem(tree, item).ok => tree.ok
<1> SUFFICES Goal
  OBVIOUS
<1>1. Like(tree) /\ Like(InRoom(tree, room))
  BY DEF InRoom
<1>2. ASSUME NEW ok, NEW stack, NEW local, NEW open, NEW active, NEW collections, ok => tree.ok,
             \A v : Like(v) => FillItem(v, item)
                                 = Changed(v, ok, stack, local, open, active, collections)
      PROVE  Goal
  <2> HIDE DEF Like
  <2>1. /\ FillItem(tree, item)
              = Changed(tree, ok, stack, local, open, active, collections)
        /\ FillItem(InRoom(tree, room), item)
              = Changed(InRoom(tree, room), ok, stack, local, open, active, collections)
    BY <1>1, <1>2
  <2>2. Changed(InRoom(tree, room), ok, stack, local, open, active, collections)
          = InRoom(Changed(tree, ok, stack, local, open, active, collections), room)
    BY DEF Changed, InRoom
  <2>3. /\ Changed(tree, ok, stack, local, open, active, collections).ok = ok
        /\ Changed(tree, ok, stack, local, open, active, collections).reports = tree.reports
    BY DEF Changed
  <2>4. QED
    BY <1>2, <2>1, <2>2, <2>3
<1> DEFINE refused == \/ item.tag \in UnknownTag \cup {"truncated"}
                      \/ ~GlobalAllowed(tree.stack, item)
                      \/ item.tag = "usage" /\ tree.local.n > MAX_USAGES
           Whole(v) == v = [ok |-> v.ok, room |-> v.room, stack |-> v.stack,
                            local |-> v.local, open |-> v.open, active |-> v.active,
                            fields |-> v.fields, collections |-> v.collections,
                            reports |-> v.reports]
<1>3. ASSUME NEW v, Like(v)
      PROVE  /\ v.ok = tree.ok /\ v.stack = tree.stack /\ v.local = tree.local
             /\ v.open = tree.open /\ v.active = tree.active
             /\ v.collections = tree.collections
             /\ Whole(v)
  <2>1. v = InRoom(tree, v.room)
    BY <1>3
  <2>2. PICK w : w = v.room
    OBVIOUS
  <2>3. v = [ok |-> tree.ok, room |-> w, stack |-> tree.stack, local |-> tree.local,
             open |-> tree.open, active |-> tree.active, fields |-> tree.fields,
             collections |-> tree.collections, reports |-> tree.reports]
    BY <2>1, <2>2 DEF InRoom
  <2>4. QED
    BY <2>3
<1>4. CASE ~tree.ok \/ Skipped(item)
  <2>1. ASSUME NEW v, Like(v)
        PROVE  FillItem(v, item) = Changed(v, tree.ok, tree.stack, tree.local, tree.open,
                                           tree.active, tree.collections)
    <3>1. FillItem(v, item) = v
      BY <1>3, <1>4, <2>1 DEF FillItem
    <3>2. QED
      BY <1>3, <2>1, <3>1 DEF Changed
  <2> HIDE DEF Goal, Like
  <2>2. QED
    BY <1>2, <2>1
<1>5. CASE tree.ok /\ ~Skipped(item) /\ refused
  <2>1. ASSUME NEW v, Like(v)
        PROVE  FillItem(v, item) = Changed(v, FALSE, tree.stack, tree.local, tree.open,
                                           tree.active, tree.collections)
    <3>1. FillItem(v, item) = [v EXCEPT !.ok = FALSE]
      BY <1>3, <1>5, <2>1 DEF FillItem
    <3>2. QED
      BY <1>3, <2>1, <3>1 DEF Changed
  <2> HIDE DEF Goal, Like
  <2>2. QED
    BY <1>2, <2>1
<1>6. CASE tree.ok /\ ~Skipped(item) /\ ~refused /\ item.tag = "collection"
  <2>0. ASSUME NEW v, Like(v)
        PROVE  FillItem(v, item) = Forget(OpenCollection(v))
    BY <1>3, <1>6, <2>0 DEF FillItem, FieldItem, LocalTag
  <2>1. CASE Len(tree.open) >= COLLECTION_STACK_SIZE
    <3>1. ASSUME NEW v, Like(v)
          PROVE  FillItem(v, item) = Changed(v, FALSE, tree.stack, Locals0, tree.open,
                                             tree.active, tree.collections)
      <4>1. OpenCollection(v) = [v EXCEPT !.ok = FALSE]
        BY <1>3, <2>1, <3>1 DEF OpenCollection
      <4>2. QED
        BY <1>3, <2>0, <3>1, <4>1 DEF Changed, Forget
    <3> HIDE DEF Goal, Like
    <3>2. QED
      BY <1>2, <3>1
  <2>2. CASE ~(Len(tree.open) >= COLLECTION_STACK_SIZE)
    <3> DEFINE collections == Append(tree.collections, [parent |-> tree.active])
               open == Append(tree.open, tree.active)
               active == Signed(Len(tree.collections))
    <3>1. ASSUME NEW v, Like(v)
          PROVE  FillItem(v, item) = Changed(v, tree.ok, tree.stack, Locals0, open,
                                             active, collections)
      <4>1. ~(Len(v.collections) >= v.room.collections)
        BY <1>3, <1>6, <3>1
      <4>2. OpenCollection(v) = [v EXCEPT !.collections = collections, !.open = open,
                                          !.active = active]
        BY <1>3, <2>2, <3>1, <4>1 DEF OpenCollection
      <4>3. /\ v.ok = tree.ok /\ v.stack = tree.stack /\ v.collections = tree.collections
            /\ v.open = tree.open /\ v.active = tree.active
        BY <1>3, <3>1
      <4>4. Whole(v)
        BY <1>3, <3>1
      <4> HIDE DEF collections, open, active, Like
      <4>5. PICK w : w = FillItem(v, item)
        OBVIOUS
      <4>6. w = Forget([v EXCEPT !.collections = collections, !.open = open,
                                 !.active = active])
        BY <2>0, <3>1, <4>2, <4>5
      <4>7. w = Changed(v, v.ok, v.stack, Locals0, open, active, collections)
        BY <4>4, <4>6 DEF Changed, Forget
      <4>8. QED
        BY <4>3, <4>5, <4>7
    <3> HIDE DEF Goal, Like, collections, open, active
    <3>2. QED
      BY <1>2, <3>1
  <2>3. QED
    BY <2>1, <2>2
<1>7. CASE tree.ok /\ ~Skipped(item) /\ ~refused /\ item.tag = "end"
  <2>0. ASSUME NEW v, Like(v)
        PROVE  FillItem(v, item) = Forget(CloseCollection(v))
    BY <1>3, <1>7, <2>0 DEF FillItem, FieldItem, LocalTag
  <2>1. CASE tree.open = <<>>
    <3>1. ASSUME NEW v, Like(v)
          PROVE  FillItem(v, item) = Changed(v, FALSE, tree.stack, Locals0, tree.open,
                                             tree.active, tree.collections)
      <4>1. CloseCollection(v) = [v EXCEPT !.ok = FALSE]
        BY <1>3, <2>1, <3>1 DEF CloseCollection
      <4>2. QED
        BY <1>3, <2>0, <3>1, <4>1 DEF Changed, Forget
    <3> HIDE DEF Goal, Like
    <3>2. QED
      BY <1>2, <3>1
  <2>2. CASE tree.open # <<>>
    <3> DEFINE open == Front(tree.open)
               active == Last(tree.open)
    <3>1. ASSUME NEW v, Like(v)
          PROVE  FillItem(v, item) = Changed(v, tree.ok, tree.stack, Locals0, open,
                                             active, tree.collections)
      <4>1. CloseCollection(v) = [v EXCEPT !.active = active, !.open = open]
        BY <1>3, <2>2, <3>1 DEF CloseCollection
      <4>2. /\ v.ok = tree.ok /\ v.stack = tree.stack /\ v.collections = tree.collections
            /\ v.open = tree.open /\ v.active = tree.active
        BY <1>3, <3>1
      <4>3. Whole(v)
        BY <1>3, <3>1
      <4> HIDE DEF open, active, Like
      <4>4. PICK w : w = FillItem(v, item)
        OBVIOUS
      <4>5. w = Forget([v EXCEPT !.active = active, !.open = open])
        BY <2>0, <3>1, <4>1, <4>4
      <4>6. w = Changed(v, v.ok, v.stack, Locals0, open, active, v.collections)
        BY <4>3, <4>5 DEF Changed, Forget
      <4>7. QED
        BY <4>2, <4>4, <4>6
    <3> HIDE DEF Goal, Like, open, active
    <3>2. QED
      BY <1>2, <3>1
  <2>3. QED
    BY <2>1, <2>2
<1>8. CASE tree.ok /\ ~Skipped(item) /\ ~refused /\ item.tag \in LocalTag
  <2> DEFINE local == LocalStep(tree.local, item)
  <2>1. ASSUME NEW v, Like(v)
        PROVE  FillItem(v, item) = Changed(v, tree.ok, tree.stack, local, tree.open,
                                           tree.active, tree.collections)
    <3>1. FillItem(v, item) = [v EXCEPT !.local = local]
      BY <1>3, <1>8, <2>1 DEF FillItem, FieldItem, LocalTag
    <3> HIDE DEF local
    <3>2. QED
      BY <1>3, <2>1, <3>1 DEF Changed
  <2> HIDE DEF Goal, Like, local
  <2>2. QED
    BY <1>2, <2>1
<1>9. CASE /\ tree.ok /\ ~Skipped(item) /\ ~refused
           /\ item.tag \notin LocalTag \cup {"collection", "end"}
  <2> DEFINE stack == GlobalStep(tree.stack, item)
  <2>1. ASSUME NEW v, Like(v)
        PROVE  FillItem(v, item) = Changed(v, tree.ok, stack, tree.local, tree.open,
                                           tree.active, tree.collections)
    <3>1. FillItem(v, item) = [v EXCEPT !.stack = stack]
      BY <1>3, <1>9, <2>1 DEF FillItem
    <3> HIDE DEF stack
    <3>2. QED
      BY <1>3, <2>1, <3>1 DEF Changed
  <2> HIDE DEF Goal, Like, stack
  <2>2. QED
    BY <1>2, <2>1
<1> HIDE DEF Goal, refused
<1>10. QED
  BY <1>4, <1>5, <1>6, <1>7, <1>8, <1>9

LEMMA ForgetInRoom ==
  ASSUME NEW tree, TreeOK(tree), NEW room
  PROVE  /\ Forget(InRoom(tree, room)) = InRoom(Forget(tree), room)
         /\ Forget(tree).ok = tree.ok /\ Forget(tree).reports = tree.reports
<1>1. PICK t, u, f, g : /\ t = InRoom(tree, room) /\ u = tree
                        /\ f = Forget(t) /\ g = Forget(u)
  OBVIOUS
<1>2. t = InRoom(t, t.room) /\ u = InRoom(u, u.room)
  <2>1. u = InRoom(u, u.room)
    BY <1>1, RoomFacts
  <2>2. t = InRoom(t, t.room)
    BY <1>1 DEF InRoom
  <2>3. QED
    BY <2>1, <2>2
<1>3. f = Changed(t, t.ok, t.stack, Locals0, t.open, t.active, t.collections)
  BY <1>1, <1>2 DEF Forget, Changed, InRoom
<1>4. g = Changed(u, u.ok, u.stack, Locals0, u.open, u.active, u.collections)
  BY <1>1, <1>2 DEF Forget, Changed, InRoom
<1>5. /\ t.ok = u.ok /\ t.stack = u.stack /\ t.open = u.open /\ t.active = u.active
      /\ t.collections = u.collections /\ t.room = room /\ t.fields = u.fields
      /\ t.reports = u.reports
  BY <1>1 DEF InRoom
<1>6. f = InRoom(g, room)
  BY <1>3, <1>4, <1>5 DEF Changed, InRoom
<1>7. g.ok = u.ok /\ g.reports = u.reports
  BY <1>4 DEF Changed
<1>8. QED
  BY <1>1, <1>6, <1>7

(* An item that has been counted is filled in the same way in any room that *)
(* covers the count, and within it.                                         *)
LEMMA FillItemCounted ==
  ASSUME NEW i \in Nat, NEW sum, SumOK(sum, i), NEW item \in AnyItem,
         CountItem(sum, item).ok, Len(CountItem(sum, item).reports) < Counter,
         NEW tree, TreeOK(tree), InStep(sum, tree),
         tree.ok => Within(tree.reports, sum.reports, 0, 0),
         Covers(tree.room, CountItem(sum, item)),
         NEW room, Covers(room, CountItem(sum, item))
  PROVE  /\ FillItem(InRoom(tree, room), item) = InRoom(FillItem(tree, item), room)
         /\ FillItem(tree, item).ok =>
              Within(FillItem(tree, item).reports, CountItem(sum, item).reports, 0, 0)
<1>1. PICK counted : counted = CountItem(sum, item)
  OBVIOUS
<1>2. /\ SumOK(counted, i + 1) /\ Grown(sum, counted) /\ counted.ok
      /\ Len(counted.reports) < Counter /\ sum.ok
  <2>1. SumOK(counted, i + 1) /\ Grown(sum, counted)
    BY <1>1, CountItemOK
  <2>2. QED
    BY <1>1, <2>1 DEF Grown
<1>3. /\ tree = InRoom(tree, tree.room) /\ InRoom(tree, room).ok = tree.ok
      /\ InRoom(tree, room).stack = tree.stack
      /\ InRoom(tree, room).local = tree.local
  BY RoomFacts
<1>4. ASSUME tree.ok
      PROVE  /\ sum.stack = tree.stack /\ Len(tree.fields) = sum.fields
             /\ Len(tree.collections) = sum.collections
             /\ Within(tree.reports, sum.reports, 0, 0)
  BY <1>2, <1>4 DEF InStep
<1>5. CASE ~tree.ok
  <2>1. FillItem(InRoom(tree, room), item) = InRoom(tree, room) /\ FillItem(tree, item) = tree
    BY <1>3, <1>5 DEF FillItem
  <2>2. QED
    BY <1>5, <2>1
<1>6. CASE tree.ok /\ item.tag \notin FieldItem
  <2>1. item.tag = "collection" => /\ ~(Len(tree.collections) >= tree.room.collections)
                                   /\ ~(Len(tree.collections) >= room.collections)
    <3>1. HAVE item.tag = "collection"
    <3>2. counted = [sum EXCEPT !.collections = @ + 1]
      BY <1>1, <1>2, <3>1 DEF CountItem, FieldItem, Skipped, GlobalAllowed
    <3>3. counted.collections = sum.collections + 1 /\ sum.collections \in Nat
      BY <3>2 DEF SumOK
    <3>4. /\ tree.room.collections \in Nat /\ room.collections \in Nat
          /\ counted.collections <= tree.room.collections
          /\ counted.collections <= room.collections
      BY <1>1 DEF Covers, Rooms
    <3>5. Len(tree.collections) = sum.collections
      BY <1>4, <1>6
    <3>6. QED
      BY <3>3, <3>4, <3>5
  <2>2. /\ FillItem(InRoom(tree, room), item) = InRoom(FillItem(tree, item), room)
        /\ FillItem(tree, item).reports = tree.reports
    BY <1>3, <1>6, <2>1, FillOtherCounted
  <2>3. Within(tree.reports, counted.reports, 0, 0)
    <3>1. 0 \notin 1..Len(sum.reports)
      OBVIOUS
    <3>2. QED
      BY <1>2, <1>4, <1>6, <3>1, WithinMore
  <2>4. QED
    BY <1>1, <2>2, <2>3
<1>7. CASE tree.ok /\ item.tag \in FieldItem
  <2>1. counted = CountField(sum, item)
    <3>1. item.tag # "truncated" /\ ~Skipped(item) /\ GlobalAllowed(sum.stack, item)
      BY <1>7 DEF FieldItem, Skipped, GlobalAllowed
    <3>2. item.tag # "collection"
      BY <1>7 DEF FieldItem
    <3>3. QED
      BY <1>1, <1>2, <1>7, <3>1, <3>2 DEF CountItem
  <2>2. ASSUME NEW v, v.ok
        PROVE  FillItem(v, item) = Forget(FillFields(v, item))
    <3>1. /\ item.tag \notin UnknownTag \cup {"truncated"} /\ ~Skipped(item)
          /\ GlobalAllowed(v.stack, item) /\ item.tag # "usage"
          /\ item.tag \notin LocalTag /\ item.tag \notin {"collection", "end"}
      BY <1>7 DEF FieldItem, Skipped, GlobalAllowed, UnknownTag, LocalTag
    <3>2. QED
      BY <1>7, <2>2, <3>1 DEF FillItem
  <2>3. PICK filled : filled = FillFields(tree, item)
    OBVIOUS
  <2>4. /\ FillFields(InRoom(tree, room), item) = InRoom(filled, room)
        /\ filled.ok => Within(filled.reports, counted.reports, 0, 0)
    <3>1. /\ Len(CountField(sum, item).reports) < Counter
          /\ Covers(tree.room, CountField(sum, item)) /\ Covers(room, CountField(sum, item))
      BY <1>1, <2>1
    <3>2. QED
      BY <1>4, <1>7, <2>1, <2>3, <3>1, FillFieldsCounted
  <2>5. TreeOK(filled)
    BY <1>7, <2>3, FillFieldsOK
  <2>6. /\ FillItem(tree, item) = Forget(filled)
        /\ FillItem(InRoom(tree, room), item) = Forget(InRoom(filled, room))
    BY <1>3, <1>7, <2>2, <2>3, <2>4
  <2>7. /\ Forget(InRoom(filled, room)) = InRoom(Forget(filled), room)
        /\ Forget(filled).ok = filled.ok /\ Forget(filled).reports = filled.reports
    BY <2>5, ForgetInRoom
  <2>8. QED
    BY <1>1, <2>4, <2>6, <2>7
<1>8. QED
  BY <1>5, <1>6, <1>7

-----------------------------------------------------------------------------
(* Both rooms cover what has been counted.                                  *)

LEMMA LargestOf ==
  ASSUME NEW m \in Nat, NEW S \in SUBSET (0..m), 0 \in S
  PROVE  Max(S) \in Nat /\ \A x \in S : x <= Max(S)
<1> DEFINE P == S \ {0}
<1>1. \E x \in S : \A y \in S : x >= y
  <2>1. CASE P = {}
    BY <2>1
  <2>2. CASE P # {}
    <3>1. P \in SUBSET (1..m)
      OBVIOUS
    <3>2. PICK x : x = Max(P)
      OBVIOUS
    <3> HIDE DEF P
    <3>3. x \in P /\ \A y \in P : y <= x
      BY <2>2, <3>1, <3>2, FirstAndLast
    <3> USE DEF P
    <3>4. x \in S /\ x \in Nat /\ \A y \in S : x >= y
      BY <3>3
    <3>5. QED
      BY <3>4
  <2>3. QED
    BY <2>1, <2>2
<1>2. PICK x : x = Max(S)
  OBVIOUS
<1>3. x \in S /\ \A y \in S : x >= y
  BY <1>1, <1>2 DEF Max
<1>4. x \in Nat /\ \A y \in S : y \in Nat
  BY <1>3
<1>5. QED
  BY <1>2, <1>3, <1>4

LEMMA RoomFits ==
  ASSUME NEW i \in Nat, NEW sum, SumOK(sum, i)
  PROVE  /\ Room(sum) \in Rooms
         /\ sum.collections < Counter /\ Len(sum.reports) < Counter => Covers(Room(sum), sum)
<1>1. /\ sum.fields \in Nat /\ sum.collections \in Nat /\ Len(sum.reports) \in Nat
      /\ sum.report_count \in Nat /\ sum.report_count <= Len(sum.reports)
      /\ \A q \in 1..Len(sum.reports) : sum.reports[q].n \in Nat
      /\ \A q \in 1..Len(sum.reports) : sum.reports[q].n <= sum.fields
      /\ Len(sum.reports) < Counter => sum.report_count = Len(sum.reports)
  <2>1. /\ sum.fields \in Nat /\ sum.collections \in Nat /\ Len(sum.reports) \in Nat
        /\ \A q \in 1..Len(sum.reports) : sum.reports[q].n \in Nat
    BY SumTypes
  <2>2. sum.report_count \in 0..Counter - 1 /\ Counter \in Nat
    BY HidDescriptorAssumption DEF SumOK
  <2>3. /\ sum.report_count <= Len(sum.reports)
        /\ \A q \in 1..Len(sum.reports) : sum.reports[q].n <= sum.fields
        /\ Len(sum.reports) < Counter => sum.report_count = Len(sum.reports)
    BY DEF SumOK
  <2>4. sum.report_count \in Nat
    BY <2>2
  <2>5. QED
    BY <2>1, <2>3, <2>4
<1> DEFINE S == {0} \cup {sum.reports[q].n : q \in 1..sum.report_count}
<1>2. \A q \in 1..sum.report_count : q \in 1..Len(sum.reports)
  BY <1>1
<1>3. S \in SUBSET (0..sum.fields)
  BY <1>1, <1>2
<1>4. 0 \in S /\ \A q \in 1..sum.report_count : sum.reports[q].n \in S
  OBVIOUS
<1>5. PICK most : most = Max(S)
  OBVIOUS
<1>6. Room(sum) = [fields |-> sum.fields, collections |-> sum.collections % Counter,
                   reports |-> sum.report_count, perReport |-> most]
  BY <1>5 DEF Room
<1> HIDE DEF S
<1>7. most \in Nat /\ \A q \in 1..sum.report_count : sum.reports[q].n <= most
  BY <1>1, <1>3, <1>4, <1>5, LargestOf
<1>8. /\ sum.collections % Counter \in Nat
      /\ sum.collections < Counter => sum.collections % Counter = sum.collections
  <2>1. Counter \in Nat \ {0}
    BY HidDescriptorAssumption
  <2>2. PICK c : c = sum.collections
    OBVIOUS
  <2>3. c \in Nat
    BY <1>1, <2>2
  <2>4. c % Counter \in 0..Counter - 1 /\ (c < Counter => c % Counter = c)
    BY <2>1, <2>3, Remainders
  <2>5. QED
    BY <2>1, <2>2, <2>4
<1>9. PICK room : room = Room(sum)
  OBVIOUS
<1>10. /\ room.fields = sum.fields /\ room.collections = sum.collections % Counter
       /\ room.reports = sum.report_count /\ room.perReport = most
       /\ room \in Rooms
  BY <1>1, <1>6, <1>7, <1>8, <1>9 DEF Rooms
<1>11. ASSUME sum.collections < Counter, Len(sum.reports) < Counter
       PROVE  Covers(room, sum)
  <2>1. sum.fields <= room.fields
    BY <1>1, <1>10
  <2>2. sum.collections <= room.collections
    BY <1>1, <1>8, <1>10, <1>11
  <2>3. Len(sum.reports) <= room.reports
    BY <1>1, <1>10, <1>11
  <2>4. \A q \in 1..Len(sum.reports) : sum.reports[q].n <= room.perReport
    BY <1>1, <1>7, <1>10, <1>11
  <2>5. QED
    BY <1>10, <2>1, <2>2, <2>3, <2>4 DEF Covers
<1>12. QED
  BY <1>9, <1>10, <1>11

LEMMA PlentyFits ==
  ASSUME NEW items \in Seq(AnyItem), NEW sum, SumOK(sum, Len(items))
  PROVE  Plenty(items) \in Rooms /\ Covers(Plenty(items), sum)
<1>1. PICK n \in Nat : n = Len(items)
  OBVIOUS
<1>2. /\ sum.fields \in Nat /\ sum.collections \in Nat /\ Len(sum.reports) \in Nat
      /\ sum.fields <= n * Counter /\ sum.collections <= n /\ Len(sum.reports) <= n
      /\ \A q \in 1..Len(sum.reports) : sum.reports[q].n \in Nat
      /\ \A q \in 1..Len(sum.reports) : sum.reports[q].n <= sum.fields
  BY <1>1, SumTypes DEF SumOK
<1>3. PICK most : most = n * Counter
  OBVIOUS
<1>4. most \in Nat /\ n <= most
  BY <1>3, HidDescriptorAssumption
<1>5. PICK room : room = Plenty(items)
  OBVIOUS
<1>6. /\ room.fields = most /\ room.collections = most /\ room.reports = most
      /\ room.perReport = most /\ room \in Rooms
  BY <1>1, <1>3, <1>4, <1>5 DEF Plenty, Rooms
<1>7. \A q \in 1..Len(sum.reports) : sum.reports[q].n <= most
  BY <1>2, <1>3, <1>4
<1>8. sum.fields <= most /\ sum.collections <= most /\ Len(sum.reports) <= most
  BY <1>2, <1>3, <1>4
<1>9. QED
  BY <1>5, <1>6, <1>7, <1>8 DEF Covers

LEMMA CoversEarlier ==
  ASSUME NEW i \in Nat, NEW j \in Nat, NEW sum, NEW later, SumOK(sum, i), SumOK(later, j),
         Grown(sum, later), Len(later.reports) < Counter,
         NEW room, Covers(room, later)
  PROVE  Covers(room, sum)
<1>1. /\ sum.fields \in Nat /\ sum.collections \in Nat /\ Len(sum.reports) \in Nat
      /\ \A q \in 1..Len(sum.reports) : sum.reports[q].n \in Nat
      /\ later.fields \in Nat /\ later.collections \in Nat /\ Len(later.reports) \in Nat
      /\ \A q \in 1..Len(later.reports) : later.reports[q].n \in Nat
  BY SumTypes
<1>2. /\ room.fields \in Nat /\ room.collections \in Nat /\ room.reports \in Nat
      /\ room.perReport \in Nat
      /\ later.fields <= room.fields /\ later.collections <= room.collections
      /\ Len(later.reports) <= room.reports
  BY DEF Covers, Rooms
<1>3. /\ sum.fields <= later.fields /\ sum.collections <= later.collections
      /\ Len(sum.reports) <= Len(later.reports)
  BY DEF Grown
<1>4. sum.fields <= room.fields /\ sum.collections <= room.collections
      /\ Len(sum.reports) <= room.reports
  <2>1. sum.fields <= room.fields
    <3>1. PICK x \in Nat, y \in Nat, z \in Nat :
               x = sum.fields /\ y = later.fields /\ z = room.fields
      BY <1>1, <1>2
    <3>2. x <= y /\ y <= z
      BY <1>2, <1>3, <3>1
    <3>3. x <= z
      BY <3>2
    <3>4. QED
      BY <3>1, <3>3
  <2>2. sum.collections <= room.collections
    BY <1>1, <1>2, <1>3, Order
  <2>3. Len(sum.reports) <= room.reports
    BY <1>1, <1>2, <1>3, Order
  <2>4. QED
    BY <2>1, <2>2, <2>3
<1>5. ASSUME NEW q \in 1..Len(sum.reports) PROVE sum.reports[q].n <= room.perReport
  <2>1. q \in 1..Len(later.reports)
    BY <1>1, <1>3
  <2>2. later.reports[q].n >= sum.reports[q].n
    BY DEF Grown
  <2>3. later.reports[q].n <= room.perReport
    BY <2>1 DEF Covers
  <2>4. PICK a \in Nat, b \in Nat, c \in Nat :
             a = sum.reports[q].n /\ b = later.reports[q].n /\ c = room.perReport
    BY <1>1, <1>2, <2>1
  <2>5. a <= b /\ b <= c
    BY <2>2, <2>3, <2>4
  <2>6. a <= c
    BY <2>5
  <2>7. QED
    BY <2>4, <2>6
<1>6. QED
  BY <1>4, <1>5 DEF Covers

(* The filling pass goes the same way in two rooms that cover the count.    *)
LEMMA SameInAnyRoom ==
  ASSUME NEW items \in Seq(AnyItem), NEW f, SumsOf(f, items), f[Len(items)].ok,
         Len(f[Len(items)].reports) < Counter,
         NEW room, Covers(room, f[Len(items)]), NEW other, Covers(other, f[Len(items)]),
         NEW g, TreesOf(g, items, room), NEW h, TreesOf(h, items, other)
  PROVE  h[Len(items)].ok = g[Len(items)].ok
<1>1. Len(items) \in Nat /\ \A i \in 1..Len(items) : items[i] \in AnyItem
  OBVIOUS
<1>2. f[0] = Summary0 /\ \A i \in 1..Len(items) : f[i] = CountItem(f[i - 1], items[i])
  BY <1>1 DEF SumsOf
<1>3. /\ g[0] = Tree0(room) /\ \A i \in 1..Len(items) : g[i] = FillItem(g[i - 1], items[i])
      /\ h[0] = Tree0(other) /\ \A i \in 1..Len(items) : h[i] = FillItem(h[i - 1], items[i])
  <2>1. g[0] = Tree0(room) /\ \A i \in 1..Len(items) : g[i] = FillItem(g[i - 1], items[i])
    BY <1>1 DEF TreesOf
  <2>2. h[0] = Tree0(other) /\ \A i \in 1..Len(items) : h[i] = FillItem(h[i - 1], items[i])
    BY <1>1 DEF TreesOf
  <2>3. QED
    BY <2>1, <2>2
<1>4. PICK last : last = f[Len(items)]
  OBVIOUS
<1>5. \A i \in 0..Len(items) : SumOK(f[i], i) /\ Grown(f[i], last)
  BY <1>4, SumsGrow
<1>6. SumOK(last, Len(items)) /\ last.ok /\ Len(last.reports) < Counter
      /\ Covers(room, last) /\ Covers(other, last) /\ room \in Rooms
  BY <1>1, <1>4, <1>5 DEF Covers
<1>7. ASSUME NEW i \in 0..Len(items)
      PROVE  /\ f[i].ok /\ Len(f[i].reports) < Counter
             /\ Covers(room, f[i]) /\ Covers(other, f[i])
  <2>1. SumOK(f[i], i) /\ Grown(f[i], last) /\ i \in Nat
    BY <1>5
  <2>2. Covers(room, f[i]) /\ Covers(other, f[i])
    BY <1>1, <1>6, <2>1, CoversEarlier
  <2>3. Len(f[i].reports) \in Nat /\ Len(last.reports) \in Nat /\ Counter \in Nat
    BY <1>1, <1>6, <2>1, SumTypes, HidDescriptorAssumption
  <2>4. QED
    BY <1>6, <2>1, <2>2, <2>3 DEF Grown
<1>8. \A i \in 0..Len(items) : TreeOK(g[i]) /\ g[i].room = room /\ InStep(f[i], g[i])
  BY <1>6, TreesInStep
<1> DEFINE Done(i) == /\ h[i] = InRoom(g[i], other)
                      /\ g[i].ok => Within(g[i].reports, f[i].reports, 0, 0)
           T == {i \in Nat : i <= Len(items) => Done(i)}
<1>9. 0 \in T
  <2>1. Tree0(other) = InRoom(Tree0(room), other)
    BY DEF Tree0, InRoom
  <2>2. Within(Tree0(room).reports, f[0].reports, 0, 0)
    BY DEF Tree0, Within
  <2>3. QED
    BY <1>3, <2>1, <2>2
<1>10. ASSUME NEW i \in Nat, i \in T PROVE i + 1 \in T
  <2> HIDE DEF Done
  <2> SUFFICES ASSUME i + 1 <= Len(items) PROVE Done(i + 1)
    OBVIOUS
  <2>1. i + 1 \in 1..Len(items) /\ i + 1 - 1 = i /\ i <= Len(items) /\ i \in 0..Len(items)
        /\ i + 1 \in 0..Len(items)
    BY <1>1
  <2>2. Done(i)
    BY <1>10, <2>1
  <2>3. PICK item \in AnyItem : item = items[i + 1]
    BY <1>1, <2>1
  <2>4. /\ f[i + 1] = CountItem(f[i], item) /\ g[i + 1] = FillItem(g[i], item)
        /\ h[i + 1] = FillItem(h[i], item)
    BY <1>2, <1>3, <2>1, <2>3
  <2>5. /\ f[i + 1].ok /\ Len(f[i + 1].reports) < Counter
        /\ Covers(room, f[i + 1]) /\ Covers(other, f[i + 1])
    BY <1>7, <2>1
  <2>6. PICK sum, tree : sum = f[i] /\ tree = g[i]
    OBVIOUS
  <2>7. /\ SumOK(sum, i) /\ TreeOK(tree) /\ tree.room = room /\ InStep(sum, tree)
    BY <1>5, <1>8, <2>1, <2>6
  <2>8. /\ h[i] = InRoom(tree, other)
        /\ tree.ok => Within(tree.reports, sum.reports, 0, 0)
    BY <2>2, <2>6 DEF Done
  <2>9. /\ CountItem(sum, item).ok /\ Len(CountItem(sum, item).reports) < Counter
        /\ Covers(tree.room, CountItem(sum, item)) /\ Covers(other, CountItem(sum, item))
    BY <2>4, <2>5, <2>6, <2>7
  <2>10. /\ FillItem(InRoom(tree, other), item) = InRoom(FillItem(tree, item), other)
         /\ FillItem(tree, item).ok =>
              Within(FillItem(tree, item).reports, CountItem(sum, item).reports, 0, 0)
    BY <2>7, <2>8, <2>9, FillItemCounted
  <2>11. QED
    BY <2>4, <2>6, <2>8, <2>10 DEF Done
<1>11. Done(Len(items))
  <2>1. Len(items) \in T
    <3> HIDE DEF T
    <3>1. QED
      BY <1>1, <1>9, <1>10, NatSetInduction
  <2> HIDE DEF Done
  <2>2. QED
    BY <1>1, <2>1
<1>12. QED
  BY <1>11 DEF InRoom

-----------------------------------------------------------------------------
(* hid_report_descriptor_parse.                                             *)

LEMMA ParseAgrees ==
  ASSUME NEW items \in Seq(AnyItem)
  PROVE  LET sum == Count(items)
             tree == Parse(items)
         IN  /\ tree.ok => /\ Len(tree.fields) = sum.fields
                           /\ Len(tree.collections) = sum.collections
                           /\ \A r \in DOMAIN tree.reports :
                                Len(tree.reports[r].fields) <= tree.room.perReport
             /\ sum.ok /\ sum.collections < Counter /\ Len(sum.reports) < Counter
                  => (tree.ok <=> Fill(items, Plenty(items)).ok)
<1>1. PICK n \in Nat : n = Len(items)
  OBVIOUS
<1>2. PICK f : SumsOf(f, items) /\ Count(items) = f[Len(items)]
  BY CountIsLast
<1>3. PICK sum : sum = Count(items)
  OBVIOUS
<1>4. n \in 0..Len(items) /\ sum = f[n]
  BY <1>1, <1>2, <1>3
<1>5. SumOK(sum, Len(items))
  BY <1>1, <1>2, <1>4, SumsGrow
<1>6. PICK room, plenty : room = Room(sum) /\ plenty = Plenty(items)
  OBVIOUS
<1>7. /\ room \in Rooms /\ plenty \in Rooms
      /\ sum.collections < Counter /\ Len(sum.reports) < Counter => Covers(room, sum)
      /\ Covers(plenty, sum)
  BY <1>5, <1>6, RoomFits, PlentyFits
<1>8. PICK g : TreesOf(g, items, room) /\ Fill(items, room) = g[Len(items)]
  BY FillIsLast
<1>9. PICK h : TreesOf(h, items, plenty) /\ Fill(items, plenty) = h[Len(items)]
  BY FillIsLast
<1>10. PICK tree : tree = g[n]
  OBVIOUS
<1>11. TreeOK(tree) /\ tree.room = room /\ InStep(sum, tree)
  BY <1>2, <1>4, <1>7, <1>8, <1>10, TreesInStep
<1>12. tree.ok \in BOOLEAN /\ Parse(items) = IF sum.ok /\ tree.ok THEN tree ELSE NoTree
  BY <1>1, <1>3, <1>6, <1>8, <1>10, <1>11 DEF Parse, TreeOK
<1>13. NoTree.ok = FALSE
  BY DEF NoTree
<1>14. ASSUME Parse(items).ok
       PROVE  /\ Len(Parse(items).fields) = sum.fields
              /\ Len(Parse(items).collections) = sum.collections
              /\ \A r \in DOMAIN Parse(items).reports :
                   Len(Parse(items).reports[r].fields) <= Parse(items).room.perReport
  <2>1. sum.ok /\ tree.ok /\ Parse(items) = tree
    BY <1>12, <1>13, <1>14
  <2>2. Len(tree.fields) = sum.fields /\ Len(tree.collections) = sum.collections
    BY <1>11, <2>1 DEF InStep
  <2>3. tree.reports \in Seq(Filled)
    BY <1>11 DEF TreeOK
  <2>4. DOMAIN tree.reports = 1..Len(tree.reports)
    BY <2>3
  <2>5. \A r \in DOMAIN tree.reports : Len(tree.reports[r].fields) <= tree.room.perReport
    BY <1>11, <2>4 DEF TreeOK
  <2>6. QED
    BY <2>1, <2>2, <2>5
<1>15. ASSUME sum.ok, sum.collections < Counter, Len(sum.reports) < Counter
       PROVE  Parse(items).ok <=> Fill(items, Plenty(items)).ok
  <2>1. f[Len(items)] = sum
    BY <1>2, <1>3
  <2>2. h[Len(items)].ok = g[Len(items)].ok
    BY <1>2, <1>7, <1>8, <1>9, <1>15, <2>1, SameInAnyRoom
  <2>3. Parse(items).ok = tree.ok
    BY <1>12, <1>13, <1>15
  <2>4. QED
    BY <1>1, <1>6, <1>9, <1>10, <2>2, <2>3
<1>16. QED
  BY <1>3, <1>14, <1>15

(* Every descriptor is a sequence of items, and what is kept of an          *)
(* interface is what its descriptor parses to.                              *)
ParsedInv ==
  /\ descriptor \in Seq(AnyItem)
  /\ hid # Null => hid.tree = Parse(descriptor)

LEMMA ParsedInvInductive == Spec => []ParsedInv
<1>1. Init => ParsedInv
  BY HidDescriptorAssumption DEF Init, ParsedInv
<1>2. ParsedInv /\ [Next]_vars => ParsedInv'
  <2> SUFFICES ASSUME ParsedInv, [Next]_vars PROVE ParsedInv'
    OBVIOUS
  <2>1. ASSUME NEW item \in Items, Receive(item) PROVE ParsedInv'
    <3>1. item \in AnyItem
      BY DEF AnyItem
    <3>2. descriptor' = Append(descriptor, item) /\ hid' = Null
      BY <2>1 DEF Receive
    <3>3. QED
      BY <3>1, <3>2, AppendProperties DEF ParsedInv
  <2>2. CASE Register
    <3>1. hid'.tree = Parse(descriptor) /\ descriptor' = descriptor
      BY <2>2 DEF Register
    <3>2. Parse(descriptor') = Parse(descriptor)
      BY <3>1
    <3>3. QED
      BY <3>1, <3>2 DEF ParsedInv
  <2>3. ASSUME UNCHANGED <<descriptor, hid>> PROVE ParsedInv'
    <3>1. Parse(descriptor') = Parse(descriptor)
      BY <2>3
    <3>2. QED
      BY <2>3, <3>1 DEF ParsedInv
  <2>4. ASSUME NEW data \in Reports, NEW protocol \in Protocol, HidReport(data, protocol)
        PROVE  ParsedInv'
    BY <2>3, <2>4 DEF HidReport
  <2>5. CASE UNCHANGED vars
    BY <2>3, <2>5 DEF vars
  <2>6. QED
    BY <2>1, <2>2, <2>4, <2>5 DEF Next
<1>3. QED
  BY <1>1, <1>2, PTL DEF Spec

(* CountedIsFilled: hid_report_descriptor_parse fills exactly the fields    *)
(* and collections hid_descriptor_compute_stats_to_alloc counted, no report *)
(* definition takes more fields than it was given room for, and short of    *)
(* the uint8_t counters wrapping the room never refuses a descriptor that   *)
(* unlimited room would take; for descriptors of any length.                *)
THEOREM CountedIsFilledInvariant == Spec => []CountedIsFilled
<1>1. ParsedInv => CountedIsFilled
  <2> SUFFICES ASSUME ParsedInv, Registered PROVE CountedIsFilled
    BY DEF CountedIsFilled
  <2>1. descriptor \in Seq(AnyItem) /\ hid # Null /\ hid.tree = Parse(descriptor)
    BY DEF ParsedInv, Registered
  <2>2. QED
    BY <2>1, ParseAgrees DEF CountedIsFilled, Parsed, Tree
<1>2. QED
  BY <1>1, ParsedInvInductive, PTL
=============================================================================
