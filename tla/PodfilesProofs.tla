---------------------------- MODULE PodfilesProofs ----------------------------
(***************************************************************************)
(* Proofs about the resolution of a Podfile, of what it inherits and of    *)
(* its ports, for every depth, registry and Podfile and every range of     *)
(* ports.  What the recursive functions compute is shown by induction over *)
(* a set.                                                                  *)
(***************************************************************************)
EXTENDS Podfiles, FiniteSetTheorems, WellFoundedInduction, TLAPS

-----------------------------------------------------------------------------
(* Least elements, induction and iteration.                                *)

(* A set of numbers that is not empty has a least one.                     *)
LEMMA LeastExists ==
    ASSUME NEW S \in SUBSET Nat, S # {}
    PROVE  \E n \in S : \A m \in S : n <= m
<1>1. IsWellFoundedOn(OpToRel(<, Nat), Nat) BY NatLessThanWellFounded
<1>2. PICK n \in S : \A m \in S : ~(<<m, n>> \in OpToRel(<, Nat))
  BY <1>1, WFMin
<1>3. \A m \in S : ~(m < n) BY <1>2 DEF OpToRel
<1> QED BY <1>3

(* Induction, over a set.                                                  *)
LEMMA Induction ==
    ASSUME NEW N \in Nat, NEW Good \in SUBSET Nat, 0 \in Good,
           \A n \in Nat : n \in Good /\ n < N => n + 1 \in Good
    PROVE  \A n \in 0..N : n \in Good
<1> DEFINE Bad == {n \in 0..N : n \notin Good}
<1> SUFFICES ASSUME Bad # {} PROVE FALSE OBVIOUS
<1> Bad \in SUBSET Nat OBVIOUS
<1>1. PICK n \in Bad : \A m \in Bad : n <= m
  <2> HIDE DEF Bad
  <2> QED BY LeastExists
<1>2. n # 0 BY <1>1
<1>3. n - 1 \in Nat /\ n - 1 < N /\ n - 1 \notin Bad BY <1>1, <1>2
<1> QED BY <1>1, <1>2, <1>3

\* f has the values of base after each of N steps.
Iterates(f, N, V, base, step) ==
    /\ f \in [0..N -> V]
    /\ f[0] = base
    /\ \A n \in 1..N : f[n] = step[n][f[n - 1]]

(* What repeats a step N times exists.                                     *)
LEMMA IterationExists ==
    ASSUME NEW N \in Nat, NEW V, NEW base \in V, NEW step \in [1..N -> [V -> V]]
    PROVE  \E f : Iterates(f, N, V, base, step)
<1> DEFINE Is(f, k) == f[0] = base /\ \A n \in 1..k : f[n] = step[n][f[n - 1]]
           Good == {k \in Nat : \E f \in [0..k -> V] : Is(f, k)}
<1>1. 0 \in Good
  <2> DEFINE f == [n \in 0..0 |-> base]
  <2>1. f \in [0..0 -> V] /\ Is(f, 0) OBVIOUS
  <2> QED BY <2>1
<1>2. ASSUME NEW k \in Nat, k \in Good, k < N PROVE k + 1 \in Good
  <2>1. PICK f \in [0..k -> V] : Is(f, k) BY <1>2
  <2> DEFINE g == [n \in 0..(k + 1) |-> IF n \in 0..k THEN f[n] ELSE step[k + 1][f[k]]]
  <2>2. step[k + 1] \in [V -> V] /\ f[k] \in V BY <1>2
  <2>3. g \in [0..(k + 1) -> V] BY <2>2
  <2>4. g[0] = base BY <2>1
  <2>5. ASSUME NEW n \in 1..(k + 1) PROVE g[n] = step[n][g[n - 1]]
    <3>1. g[n - 1] = f[n - 1] /\ n - 1 \in 0..k OBVIOUS
    <3>2. CASE n = k + 1 BY <3>1, <3>2
    <3>3. CASE n \in 1..k
      <4>1. g[n] = f[n] BY <3>3
      <4> QED BY <2>1, <3>1, <3>3, <4>1
    <3> QED BY <3>2, <3>3
  <2>6. Is(g, k + 1) BY <2>4, <2>5
  <2> HIDE DEF g, Is
  <2> QED BY <2>3, <2>6
<1>3. N \in Good
  <2>1. Good \in SUBSET Nat OBVIOUS
  <2> HIDE DEF Good
  <2>2. \A n \in 0..N : n \in Good BY <1>1, <1>2, <2>1, Induction
  <2> QED BY <2>2
<1> QED BY <1>3 DEF Iterates

\* l appends those of the flags that are not Old to expose, n of them seen.
IsListing(l, N, flags, expose, Old) ==
    l = [n \in 0..N |-> IF n = 0 THEN expose
                        ELSE IF flags[n] \in Old THEN l[n - 1]
                        ELSE Append(l[n - 1], flags[n])]

(* Appending those of some numbers that a list does not have already.      *)
LEMMA ListedExists ==
    ASSUME NEW N \in Nat, NEW flags \in [1..N -> Int], NEW expose \in Seq(Int), NEW Old
    PROVE  \E l : IsListing(l, N, flags, expose, Old)
<1> DEFINE V == Seq(Int)
           step == [n \in 1..N |-> [s \in V |->
                      IF flags[n] \in Old THEN s ELSE Append(s, flags[n])]]
<1>1. step \in [1..N -> [V -> V]]
  <2>1. ASSUME NEW n \in 1..N, NEW s \in V
        PROVE  (IF flags[n] \in Old THEN s ELSE Append(s, flags[n])) \in V
    OBVIOUS
  <2> HIDE DEF V
  <2> QED BY <2>1
<1>2. PICK l : Iterates(l, N, V, expose, step)
  <2>1. expose \in V OBVIOUS
  <2> HIDE DEF step, V
  <2> QED BY <1>1, <2>1, IterationExists
<1>3. l \in [0..N -> V] /\ l[0] = expose /\ \A n \in 1..N : l[n] = step[n][l[n - 1]]
  BY <1>2 DEF Iterates
<1>4. ASSUME NEW n \in 1..N
      PROVE  l[n] = IF flags[n] \in Old THEN l[n - 1] ELSE Append(l[n - 1], flags[n])
  <2>1. l[n - 1] \in V BY <1>3
  <2>2. l[n] = step[n][l[n - 1]] BY <1>3
  <2> HIDE DEF V
  <2> QED BY <2>1, <2>2
<1>5. ASSUME NEW n \in 0..N
      PROVE  l[n] = IF n = 0 THEN expose
                    ELSE IF flags[n] \in Old THEN l[n - 1]
                    ELSE Append(l[n - 1], flags[n])
  <2>1. CASE n = 0 BY <1>3, <2>1
  <2>2. CASE n # 0 BY <1>4, <2>2
  <2> QED BY <2>1, <2>2
<1>6. l = [n \in 0..N |-> IF n = 0 THEN expose
                          ELSE IF flags[n] \in Old THEN l[n - 1]
                          ELSE Append(l[n - 1], flags[n])]
  <2> HIDE DEF V
  <2> QED BY <1>3, <1>5
<1> QED BY <1>6 DEF IsListing

-----------------------------------------------------------------------------
(* Lists: what Keep and Unique keep of them.                               *)

(* What is appended is one element more.                                   *)
LEMMA ToSetOfAppend ==
    ASSUME NEW S, NEW s \in Seq(S), NEW x \in S
    PROVE  ToSet(Append(s, x)) = ToSet(s) \cup {x}
<1>1. /\ DOMAIN s = 1..Len(s) /\ Len(s) \in Nat
      /\ DOMAIN Append(s, x) = 1..(Len(s) + 1)
      /\ \A i \in 1..Len(s) : Append(s, x)[i] = s[i]
      /\ Append(s, x)[Len(s) + 1] = x
  OBVIOUS
<1> QED BY <1>1 DEF ToSet

(* A property of the empty list, kept by appending, is one of every list.  *)
LEMMA ListInduction ==
    ASSUME NEW T, NEW Good \in SUBSET Seq(T), <<>> \in Good,
           \A l \in Good, x \in T : Append(l, x) \in Good
    PROVE  \A l \in Seq(T) : l \in Good
<1> DEFINE Lengths == {n \in Nat : \A l \in Seq(T) : Len(l) = n => l \in Good}
<1>1. 0 \in Lengths
  <2>1. \A l \in Seq(T) : Len(l) = 0 => l = <<>> OBVIOUS
  <2> QED BY <2>1
<1>2. ASSUME NEW n \in Nat, n \in Lengths PROVE n + 1 \in Lengths
  <2>1. ASSUME NEW l \in Seq(T), Len(l) = n + 1 PROVE l \in Good
    <3> DEFINE front == SubSeq(l, 1, n)
    <3>1. front \in Seq(T) /\ Len(front) = n /\ \A i \in 1..n : front[i] = l[i] BY <2>1
    <3>2. l[n + 1] \in T BY <2>1
    <3>3. l = Append(front, l[n + 1])
      <4> HIDE DEF front
      <4> QED BY <2>1, <3>1, <3>2
    <3>4. front \in Good BY <1>2, <3>1
    <3> HIDE DEF front
    <3> QED BY <3>2, <3>3, <3>4
  <2> QED BY <2>1
<1>3. ASSUME NEW l \in Seq(T) PROVE l \in Good
  <2> DEFINE N == Len(l)
  <2>1. Lengths \in SUBSET Nat /\ N \in Nat OBVIOUS
  <2>2. N \in Lengths
    <3> HIDE DEF Lengths, N
    <3>1. \A n \in 0..N : n \in Lengths BY <1>1, <1>2, <2>1, Induction
    <3> QED BY <2>1, <3>1
  <2> QED BY <2>2
<1> QED BY <1>3

\* k keeps of the first n of the list those that are in the set.
IsKept(k, N, list, set) ==
    k = [n \in 0..N |-> IF n = 0 THEN <<>>
                        ELSE IF list[n] \in set THEN Append(k[n - 1], list[n]) ELSE k[n - 1]]

(* The recursive function of Keep exists, for any number of entries.       *)
LEMMA KeptExists ==
    ASSUME NEW T, NEW N \in Nat, NEW list \in [1..N -> T], NEW set
    PROVE  \E k : IsKept(k, N, list, set)
<1> DEFINE V == Seq(T)
           step == [n \in 1..N |-> [s \in V |->
                      IF list[n] \in set THEN Append(s, list[n]) ELSE s]]
<1>1. step \in [1..N -> [V -> V]]
  <2>1. ASSUME NEW n \in 1..N, NEW s \in V
        PROVE  (IF list[n] \in set THEN Append(s, list[n]) ELSE s) \in V
    OBVIOUS
  <2> HIDE DEF V
  <2> QED BY <2>1
<1>2. PICK l : Iterates(l, N, V, <<>>, step)
  <2>1. <<>> \in V OBVIOUS
  <2> HIDE DEF step, V
  <2> QED BY <1>1, <2>1, IterationExists
<1>3. l \in [0..N -> V] /\ l[0] = <<>> /\ \A n \in 1..N : l[n] = step[n][l[n - 1]]
  BY <1>2 DEF Iterates
<1>4. ASSUME NEW n \in 1..N
      PROVE  l[n] = IF list[n] \in set THEN Append(l[n - 1], list[n]) ELSE l[n - 1]
  <2>1. l[n - 1] \in V BY <1>3
  <2>2. l[n] = step[n][l[n - 1]] BY <1>3
  <2> HIDE DEF V
  <2> QED BY <2>1, <2>2
<1>5. ASSUME NEW n \in 0..N
      PROVE  l[n] = IF n = 0 THEN <<>>
                    ELSE IF list[n] \in set THEN Append(l[n - 1], list[n]) ELSE l[n - 1]
  <2>1. CASE n = 0 BY <1>3, <2>1
  <2>2. CASE n # 0 BY <1>4, <2>2
  <2> QED BY <2>1, <2>2
<1>6. IsKept(l, N, list, set)
  <2> HIDE DEF V
  <2> QED BY <1>3, <1>5 DEF IsKept
<1> QED BY <1>6

(* What Keep has kept depends on what it has seen of the list only.        *)
LEMMA KeptAgree ==
    ASSUME NEW N \in Nat, NEW M \in Nat, NEW m \in Nat, m <= N, m <= M, NEW set,
           NEW a, NEW b, \A i \in 1..m : a[i] = b[i],
           NEW j, NEW k, IsKept(j, N, a, set), IsKept(k, M, b, set)
    PROVE  j[m] = k[m]
<1> DEFINE Good == {n \in 0..m : j[n] = k[n]}
<1>1. \A n \in 0..N : j[n] = IF n = 0 THEN <<>> ELSE
                        IF a[n] \in set THEN Append(j[n - 1], a[n]) ELSE j[n - 1]
  BY DEF IsKept
<1>2. \A n \in 0..M : k[n] = IF n = 0 THEN <<>> ELSE
                        IF b[n] \in set THEN Append(k[n - 1], b[n]) ELSE k[n - 1]
  BY DEF IsKept
<1>3. 0 \in Good BY <1>1, <1>2
<1>4. ASSUME NEW n \in Nat, n \in Good, n < m PROVE n + 1 \in Good
  <2>1. n + 1 \in 0..N /\ n + 1 \in 0..M /\ n + 1 # 0 /\ (n + 1) - 1 = n BY <1>4
  <2>2. j[n + 1] = IF a[n + 1] \in set THEN Append(j[n], a[n + 1]) ELSE j[n] BY <1>1, <2>1
  <2>3. k[n + 1] = IF b[n + 1] \in set THEN Append(k[n], b[n + 1]) ELSE k[n] BY <1>2, <2>1
  <2> QED BY <1>4, <2>2, <2>3
<1>5. Good \in SUBSET Nat OBVIOUS
<1> HIDE DEF Good
<1>6. \A n \in 0..m : n \in Good BY <1>3, <1>4, <1>5, Induction
<1> QED BY <1>6 DEF Good

(* Nothing is kept of the empty list.                                      *)
LEMMA KeepEmpty ==
    ASSUME NEW set
    PROVE  Keep(<<>>, set) = <<>>
<1> DEFINE k == CHOOSE f : IsKept(f, 0, <<>>, set)
<1>1. \E f : IsKept(f, 0, <<>>, set)
  <2>1. <<>> \in [1..0 -> {0}] OBVIOUS
  <2> QED BY <2>1, KeptExists
<1>2. IsKept(k, 0, <<>>, set) BY <1>1
<1>3. Keep(<<>>, set) = k[0] BY DEF Keep, IsKept
<1> HIDE DEF k
<1>4. k[0] = <<>> BY <1>2 DEF IsKept
<1> QED BY <1>3, <1>4

(* Of a list and one more entry, the entry is kept if it is in the set.    *)
LEMMA KeepAppend ==
    ASSUME NEW T, NEW list \in Seq(T), NEW x \in T, NEW set
    PROVE  Keep(Append(list, x), set) =
             IF x \in set THEN Append(Keep(list, set), x) ELSE Keep(list, set)
<1> DEFINE N == Len(list)
           longer == Append(list, x)
           Of(l) == CHOOSE k : IsKept(k, Len(l), l, set)
<1>1. \A l : Keep(l, set) = Of(l)[Len(l)] BY DEF Keep, IsKept
<1>2. ASSUME NEW l \in Seq(T) PROVE IsKept(Of(l), Len(l), l, set)
  <2>1. Len(l) \in Nat /\ l \in [1..Len(l) -> T] OBVIOUS
  <2> QED BY <2>1, KeptExists
<1>3. /\ N \in Nat /\ Len(longer) = N + 1 /\ longer \in Seq(T)
      /\ longer[N + 1] = x /\ \A i \in 1..N : longer[i] = list[i]
  OBVIOUS
<1>4. IsKept(Of(list), N, list, set) /\ IsKept(Of(longer), N + 1, longer, set)
  <2> HIDE DEF Of, longer
  <2> QED BY <1>2, <1>3
<1>5. Of(longer)[N] = Of(list)[N]
  <2> HIDE DEF Of, longer, N
  <2> QED BY <1>3, <1>4, KeptAgree
<1>6. Of(longer)[N + 1] = IF x \in set THEN Append(Of(longer)[N], x) ELSE Of(longer)[N]
  <2> HIDE DEF Of, longer, N
  <2>1. N + 1 \in 0..(N + 1) /\ N + 1 # 0 /\ (N + 1) - 1 = N BY <1>3
  <2>2. Of(longer)[N + 1] = IF longer[N + 1] \in set THEN Append(Of(longer)[N], longer[N + 1])
                            ELSE Of(longer)[N]
    BY <1>4, <2>1 DEF IsKept
  <2> QED BY <1>3, <2>2
<1> HIDE DEF Of
<1>7. Keep(longer, set) = Of(longer)[N + 1] /\ Keep(list, set) = Of(list)[N]
  <2> HIDE DEF longer
  <2> QED BY <1>1, <1>3
<1> HIDE DEF longer, N
<1>8. Keep(longer, set) = IF x \in set THEN Append(Keep(list, set), x) ELSE Keep(list, set)
  BY <1>5, <1>6, <1>7
<1> QED BY <1>8 DEF longer

(* Keep answers a list of the entries that are in the set.                 *)
LEMMA KeepIsList ==
    ASSUME NEW T, NEW set, NEW list \in Seq(T)
    PROVE  Keep(list, set) \in Seq(T) /\ ToSet(Keep(list, set)) = ToSet(list) \cap set
<1> DEFINE Good == {l \in Seq(T) : /\ Keep(l, set) \in Seq(T)
                                   /\ ToSet(Keep(l, set)) = ToSet(l) \cap set}
<1>1. <<>> \in Good
  <2>1. ToSet(<<>>) = {} BY DEF ToSet
  <2>2. Keep(<<>>, set) = <<>> BY KeepEmpty
  <2>3. <<>> \in Seq(T) OBVIOUS
  <2> QED BY <2>1, <2>2, <2>3
<1>2. ASSUME NEW l \in Good, NEW x \in T PROVE Append(l, x) \in Good
  <2>1. ToSet(Append(l, x)) = ToSet(l) \cup {x} BY ToSetOfAppend
  <2>2. Keep(Append(l, x), set) =
          IF x \in set THEN Append(Keep(l, set), x) ELSE Keep(l, set)
    BY KeepAppend
  <2>3. ToSet(Append(Keep(l, set), x)) = ToSet(Keep(l, set)) \cup {x} BY ToSetOfAppend
  <2>4. Append(l, x) \in Seq(T) /\ Append(Keep(l, set), x) \in Seq(T) OBVIOUS
  <2> QED BY <2>1, <2>2, <2>3, <2>4
<1> HIDE DEF Good
<1>3. list \in Good
  <2>1. Good \in SUBSET Seq(T) BY DEF Good
  <2> QED BY <1>1, <1>2, <2>1, ListInduction
<1> QED BY <1>3 DEF Good

(* What is appended to the second of two lists is appended to both.        *)
LEMMA ConcatAppend ==
    ASSUME NEW T, NEW a \in Seq(T), NEW b \in Seq(T), NEW x \in T
    PROVE  a \o Append(b, x) = Append(a \o b, x)
  OBVIOUS

(* One list after another has the entries of both.                         *)
LEMMA ToSetOfConcat ==
    ASSUME NEW T, NEW a \in Seq(T), NEW b \in Seq(T)
    PROVE  ToSet(a \o b) = ToSet(a) \cup ToSet(b)
<1>1. /\ Len(a) \in Nat /\ Len(b) \in Nat
      /\ DOMAIN a = 1..Len(a) /\ DOMAIN b = 1..Len(b)
      /\ DOMAIN (a \o b) = 1..(Len(a) + Len(b))
      /\ \A i \in 1..(Len(a) + Len(b)) :
           (a \o b)[i] = IF i <= Len(a) THEN a[i] ELSE b[i - Len(a)]
  OBVIOUS
<1>2. ASSUME NEW i \in 1..(Len(a) + Len(b)) PROVE (a \o b)[i] \in ToSet(a) \cup ToSet(b)
  <2>1. CASE i <= Len(a) BY <1>1, <2>1 DEF ToSet
  <2>2. CASE i > Len(a)
    <3>1. i - Len(a) \in 1..Len(b) BY <1>1, <2>2
    <3> QED BY <1>1, <2>2, <3>1 DEF ToSet
  <2> QED BY <1>1, <2>1, <2>2
<1>3. ASSUME NEW i \in 1..Len(a) PROVE a[i] \in ToSet(a \o b)
  <2>1. i \in 1..(Len(a) + Len(b)) /\ (a \o b)[i] = a[i] BY <1>1
  <2> QED BY <1>1, <2>1 DEF ToSet
<1>4. ASSUME NEW i \in 1..Len(b) PROVE b[i] \in ToSet(a \o b)
  <2>1. Len(a) + i \in 1..(Len(a) + Len(b)) /\ (Len(a) + i) - Len(a) = i
        /\ ~(Len(a) + i <= Len(a))
    BY <1>1
  <2>2. (a \o b)[Len(a) + i] = b[i] BY <1>1, <2>1
  <2> QED BY <1>1, <2>1, <2>2 DEF ToSet
<1>5. ToSet(a \o b) = {(a \o b)[i] : i \in 1..(Len(a) + Len(b))} BY <1>1 DEF ToSet
<1>6. ToSet(a) = {a[i] : i \in 1..Len(a)} /\ ToSet(b) = {b[i] : i \in 1..Len(b)}
  BY <1>1 DEF ToSet
<1>7. ToSet(a \o b) \subseteq ToSet(a) \cup ToSet(b) BY <1>2, <1>5
<1>8. ToSet(a) \cup ToSet(b) \subseteq ToSet(a \o b) BY <1>3, <1>4, <1>6
<1> QED BY <1>7, <1>8

\* The list with each entry replaced.
Mapped(list, f) == [i \in DOMAIN list |-> f[list[i]]]

\* s keeps of the first n of the list each value once.
IsSeen(s, N, list) ==
    s = [n \in 0..N |-> IF n = 0 THEN <<>>
                        ELSE LET before == s[n - 1]
                             IN  IF Contains(before, list[n]) THEN before
                                 ELSE Append(before, list[n])]

(* The recursive function of Unique exists, and keeps to the list's values.*)
LEMMA SeenExists ==
    ASSUME NEW S, NEW N \in Nat, NEW list \in [1..N -> S]
    PROVE  \E s : s \in [0..N -> Seq(S)] /\ IsSeen(s, N, list)
<1> DEFINE V == Seq(S)
           step == [n \in 1..N |-> [s \in V |->
                      IF Contains(s, list[n]) THEN s ELSE Append(s, list[n])]]
<1>1. step \in [1..N -> [V -> V]]
  <2>1. ASSUME NEW n \in 1..N, NEW s \in V
        PROVE  (IF Contains(s, list[n]) THEN s ELSE Append(s, list[n])) \in V
    OBVIOUS
  <2> HIDE DEF V
  <2> QED BY <2>1
<1>2. PICK l : Iterates(l, N, V, <<>>, step)
  <2>1. <<>> \in V OBVIOUS
  <2> HIDE DEF step, V
  <2> QED BY <1>1, <2>1, IterationExists
<1>3. l \in [0..N -> V] /\ l[0] = <<>> /\ \A n \in 1..N : l[n] = step[n][l[n - 1]]
  BY <1>2 DEF Iterates
<1>4. ASSUME NEW n \in 1..N
      PROVE  l[n] = IF Contains(l[n - 1], list[n]) THEN l[n - 1] ELSE Append(l[n - 1], list[n])
  <2>1. l[n - 1] \in V BY <1>3
  <2>2. l[n] = step[n][l[n - 1]] BY <1>3
  <2> HIDE DEF V
  <2> QED BY <2>1, <2>2
<1>5. ASSUME NEW n \in 0..N
      PROVE  l[n] = IF n = 0 THEN <<>>
                    ELSE IF Contains(l[n - 1], list[n]) THEN l[n - 1]
                    ELSE Append(l[n - 1], list[n])
  <2>1. CASE n = 0 BY <1>3, <2>1
  <2>2. CASE n # 0 BY <1>4, <2>2
  <2> QED BY <2>1, <2>2
<1>6. IsSeen(l, N, list)
  <2> HIDE DEF V
  <2> QED BY <1>3, <1>5 DEF IsSeen
<1> QED BY <1>3, <1>6

(* What Unique has kept depends on what it has seen of the list only.      *)
LEMMA SeenAgree ==
    ASSUME NEW N \in Nat, NEW M \in Nat, NEW m \in Nat, m <= N, m <= M,
           NEW a, NEW b, \A i \in 1..m : a[i] = b[i],
           NEW j, NEW k, IsSeen(j, N, a), IsSeen(k, M, b)
    PROVE  j[m] = k[m]
<1> DEFINE Good == {n \in 0..m : j[n] = k[n]}
<1>1. \A n \in 0..N : j[n] = IF n = 0 THEN <<>> ELSE
                        IF Contains(j[n - 1], a[n]) THEN j[n - 1] ELSE Append(j[n - 1], a[n])
  BY DEF IsSeen
<1>2. \A n \in 0..M : k[n] = IF n = 0 THEN <<>> ELSE
                        IF Contains(k[n - 1], b[n]) THEN k[n - 1] ELSE Append(k[n - 1], b[n])
  BY DEF IsSeen
<1>3. 0 \in Good BY <1>1, <1>2
<1>4. ASSUME NEW n \in Nat, n \in Good, n < m PROVE n + 1 \in Good
  <2>1. n + 1 \in 0..N /\ n + 1 \in 0..M /\ n + 1 # 0 /\ (n + 1) - 1 = n BY <1>4
  <2>2. j[n + 1] = IF Contains(j[n], a[n + 1]) THEN j[n] ELSE Append(j[n], a[n + 1])
    BY <1>1, <2>1
  <2>3. k[n + 1] = IF Contains(k[n], b[n + 1]) THEN k[n] ELSE Append(k[n], b[n + 1])
    BY <1>2, <2>1
  <2> QED BY <1>4, <2>2, <2>3
<1>5. Good \in SUBSET Nat OBVIOUS
<1> HIDE DEF Good
<1>6. \A n \in 0..m : n \in Good BY <1>3, <1>4, <1>5, Induction
<1> QED BY <1>6 DEF Good

(* Of a list and one more value, the value stays if it is a new one.       *)
LEMMA UniqueAppend ==
    ASSUME NEW T, NEW list \in Seq(T), NEW x \in T
    PROVE  /\ Unique(<<>>) = <<>>
           /\ Unique(Append(list, x)) =
                IF Contains(Unique(list), x) THEN Unique(list) ELSE Append(Unique(list), x)
<1> DEFINE N == Len(list)
           longer == Append(list, x)
           Of(l) == CHOOSE s : IsSeen(s, Len(l), l)
<1>1. \A l : Unique(l) = Of(l)[Len(l)] BY DEF Unique, IsSeen
<1>2. ASSUME NEW l \in Seq(T) PROVE IsSeen(Of(l), Len(l), l)
  <2>1. Len(l) \in Nat /\ l \in [1..Len(l) -> T] OBVIOUS
  <2> QED BY <2>1, SeenExists
<1>3. /\ N \in Nat /\ Len(longer) = N + 1 /\ longer \in Seq(T)
      /\ longer[N + 1] = x /\ \A i \in 1..N : longer[i] = list[i]
  OBVIOUS
<1>4. /\ IsSeen(Of(list), N, list) /\ IsSeen(Of(longer), N + 1, longer)
      /\ IsSeen(Of(<<>>), 0, <<>>)
  <2>1. <<>> \in Seq(T) /\ Len(<<>>) = 0 OBVIOUS
  <2> HIDE DEF Of, longer
  <2> QED BY <1>2, <1>3, <2>1
<1>5. Of(longer)[N] = Of(list)[N]
  <2> HIDE DEF Of, longer, N
  <2> QED BY <1>3, <1>4, SeenAgree
<1>6. Of(longer)[N + 1] = IF Contains(Of(longer)[N], x) THEN Of(longer)[N]
                          ELSE Append(Of(longer)[N], x)
  <2> HIDE DEF Of, longer, N
  <2>1. N + 1 \in 0..(N + 1) /\ N + 1 # 0 /\ (N + 1) - 1 = N BY <1>3
  <2>2. Of(longer)[N + 1] = IF Contains(Of(longer)[N], longer[N + 1]) THEN Of(longer)[N]
                            ELSE Append(Of(longer)[N], longer[N + 1])
    BY <1>4, <2>1 DEF IsSeen
  <2> QED BY <1>3, <2>2
<1> HIDE DEF Of
<1>7. Of(<<>>)[0] = <<>> BY <1>4 DEF IsSeen
<1>8. Unique(<<>>) = Of(<<>>)[0] BY <1>1
<1>9. Unique(longer) = Of(longer)[N + 1] /\ Unique(list) = Of(list)[N]
  <2> HIDE DEF longer
  <2> QED BY <1>1, <1>3
<1> HIDE DEF longer, N
<1>10. Unique(longer) = IF Contains(Unique(list), x) THEN Unique(list)
                        ELSE Append(Unique(list), x)
  BY <1>5, <1>6, <1>9
<1> QED BY <1>7, <1>8, <1>10 DEF longer

(* dedupeInts and the map seen keep every value of a list once, and add    *)
(* none.                                                                   *)
LEMMA UniqueIsList ==
    ASSUME NEW T, NEW list \in Seq(T)
    PROVE  /\ Unique(list) \in Seq(T)
           /\ ToSet(Unique(list)) = ToSet(list)
           /\ IsInjective(Unique(list))
<1> DEFINE Good == {l \in Seq(T) : /\ Unique(l) \in Seq(T)
                                   /\ ToSet(Unique(l)) = ToSet(l)
                                   /\ IsInjective(Unique(l))}
<1>1. ASSUME T # {} PROVE <<>> \in Good
  <2>1. Unique(<<>>) = <<>> /\ <<>> \in Seq(T) BY <1>1, UniqueAppend
  <2>2. ToSet(<<>>) = {} /\ IsInjective(<<>>) BY DEF ToSet, IsInjective
  <2> QED BY <2>1, <2>2
<1>2. ASSUME NEW l \in Good, NEW x \in T PROVE Append(l, x) \in Good
  <2> DEFINE u == Unique(l)
  <2>1. Append(l, x) \in Seq(T) /\ u \in Seq(T) /\ ToSet(u) = ToSet(l) /\ IsInjective(u) OBVIOUS
  <2>2. ToSet(Append(l, x)) = ToSet(l) \cup {x} BY ToSetOfAppend
  <2>3. Unique(Append(l, x)) = IF Contains(u, x) THEN u ELSE Append(u, x) BY UniqueAppend
  <2> HIDE DEF u
  <2>4. Contains(u, x) <=> x \in ToSet(u) BY <2>1 DEF Contains, ToSet
  <2>5. CASE Contains(u, x) BY <2>1, <2>2, <2>3, <2>4, <2>5
  <2>6. CASE ~Contains(u, x)
    <3>1. Append(u, x) \in Seq(T) BY <2>1
    <3>2. ToSet(Append(u, x)) = ToSet(u) \cup {x} BY <2>1, ToSetOfAppend
    <3>3. /\ DOMAIN u = 1..Len(u) /\ Len(u) \in Nat
          /\ DOMAIN Append(u, x) = 1..(Len(u) + 1) /\ Append(u, x)[Len(u) + 1] = x
          /\ \A i \in 1..Len(u) : Append(u, x)[i] = u[i] /\ u[i] # x
      BY <2>1, <2>6 DEF Contains
    <3>4. IsInjective(Append(u, x)) BY <2>1, <3>3 DEF IsInjective
    <3> HIDE DEF Good
    <3>5. Unique(Append(l, x)) = Append(u, x) BY <2>3, <2>6
    <3> QED BY <2>1, <2>2, <3>1, <3>2, <3>4, <3>5 DEF Good
  <2> QED BY <2>5, <2>6
<1>3. CASE T # {}
  <2>1. Good \in SUBSET Seq(T) OBVIOUS
  <2>2. list \in Good
    <3> HIDE DEF Good
    <3> QED BY <1>1, <1>2, <1>3, <2>1, ListInduction
  <2> QED BY <2>2
<1>4. CASE T = {}
  <2>1. list = <<>> BY <1>4
  <2>2. Unique(<<>>) = <<>>
    <3>1. <<>> \in Seq({0}) OBVIOUS
    <3> QED BY <3>1, UniqueAppend
  <2>3. IsInjective(<<>>) BY DEF IsInjective
  <2> QED BY <2>1, <2>2, <2>3
<1> QED BY <1>3, <1>4

\* The values of f fall along the list, or stay.
Falling(list, f) == \A p, q \in DOMAIN list : p < q => f[list[p]] >= f[list[q]]

(* What is appended must not have a greater value than what is there.      *)
LEMMA FallingAppend ==
    ASSUME NEW T, NEW f \in [T -> Int], NEW list \in Seq(T), NEW x \in T
    PROVE  Falling(Append(list, x), f) <=>
             Falling(list, f) /\ \A y \in ToSet(list) : f[y] >= f[x]
<1>1. /\ DOMAIN list = 1..Len(list) /\ Len(list) \in Nat
      /\ DOMAIN Append(list, x) = 1..(Len(list) + 1) /\ Append(list, x)[Len(list) + 1] = x
      /\ \A i \in 1..Len(list) : Append(list, x)[i] = list[i]
  OBVIOUS
<1>2. ToSet(list) = {list[i] : i \in 1..Len(list)} BY <1>1 DEF ToSet
<1>3. ASSUME Falling(Append(list, x), f)
      PROVE  Falling(list, f) /\ \A y \in ToSet(list) : f[y] >= f[x]
  <2>1. Falling(list, f) BY <1>1, <1>3 DEF Falling
  <2>2. ASSUME NEW i \in 1..Len(list) PROVE f[list[i]] >= f[x]
    <3>1. i < Len(list) + 1 /\ i \in 1..(Len(list) + 1) /\ Len(list) + 1 \in 1..(Len(list) + 1)
      BY <1>1
    <3> QED BY <1>1, <1>3, <3>1 DEF Falling
  <2> QED BY <1>2, <2>1, <2>2
<1>4. ASSUME Falling(list, f), \A y \in ToSet(list) : f[y] >= f[x]
      PROVE  Falling(Append(list, x), f)
  <2>1. ASSUME NEW p \in 1..(Len(list) + 1), NEW q \in 1..(Len(list) + 1), p < q
        PROVE  f[Append(list, x)[p]] >= f[Append(list, x)[q]]
    <3>1. p \in 1..Len(list) /\ Append(list, x)[p] = list[p] BY <1>1, <2>1
    <3>2. CASE q = Len(list) + 1 BY <1>1, <1>2, <1>4, <3>1, <3>2
    <3>3. CASE q \in 1..Len(list) BY <1>1, <1>4, <2>1, <3>1, <3>3 DEF Falling
    <3> QED BY <1>1, <3>2, <3>3
  <2> QED BY <1>1, <2>1 DEF Falling
<1> QED BY <1>3, <1>4

(* What is kept of a list falls if the list does.                          *)
LEMMA KeepFalls ==
    ASSUME NEW T, NEW f \in [T -> Int], NEW set, NEW list \in Seq(T), Falling(list, f)
    PROVE  Falling(Keep(list, set), f)
<1> DEFINE Good == {l \in Seq(T) : Falling(l, f) => Falling(Keep(l, set), f)}
<1>1. <<>> \in Good
  <2>1. Keep(<<>>, set) = <<>> BY KeepEmpty
  <2>2. <<>> \in Seq(T) OBVIOUS
  <2> QED BY <2>1, <2>2
<1>2. ASSUME NEW l \in Good, NEW x \in T PROVE Append(l, x) \in Good
  <2> DEFINE k == Keep(l, set)
  <2>1. Append(l, x) \in Seq(T) /\ (Falling(l, f) => Falling(k, f)) OBVIOUS
  <2>2. k \in Seq(T) /\ ToSet(k) = ToSet(l) \cap set BY KeepIsList
  <2>3. Keep(Append(l, x), set) = IF x \in set THEN Append(k, x) ELSE k BY KeepAppend
  <2>4. Falling(Append(l, x), f) <=> Falling(l, f) /\ \A y \in ToSet(l) : f[y] >= f[x]
    BY FallingAppend
  <2> HIDE DEF k
  <2>5. Falling(Append(k, x), f) <=> Falling(k, f) /\ \A y \in ToSet(k) : f[y] >= f[x]
    BY <2>2, FallingAppend
  <2>6. Falling(Append(l, x), f) => Falling(Keep(Append(l, x), set), f)
    <3> HIDE DEF Good
    <3>1. CASE x \in set BY <2>1, <2>2, <2>3, <2>4, <2>5, <3>1
    <3>2. CASE x \notin set BY <2>1, <2>3, <2>4, <3>2
    <3> QED BY <3>1, <3>2
  <2> QED BY <2>1, <2>6
<1>3. list \in Good
  <2>1. Good \in SUBSET Seq(T) OBVIOUS
  <2> HIDE DEF Good
  <2> QED BY <1>1, <1>2, <2>1, ListInduction
<1> QED BY <1>3

(* So does a list without its repetitions.                                 *)
LEMMA UniqueFalls ==
    ASSUME NEW T, NEW f \in [T -> Int], NEW list \in Seq(T), Falling(list, f)
    PROVE  Falling(Unique(list), f)
<1> DEFINE Good == {l \in Seq(T) : Falling(l, f) => Falling(Unique(l), f)}
<1>1. <<>> \in Good
  <2>1. <<>> \in Seq({0}) OBVIOUS
  <2>2. Unique(<<>>) = <<>> BY <2>1, UniqueAppend
  <2>3. <<>> \in Seq(T) OBVIOUS
  <2> QED BY <2>2, <2>3
<1>2. ASSUME NEW l \in Good, NEW x \in T PROVE Append(l, x) \in Good
  <2> DEFINE u == Unique(l)
  <2>1. Append(l, x) \in Seq(T) /\ (Falling(l, f) => Falling(u, f)) OBVIOUS
  <2>2. u \in Seq(T) /\ ToSet(u) = ToSet(l) BY UniqueIsList
  <2>3. Unique(Append(l, x)) = IF Contains(u, x) THEN u ELSE Append(u, x) BY UniqueAppend
  <2>4. Falling(Append(l, x), f) <=> Falling(l, f) /\ \A y \in ToSet(l) : f[y] >= f[x]
    BY FallingAppend
  <2> HIDE DEF u
  <2>5. Falling(Append(u, x), f) <=> Falling(u, f) /\ \A y \in ToSet(u) : f[y] >= f[x]
    BY <2>2, FallingAppend
  <2>6. Falling(Append(l, x), f) => Falling(Unique(Append(l, x)), f)
    <3> HIDE DEF Good
    <3>1. CASE Contains(u, x) BY <2>1, <2>3, <2>4, <3>1
    <3>2. CASE ~Contains(u, x) BY <2>1, <2>2, <2>3, <2>4, <2>5, <3>2
    <3> QED BY <3>1, <3>2
  <2> QED BY <2>1, <2>6
<1>3. list \in Good
  <2>1. Good \in SUBSET Seq(T) OBVIOUS
  <2> HIDE DEF Good
  <2> QED BY <1>1, <1>2, <2>1, ListInduction
<1> QED BY <1>3

(* One list after another falls if each does and the first is above.       *)
LEMMA ConcatFalls ==
    ASSUME NEW T, NEW f \in [T -> Int], NEW a \in Seq(T), NEW b \in Seq(T),
           Falling(a, f), Falling(b, f), \A x \in ToSet(a), y \in ToSet(b) : f[x] >= f[y]
    PROVE  Falling(a \o b, f)
<1> DEFINE Fits(l) == Falling(l, f) /\ \A x \in ToSet(a), y \in ToSet(l) : f[x] >= f[y]
           Good == {l \in Seq(T) : Fits(l) => Falling(a \o l, f)}
<1>1. <<>> \in Good
  <2>1. <<>> \in Seq(T) /\ a \o <<>> = a OBVIOUS
  <2> QED BY <2>1
<1>2. ASSUME NEW l \in Good, NEW x \in T PROVE Append(l, x) \in Good
  <2>1. Append(l, x) \in Seq(T) /\ a \o l \in Seq(T) OBVIOUS
  <2>2. ToSet(Append(l, x)) = ToSet(l) \cup {x} BY ToSetOfAppend
  <2>3. ToSet(a \o l) = ToSet(a) \cup ToSet(l) BY ToSetOfConcat
  <2>4. Falling(Append(l, x), f) <=> Falling(l, f) /\ \A y \in ToSet(l) : f[y] >= f[x]
    BY FallingAppend
  <2>5. Falling(Append(a \o l, x), f)
           <=> Falling(a \o l, f) /\ \A y \in ToSet(a \o l) : f[y] >= f[x]
    <3>1. \A k \in Seq(T) :
             Falling(Append(k, x), f) <=> Falling(k, f) /\ \A y \in ToSet(k) : f[y] >= f[x]
      BY FallingAppend
    <3> QED BY <2>1, <3>1
  <2>6. a \o Append(l, x) = Append(a \o l, x) BY ConcatAppend
  <2>7. Fits(l) => Falling(a \o l, f) OBVIOUS
  <2>8. ASSUME Fits(Append(l, x)) PROVE Falling(a \o Append(l, x), f)
    <3>1. Fits(l) /\ (\A y \in ToSet(a) : f[y] >= f[x]) /\ (\A y \in ToSet(l) : f[y] >= f[x])
      BY <2>2, <2>4, <2>8
    <3> HIDE DEF Good, Fits
    <3> QED BY <2>3, <2>5, <2>6, <2>7, <3>1
  <2> QED BY <2>1, <2>8
<1>3. b \in Good
  <2>1. Good \in SUBSET Seq(T) OBVIOUS
  <2> HIDE DEF Good, Fits
  <2> QED BY <1>1, <1>2, <2>1, ListInduction
<1> QED BY <1>3

-----------------------------------------------------------------------------
(* Ports.                                                                  *)

(* The ports of the Podfile, and those of the command line that are not    *)
(* among them.                                                             *)
LEMMA PortListIsAsked ==
    ASSUME NEW expose \in Seq(Int), NEW strategy, NEW flags \in Seq(Int)
    PROVE  /\ PortList(expose, strategy, flags) \in Seq(Int)
           /\ ToSet(PortList(expose, strategy, flags)) =
                ToSet(flags) \cup IF strategy = "manual" THEN {} ELSE ToSet(expose)
<1>1. CASE strategy = "manual" BY <1>1 DEF PortList
<1>2. CASE strategy # "manual"
  <2> DEFINE N == Len(flags)
             IsList(l) == l = [n \in 0..N |->
                                 IF n = 0 THEN expose
                                 ELSE IF Contains(expose, flags[n]) THEN l[n - 1]
                                 ELSE Append(l[n - 1], flags[n])]
             list == CHOOSE l : IsList(l)
  <2>1. PortList(expose, strategy, flags) = list[N] BY <1>2 DEF PortList
  <2>2. N \in Nat /\ flags \in [1..N -> Int] OBVIOUS
  <2>3. \A x : Contains(expose, x) <=> x \in ToSet(expose) BY DEF Contains, ToSet
  <2>4. \E l : IsList(l)
    <3> HIDE DEF N
    <3>1. PICK l : IsListing(l, N, flags, expose, ToSet(expose)) BY <2>2, ListedExists
    <3>2. IsList(l) BY <2>3, <3>1 DEF IsListing
    <3> QED BY <3>2
  <2>5. IsList(list)
    <3> HIDE DEF IsList
    <3> QED BY <2>4
  <2> HIDE DEF list
  <2>6. /\ list[0] = expose
        /\ \A n \in 1..N : list[n] = IF Contains(expose, flags[n]) THEN list[n - 1]
                                     ELSE Append(list[n - 1], flags[n])
    <3> HIDE DEF N
    <3>1. ASSUME NEW n \in 0..N
          PROVE  list[n] = IF n = 0 THEN expose
                           ELSE IF Contains(expose, flags[n]) THEN list[n - 1]
                           ELSE Append(list[n - 1], flags[n])
      BY <2>5
    <3> QED BY <2>2, <3>1
  <2> HIDE DEF N, IsList
  <2> DEFINE Good == {n \in 0..N : /\ list[n] \in Seq(Int)
                                   /\ ToSet(list[n]) = ToSet(expose) \cup {flags[i] : i \in 1..n}}
  <2>7. 0 \in Good BY <2>2, <2>6
  <2>8. ASSUME NEW n \in Nat, n \in Good, n < N PROVE n + 1 \in Good
    <3>1. {flags[i] : i \in 1..(n + 1)} = {flags[i] : i \in 1..n} \cup {flags[n + 1]} BY <2>8
    <3>2. n + 1 \in 1..N /\ n + 1 \in 0..N /\ (n + 1) - 1 = n BY <2>2, <2>8
    <3>3. list[n] \in Seq(Int) /\ flags[n + 1] \in Int BY <2>2, <2>8, <3>2
    <3>4. CASE Contains(expose, flags[n + 1])
      <4>1. list[n + 1] = list[n] BY <2>6, <3>2, <3>4
      <4>2. flags[n + 1] \in ToSet(expose) BY <2>3, <3>4
      <4> QED BY <2>8, <3>1, <3>2, <4>1, <4>2
    <3>5. CASE ~Contains(expose, flags[n + 1])
      <4>1. list[n + 1] = Append(list[n], flags[n + 1]) BY <2>6, <3>2, <3>5
      <4>2. ToSet(Append(list[n], flags[n + 1])) = ToSet(list[n]) \cup {flags[n + 1]}
        BY <3>3, ToSetOfAppend
      <4>3. Append(list[n], flags[n + 1]) \in Seq(Int) BY <3>3
      <4> QED BY <2>8, <3>1, <3>2, <4>1, <4>2, <4>3
    <3> QED BY <3>4, <3>5
  <2>9. N \in Good
    <3>1. Good \in SUBSET Nat OBVIOUS
    <3> HIDE DEF Good
    <3>2. \A n \in 0..N : n \in Good BY <2>2, <2>7, <2>8, <3>1, Induction
    <3> QED BY <2>2, <3>2
  <2>10. ToSet(flags) = {flags[i] : i \in 1..N} BY DEF ToSet, N
  <2> QED BY <1>2, <2>1, <2>9, <2>10
<1> QED BY <1>1, <1>2

(* The port of the host is the next free one within Reach, and the wanted  *)
(* one under expose.                                                       *)
LEMMA HostPortIsFree ==
    ASSUME NEW port \in 1..LastPort, NEW strategy, NEW taken,
           Candidates(port, strategy, taken) # {}
    PROVE  LET host == FindHostPort(port, strategy, taken)
               near == {q \in port..(port + Reach) : q <= LastPort /\ q \notin taken}
           IN
           /\ host \in near
           /\ \A q \in near : host <= q
           /\ strategy = "expose" => host = port
<1> DEFINE free == Candidates(port, strategy, taken)
           near == {q \in port..(port + Reach) : q <= LastPort /\ q \notin taken}
           host == FindHostPort(port, strategy, taken)
<1>1. LastPort \in Nat /\ Reach \in Nat BY PortsAssumption DEF PortsAssumption
<1>2. free \in SUBSET Nat BY <1>1 DEF Candidates
<1>3. \E p \in free : \A q \in free : p <= q
  <2>1. free # {} OBVIOUS
  <2> HIDE DEF free
  <2> QED BY <1>2, <2>1, LeastExists
<1>4. host \in free /\ \A q \in free : host <= q BY <1>3 DEF FindHostPort
<1>5. /\ host \in near /\ \A q \in near : host <= q
      /\ strategy = "expose" => host = port
  <2> HIDE DEF host
  <2>1. CASE port \notin taken BY <1>1, <1>4, <2>1 DEF Candidates
  <2>2. CASE port \in taken BY <1>1, <1>4, <2>2 DEF Candidates
  <2> QED BY <2>1, <2>2
<1> QED BY <1>5

(* Nothing is free above a taken port only if no port that might be tried  *)
(* is free.                                                                *)
LEMMA NoHostPort ==
    ASSUME NEW port \in 1..LastPort, NEW strategy, NEW taken,
           Candidates(port, strategy, taken) = {}
    PROVE  /\ port \in taken
           /\ \/ strategy = "expose"
              \/ {q \in port..(port + Reach) : q <= LastPort /\ q \notin taken} = {}
<1>1. LastPort \in Nat /\ Reach \in Nat BY PortsAssumption DEF PortsAssumption
<1> QED BY <1>1 DEF Candidates

\* What PortsAsPromised says of the answer that ResolvePortBindings gives.
Promised(expose, strategy, flags, taken, result) ==
    LET asked == ToSet(flags) \cup IF strategy = "manual" THEN {} ELSE ToSet(expose)
        near(p) == {q \in p..(p + Reach) : q <= LastPort /\ q \notin taken}
    IN  IF result.failed
        THEN \E p \in asked :
                \/ p \notin 1..LastPort
                \/ near(p) = {}
                \/ strategy = "expose" /\ p \in taken
        ELSE /\ {b.container : b \in ToSet(result.ports)} = asked
             /\ \A b \in ToSet(result.ports) :
                  /\ b.host \in near(b.container)
                  /\ \A q \in near(b.container) : b.host <= q
                  /\ strategy = "expose" => b.host = b.container

(* Whatever is exposed, asked for and taken, every port gets a port of the *)
(* host, or one of them cannot.                                            *)
LEMMA BindingsArePromised ==
    ASSUME NEW expose \in Seq(Int), NEW strategy, NEW flags \in Seq(Int), NEW taken
    PROVE  Promised(expose, strategy, flags, taken,
                    ResolvePortBindings(expose, strategy, flags, taken))
<1> DEFINE ports == PortList(expose, strategy, flags)
           asked == ToSet(flags) \cup IF strategy = "manual" THEN {} ELSE ToSet(expose)
           near(p) == {q \in p..(p + Reach) : q <= LastPort /\ q \notin taken}
           result == ResolvePortBindings(expose, strategy, flags, taken)
<1>1. ports \in Seq(Int) /\ ToSet(ports) = asked BY PortListIsAsked
<1>2. CASE \E p \in ToSet(ports) : p \notin 1..LastPort \/ Candidates(p, strategy, taken) = {}
  <2>1. result.failed BY <1>2 DEF ResolvePortBindings
  <2>2. PICK p \in asked : p \notin 1..LastPort \/ Candidates(p, strategy, taken) = {}
    BY <1>1, <1>2
  <2>3. CASE p \in 1..LastPort
    <3>1. p \in taken /\ (strategy = "expose" \/ near(p) = {})
      BY <2>2, <2>3, NoHostPort
    <3> QED BY <2>1, <2>2, <3>1 DEF Promised
  <2> QED BY <2>1, <2>2, <2>3 DEF Promised
<1>3. CASE ~ \E p \in ToSet(ports) : p \notin 1..LastPort \/ Candidates(p, strategy, taken) = {}
  <2> DEFINE bound == [i \in DOMAIN ports |->
                 [container |-> ports[i], host |-> FindHostPort(ports[i], strategy, taken)]]
  <2>1. result = [failed |-> FALSE, ports |-> bound] BY <1>3 DEF ResolvePortBindings
  <2>2. ~result.failed /\ result.ports = bound BY <2>1
  <2>3. ToSet(bound) = {[container |-> p, host |-> FindHostPort(p, strategy, taken)]
                          : p \in ToSet(ports)}
    BY DEF ToSet
  <2>4. {b.container : b \in ToSet(bound)} = asked
    <3>1. \A b \in ToSet(bound) : b.container \in ToSet(ports)
      <4> HIDE DEF ports, bound
      <4> QED BY <2>3
    <3>2. ASSUME NEW p \in ToSet(ports) PROVE \E b \in ToSet(bound) : b.container = p
      <4> DEFINE b == [container |-> p, host |-> FindHostPort(p, strategy, taken)]
      <4>1. b.container = p OBVIOUS
      <4>2. b \in ToSet(bound)
        <5> HIDE DEF ports, bound
        <5> QED BY <2>3
      <4> HIDE DEF b, bound
      <4> QED BY <4>1, <4>2
    <3> HIDE DEF ports, asked, bound
    <3> QED BY <1>1, <3>1, <3>2
  <2>5. ASSUME NEW b \in ToSet(bound)
        PROVE  /\ b.host \in near(b.container)
               /\ \A q \in near(b.container) : b.host <= q
               /\ strategy = "expose" => b.host = b.container
    <3>1. PICK p \in ToSet(ports) :
              b = [container |-> p, host |-> FindHostPort(p, strategy, taken)]
      <4> HIDE DEF ports, bound
      <4> QED BY <2>3
    <3>2. p \in 1..LastPort /\ Candidates(p, strategy, taken) # {} BY <1>3
    <3> QED BY <3>1, <3>2, HostPortIsFree
  <2>6. {b.container : b \in ToSet(result.ports)} = asked BY <2>2, <2>4
  <2>7. \A b \in ToSet(result.ports) :
            /\ b.host \in near(b.container)
            /\ \A q \in near(b.container) : b.host <= q
            /\ strategy = "expose" => b.host = b.container
    BY <2>2, <2>5
  <2>8. Promised(expose, strategy, flags, taken, result)
    <3> HIDE DEF result, bound
    <3> QED BY <2>2, <2>6, <2>7 DEF Promised
  <2> QED BY <2>8
<1> QED BY <1>2, <1>3

-----------------------------------------------------------------------------
(* Merged Podfiles.                                                        *)

\* m has the first n files merged, counted from the one that extends nothing.
IsMerged(m, N, files) ==
    m = [n \in 1..N |-> IF n = 1 THEN Last(files)
                        ELSE Merge(m[n - 1], files[Len(files) + 1 - n])]

(* The recursive function of MergeChain exists, for any number of files.   *)
LEMMA MergedExists ==
    ASSUME NEW N \in Nat, NEW files
    PROVE  \E m : IsMerged(m, N, files)
<1> DEFINE Good == {n \in Nat : \E m : IsMerged(m, n, files)}
<1>1. 0 \in Good
  <2> DEFINE m == [n \in 1..0 |-> 0]
  <2>1. IsMerged(m, 0, files) BY DEF IsMerged
  <2> HIDE DEF m
  <2> QED BY <2>1
<1>2. ASSUME NEW k \in Nat, k \in Good, k < N PROVE k + 1 \in Good
  <2>1. PICK f : IsMerged(f, k, files) BY <1>2
  <2> DEFINE last == IF k = 0 THEN Last(files) ELSE Merge(f[k], files[Len(files) - k])
             g == [n \in 1..(k + 1) |-> IF n \in 1..k THEN f[n] ELSE last]
  <2>2. \A n \in 1..k : f[n] = IF n = 1 THEN Last(files)
                               ELSE Merge(f[n - 1], files[Len(files) + 1 - n])
    BY <2>1 DEF IsMerged
  <2>3. ASSUME NEW n \in 1..(k + 1)
        PROVE  g[n] = IF n = 1 THEN Last(files)
                      ELSE Merge(g[n - 1], files[Len(files) + 1 - n])
    <3>1. CASE n \in 1..k
      <4>1. g[n] = f[n] /\ (n # 1 => g[n - 1] = f[n - 1]) BY <3>1
      <4> QED BY <2>2, <3>1, <4>1
    <3>2. CASE n = k + 1 /\ k = 0 BY <3>2
    <3>3. CASE n = k + 1 /\ k # 0
      <4>1. g[n] = Merge(f[k], files[Len(files) - k]) BY <3>3
      <4>2. g[n - 1] = f[k] BY <3>3
      <4>3. Len(files) + 1 - n = Len(files) - k BY <3>3
      <4> QED BY <3>3, <4>1, <4>2, <4>3
    <3> QED BY <3>1, <3>2, <3>3
  <2>4. IsMerged(g, k + 1, files) BY <2>3 DEF IsMerged
  <2> HIDE DEF g
  <2> QED BY <2>4
<1>3. N \in Good
  <2>1. Good \in SUBSET Nat OBVIOUS
  <2> HIDE DEF Good
  <2>2. \A n \in 0..N : n \in Good BY <1>1, <1>2, <2>1, Induction
  <2> QED BY <2>2
<1> QED BY <1>3

(* The steps of MergeChain.                                                *)
LEMMA MergeChainSteps ==
    ASSUME NEW files, Len(files) \in Nat \ {0}
    PROVE  \E m : /\ MergeChain(files) = m[Len(files)]
                  /\ m[1] = Last(files)
                  /\ \A n \in 2..Len(files) :
                       m[n] = Merge(m[n - 1], files[Len(files) + 1 - n])
<1> DEFINE N == Len(files)
           m == CHOOSE f : IsMerged(f, N, files)
<1>1. MergeChain(files) = m[N] BY DEF MergeChain, IsMerged
<1>2. IsMerged(m, N, files)
  <2> HIDE DEF N
  <2>1. N \in Nat BY DEF N
  <2> QED BY <2>1, MergedExists
<1> HIDE DEF m
<1>3. m[1] = Last(files) BY <1>2 DEF IsMerged
<1>4. ASSUME NEW n \in 2..N PROVE m[n] = Merge(m[n - 1], files[Len(files) + 1 - n])
  BY <1>2 DEF IsMerged
<1> QED BY <1>1, <1>3, <1>4

(* The ports that a Podfile exposes are a list, and those that it inherits *)
(* are.                                                                    *)
LEMMA MergeExposes ==
    ASSUME NEW base, NEW child, base.expose \in Seq(Int), child.expose \in Seq(Int)
    PROVE  Merge(base, child).expose \in Seq(Int)
<1>1. Merge(base, child).expose = Unique(base.expose \o child.expose) BY DEF Merge
<1>2. base.expose \o child.expose \in Seq(Int) OBVIOUS
<1> QED BY <1>1, <1>2, UniqueIsList

(* So are the ports exposed by a whole chain of Podfiles, merged.          *)
LEMMA ChainExposes ==
    ASSUME NEW files, Len(files) \in Nat \ {0},
           \A i \in 1..Len(files) : files[i].expose \in Seq(Int)
    PROVE  MergeChain(files).expose \in Seq(Int)
<1> DEFINE N == Len(files)
<1>1. PICK m : /\ MergeChain(files) = m[N]
               /\ m[1] = Last(files)
               /\ \A n \in 2..N : m[n] = Merge(m[n - 1], files[N + 1 - n])
  BY MergeChainSteps
<1> DEFINE Good == {n \in 0..N : n = 0 \/ m[n].expose \in Seq(Int)}
<1>2. 0 \in Good OBVIOUS
<1>3. ASSUME NEW n \in Nat, n \in Good, n < N PROVE n + 1 \in Good
  <2>1. CASE n = 0 BY <1>1, <2>1 DEF Last
  <2>2. CASE n # 0
    <3>1. m[n + 1] = Merge(m[n], files[N - n])
      <4>1. n + 1 \in 2..N /\ (n + 1) - 1 = n /\ N + 1 - (n + 1) = N - n BY <1>3, <2>2
      <4> HIDE DEF N
      <4> QED BY <1>1, <4>1
    <3>2. m[n].expose \in Seq(Int) /\ files[N - n].expose \in Seq(Int) BY <1>3, <2>2
    <3>3. m[n + 1].expose \in Seq(Int) BY <3>1, <3>2, MergeExposes
    <3> QED BY <1>3, <3>3
  <2> QED BY <2>1, <2>2
<1>4. N \in Good
  <2>1. Good \in SUBSET Nat /\ N \in Nat OBVIOUS
  <2> HIDE DEF Good, N
  <2>2. \A n \in 0..N : n \in Good BY <1>2, <1>3, <2>1, Induction
  <2> QED BY <2>1, <2>2
<1> QED BY <1>1, <1>4

-----------------------------------------------------------------------------
(* The way that extends leads.                                             *)

\* What a file can be.
Contents == {Malformed} \cup UNION {FilesOf(q) : q \in Problems}

(* A file that is there and well-formed has the fields of a Podfile,       *)
(* extends nothing or a reference, and exposes a list of ports.            *)
LEMMA ContentsTyped ==
    ASSUME NEW file \in Contents, file # Missing, file # Malformed
    PROVE  /\ DOMAIN file = DOMAIN Empty
           /\ file.extends \in Refs \cup {None}
           /\ file.expose \in Seq(Int)
  BY ProblemsAssumption DEF ProblemsAssumption, Contents

(* Defaults are filled in, and the ports left alone.                       *)
LEMMA ParseKeepsPorts ==
    ASSUME NEW file \in Contents, file # Missing, ParseRaw(file) # Malformed
    PROVE  ParseRaw(file).expose \in Seq(Int)
<1>1. file # Malformed BY DEF ParseRaw
<1>2. DOMAIN file = DOMAIN Empty /\ file.expose \in Seq(Int) BY <1>1, ContentsTyped
<1>3. "expose" \in DOMAIN file BY <1>2 DEF Empty
<1>4. ParseRaw(file).expose = file.expose
  <2> DEFINE g == DefaultShell(file)
  <2>1. "expose" \in DOMAIN g /\ g.expose = file.expose BY <1>3 DEF DefaultShell
  <2>2. ParseRaw(file) = DefaultBranches(g) BY DEF ParseRaw
  <2> HIDE DEF g
  <2>3. DefaultBranches(g).expose = g.expose BY <2>1 DEF DefaultBranches
  <2> QED BY <2>1, <2>2, <2>3
<1> QED BY <1>2, <1>4

(* The way that extends leads.                                             *)
LEMMA OnwardIsFile ==
    ASSUME problem \in Problems, NEW file \in Contents
    PROVE  Onward(file) \in Contents
<1>1. CASE Unsound(file) \/ file.extends = None BY <1>1 DEF Onward
<1>2. CASE ~(Unsound(file) \/ file.extends = None)
  <2>1. file # Missing /\ file # Malformed BY <1>2 DEF Unsound, ParseRaw
  <2>2. file.extends \in Refs BY <1>2, <2>1, ContentsTyped
  <2>3. /\ problem.cached[file.extends] \in FilesOf(problem)
        /\ problem.files[file.extends] \in FilesOf(problem)
    BY <2>2 DEF FilesOf
  <2> QED BY <1>2, <2>3 DEF Onward, Contents
<1> QED BY <1>1, <1>2

\* w follows the way for MaxDepth files.
IsWalk(w) == w = [n \in 0..MaxDepth |-> IF n = 0 THEN problem.first ELSE Onward(w[n - 1])]

(* The recursive function Walk exists.                                     *)
LEMMA WalkExists ==
    ASSUME problem \in Problems
    PROVE  \E w : IsWalk(w)
<1> DEFINE step == [n \in 1..MaxDepth |-> [file \in Contents |-> Onward(file)]]
<1>1. MaxDepth \in Nat BY PodfilesAssumption DEF PodfilesAssumption
<1>2. step \in [1..MaxDepth -> [Contents -> Contents]] BY OnwardIsFile
<1>3. problem.first \in Contents BY DEF Contents, FilesOf
<1>4. PICK w : Iterates(w, MaxDepth, Contents, problem.first, step)
  <2> HIDE DEF step
  <2> QED BY <1>1, <1>2, <1>3, IterationExists
<1>5. /\ w \in [0..MaxDepth -> Contents] /\ w[0] = problem.first
      /\ \A n \in 1..MaxDepth : w[n] = step[n][w[n - 1]]
  BY <1>4 DEF Iterates
<1>6. ASSUME NEW n \in 0..MaxDepth
      PROVE  w[n] = IF n = 0 THEN problem.first ELSE Onward(w[n - 1])
  <2>1. CASE n = 0 BY <1>5, <2>1
  <2>2. CASE n # 0
    <3>1. n \in 1..MaxDepth /\ w[n - 1] \in Contents BY <1>1, <1>5, <2>2
    <3>2. w[n] = step[n][w[n - 1]] BY <1>5, <3>1
    <3> QED BY <2>2, <3>1, <3>2
  <2> QED BY <2>1, <2>2
<1>7. IsWalk(w) BY <1>5, <1>6 DEF IsWalk
<1> QED BY <1>7

(* Every file on it is where the one before leads.                         *)
LEMMA WalkSteps ==
    ASSUME problem \in Problems
    PROVE  /\ Walk[0] = problem.first
           /\ \A n \in 1..MaxDepth : Walk[n] = Onward(Walk[n - 1])
<1>1. Walk = CHOOSE w : IsWalk(w) BY DEF Walk, IsWalk
<1>2. IsWalk(Walk) BY <1>1, WalkExists
<1>3. MaxDepth \in Nat BY PodfilesAssumption DEF PodfilesAssumption
<1>4. ASSUME NEW n \in 0..MaxDepth
      PROVE  Walk[n] = IF n = 0 THEN problem.first ELSE Onward(Walk[n - 1])
  BY <1>2 DEF IsWalk
<1> QED BY <1>3, <1>4

\* A file that leads nowhere.
Ends(file) == Unsound(file) \/ file.extends = None

(* The way ends where it first leads nowhere.                              *)
LEMMA WalkStays ==
    ASSUME problem \in Problems, NEW k \in 0..MaxDepth, Ends(Walk[k])
    PROVE  Walk[MaxDepth] = Walk[k]
<1> DEFINE Good == {n \in 0..MaxDepth : n >= k => Walk[n] = Walk[k]}
<1>1. MaxDepth \in Nat BY PodfilesAssumption DEF PodfilesAssumption
<1>2. 0 \in Good BY <1>1
<1>3. ASSUME NEW n \in Nat, n \in Good, n < MaxDepth PROVE n + 1 \in Good
  <2>1. CASE n + 1 = k BY <1>3, <2>1
  <2>2. CASE n >= k
    <3>1. n + 1 \in 1..MaxDepth /\ (n + 1) - 1 = n BY <1>1, <1>3
    <3>2. Walk[n + 1] = Onward(Walk[n]) BY <3>1, WalkSteps
    <3>3. Walk[n] = Walk[k] BY <1>3, <2>2
    <3>4. Onward(Walk[k]) = Walk[k] BY DEF Onward, Ends
    <3> QED BY <1>1, <1>3, <3>2, <3>3, <3>4
  <2>3. CASE n + 1 < k BY <1>1, <1>3, <2>3
  <2> QED BY <1>1, <2>1, <2>2, <2>3
<1>4. \A n \in 0..MaxDepth : n \in Good
  <2>1. Good \in SUBSET Nat OBVIOUS
  <2> HIDE DEF Good
  <2> QED BY <1>1, <1>2, <1>3, <2>1, Induction
<1> QED BY <1>1, <1>4

(* A way that comes to a reference again never ends.                       *)
LEMMA WalkCycles ==
    ASSUME problem \in Problems, NEW m \in Nat, NEW n \in Nat, m < n, n < MaxDepth,
           \A j \in 0..n : ~Ends(Walk[j]),
           Walk[m].extends = Walk[n].extends
    PROVE  ~Ends(Walk[MaxDepth])
<1> DEFINE Good == {k \in 0..MaxDepth : \E j \in 0..n : Walk[k] = Walk[j]}
<1>1. MaxDepth \in Nat BY PodfilesAssumption DEF PodfilesAssumption
<1>2. 0 \in Good BY <1>1
<1>3. Walk[n + 1] = Walk[m + 1]
  <2>1. n + 1 \in 1..MaxDepth /\ m + 1 \in 1..MaxDepth BY <1>1
  <2>2. Walk[n + 1] = Onward(Walk[n]) /\ Walk[m + 1] = Onward(Walk[m])
    <3>1. (n + 1) - 1 = n /\ (m + 1) - 1 = m OBVIOUS
    <3> QED BY <2>1, <3>1, WalkSteps
  <2>3. ~Ends(Walk[m]) /\ ~Ends(Walk[n]) OBVIOUS
  <2> QED BY <2>2, <2>3 DEF Onward, Ends
<1>4. ASSUME NEW k \in Nat, k \in Good, k < MaxDepth PROVE k + 1 \in Good
  <2>1. PICK j \in 0..n : Walk[k] = Walk[j] BY <1>4
  <2>2. /\ k + 1 \in 1..MaxDepth /\ (k + 1) - 1 = k
        /\ j + 1 \in 1..MaxDepth /\ (j + 1) - 1 = j
    BY <1>1, <1>4
  <2>3. Walk[k + 1] = Onward(Walk[k]) /\ Walk[j + 1] = Onward(Walk[j])
    BY <2>2, WalkSteps
  <2>4. Walk[k + 1] = Walk[j + 1] BY <2>1, <2>3
  <2>5. CASE j < n BY <1>1, <1>4, <2>4, <2>5
  <2>6. CASE j = n BY <1>1, <1>3, <1>4, <2>4, <2>6
  <2> QED BY <2>5, <2>6
<1>5. MaxDepth \in Good
  <2>1. Good \in SUBSET Nat OBVIOUS
  <2> HIDE DEF Good
  <2>2. \A k \in 0..MaxDepth : k \in Good BY <1>1, <1>2, <1>4, <2>1, Induction
  <2> QED BY <1>1, <2>2
<1> QED BY <1>5

-----------------------------------------------------------------------------
(* The inductive invariant.                                                *)

\* The first n files extend different references.
Distinct(n) == \A i, j \in 1..n : chain[i].extends = chain[j].extends => i = j

\* The files so far, from the first on: none is missing, all but the last are well-formed
\* and extend what has been visited, each something else.
ChainKnown ==
    /\ chain \in Seq(Contents \ {Missing})
    /\ chain[1] = problem.first
    /\ visited \subseteq Refs
    /\ IsFiniteSet(visited)
    /\ Len(chain) = Cardinality(visited) + 1
    /\ Cardinality(visited) <= MaxDepth
    /\ \A i \in 1..(Len(chain) - 1) :
         ParseRaw(chain[i]) # Malformed /\ chain[i].extends \in visited
    /\ \A r \in visited : \E i \in 1..(Len(chain) - 1) : chain[i].extends = r
    /\ Distinct(Len(chain) - 1)

\* The answer is about the last of them.
AnswerKnown ==
    /\ answer \in Failures \cup {None, "resolved"}
    /\ answer = Malformed => ParseRaw(Current) = Malformed
    /\ answer \in {"resolved", Missing, Looping, Endless} => ParseRaw(Current) # Malformed
    /\ answer = "resolved" => Current.extends = None /\ podfile = MergeChain(Parsed)
    /\ answer = Missing => Current.extends \in Refs /\ Cardinality(visited) < MaxDepth
    /\ answer = Looping => Current.extends \in visited /\ Cardinality(visited) < MaxDepth
    /\ answer = Endless => Current.extends # None /\ Cardinality(visited) >= MaxDepth
    /\ bindings # None =>
         /\ answer = "resolved"
         /\ bindings = ResolvePortBindings(podfile.expose,
                          Or(podfile.scalars["strategy"], "auto"), problem.flags, problem.taken)

\* A file of the cache that was rewritten is never again what it was.
CacheKnown ==
    /\ DOMAIN cached = Refs
    /\ writing \in Shorthands \cup {None}
    /\ \A r \in Refs :
         /\ cached[r] \in {Malformed, problem.cached[r], problem.upstream[r]}
         /\ writing # r => cached[r] \in {problem.cached[r], problem.upstream[r]}
         /\ writing = r \/ cached[r] # problem.cached[r] =>
              problem.upstream[r] # problem.cached[r]

\* Nothing of the cache was rewritten.
Intact == \A r \in Refs : cached[r] = problem.cached[r]

\* As long as none was, the files are those on the way that extends leads.
WalkKnown ==
    Intact =>
        /\ \A i \in 1..Len(chain) : chain[i] = Walk[i - 1]
        /\ answer = Missing => Walk[Len(chain)] = Missing

Invariant ==
    problem \in Problems /\ ChainKnown /\ AnswerKnown /\ CacheKnown /\ WalkKnown

(* The answers differ.                                                     *)
LEMMA AnswersDiffer ==
    /\ None \notin {"resolved", Malformed, Missing, Looping, Endless}
    /\ "resolved" \notin {Malformed, Missing, Looping, Endless}
    /\ Malformed \notin {Missing, Looping, Endless}
    /\ Missing \notin {Looping, Endless}
    /\ Looping # Endless
<1> DEFINE list == <<None, "resolved", Malformed, Missing, Looping, Endless>>
<1>1. \A i, j \in 1..6 : list[i] = list[j] => i = j
  BY PodfilesAssumption DEF PodfilesAssumption, IsInjective
<1> QED BY <1>1

(* The last file.                                                          *)
LEMMA CurrentKnown ==
    ASSUME ChainKnown
    PROVE  /\ Len(chain) \in Nat \ {0} /\ Cardinality(visited) \in Nat
           /\ Current = chain[Len(chain)]
           /\ Current \in Contents \ {Missing}
           /\ ParseRaw(Current) # Malformed => Current.extends \in Refs \cup {None}
<1>1. Cardinality(visited) \in Nat BY FS_CardinalityType DEF ChainKnown
<1>2. Len(chain) \in Nat \ {0} BY <1>1 DEF ChainKnown
<1>3. Current = chain[Len(chain)] BY DEF Current, Last
<1>4. Current \in Contents \ {Missing} BY <1>2, <1>3 DEF ChainKnown
<1>5. ParseRaw(Current) # Malformed => Current # Malformed BY DEF ParseRaw
<1> QED BY <1>1, <1>2, <1>3, <1>4, <1>5, ContentsTyped

(* What is true of the files stays true while they stay the same.          *)
LEMMA SameChain ==
    ASSUME Invariant, UNCHANGED <<problem, visited, chain>>
    PROVE  /\ problem' \in Problems /\ ChainKnown'
           /\ Current' = Current /\ Parsed' = Parsed /\ Walk' = Walk
<1>1. chain' = chain /\ visited' = visited /\ problem' = problem OBVIOUS
<1>2. Walk' = Walk BY <1>1 DEF Walk, Onward
<1>3. ChainKnown' BY <1>1 DEF Invariant, ChainKnown, Distinct
<1>4. Current' = Current /\ Parsed' = Parsed BY <1>1 DEF Current, Parsed
<1> QED BY <1>1, <1>2, <1>3, <1>4 DEF Invariant

(* An error ends it.                                                       *)
LEMMA FailKeeps ==
    ASSUME Invariant, answer = None, NEW why, Fail(why),
           \/ why = Malformed /\ ParseRaw(Current) = Malformed
           \/ ParseRaw(Current) # Malformed
              /\ \/ why = Missing /\ Current.extends \in Refs /\ Cardinality(visited) < MaxDepth
                    /\ (Intact => Walk[Len(chain)] = Missing)
                 \/ why = Looping /\ Current.extends \in visited
                    /\ Cardinality(visited) < MaxDepth
                 \/ why = Endless /\ Current.extends # None /\ Cardinality(visited) >= MaxDepth
    PROVE  Invariant'
<1>1. UNCHANGED <<problem, cached, writing, visited, chain, podfile, bindings>> /\ answer' = why
  BY DEF Fail
<1>2. bindings = None BY AnswersDiffer DEF Invariant, AnswerKnown
<1>3. CacheKnown' BY <1>1 DEF Invariant, CacheKnown
<1>4. /\ problem' \in Problems /\ ChainKnown'
      /\ Current' = Current /\ Parsed' = Parsed /\ Walk' = Walk
  BY <1>1, SameChain
<1>5. AnswerKnown'
  BY <1>1, <1>2, <1>4, AnswersDiffer DEF AnswerKnown, Failures
<1>6. WalkKnown'
  <2>1. Intact' => Intact BY <1>1 DEF Intact
  <2>2. Intact => (why = Missing => Walk[Len(chain)] = Missing)
    BY AnswersDiffer
  <2>3. Intact => \A i \in 1..Len(chain) : chain[i] = Walk[i - 1] BY DEF Invariant, WalkKnown
  <2> QED BY <1>1, <1>4, <2>1, <2>2, <2>3 DEF WalkKnown
<1> QED BY <1>3, <1>4, <1>5, <1>6 DEF Invariant

(* The last file extends nothing: the chain is merged, and the answer is   *)
(* the merged Podfile.                                                     *)
LEMMA RootKeeps ==
    ASSUME Invariant, Root
    PROVE  Invariant'
<1>1. /\ UNCHANGED <<problem, cached, writing, visited, chain, bindings>>
      /\ answer = None /\ answer' = "resolved" /\ podfile' = MergeChain(Parsed)
      /\ ParseRaw(Current) # Malformed /\ Current.extends = None
  BY DEF Root, Resolving
<1>2. bindings = None BY <1>1, AnswersDiffer DEF Invariant, AnswerKnown
<1>3. CacheKnown' BY <1>1 DEF Invariant, CacheKnown
<1>4. /\ problem' \in Problems /\ ChainKnown'
      /\ Current' = Current /\ Parsed' = Parsed /\ Walk' = Walk
  BY <1>1, SameChain
<1>5. AnswerKnown'
  BY <1>1, <1>2, <1>4, AnswersDiffer DEF AnswerKnown, Failures
<1>6. WalkKnown'
  BY <1>1, <1>4, AnswersDiffer DEF Invariant, WalkKnown, Intact
<1> QED BY <1>3, <1>4, <1>5, <1>6 DEF Invariant

(* Ports are bound for a resolved Podfile, and change nothing else.        *)
LEMMA BindKeeps ==
    ASSUME Invariant, BindPorts
    PROVE  Invariant'
<1>1. /\ UNCHANGED <<problem, cached, writing, visited, chain, answer, podfile>>
      /\ answer = "resolved"
      /\ bindings' = ResolvePortBindings(podfile.expose,
                        Or(podfile.scalars["strategy"], "auto"), problem.flags, problem.taken)
  BY DEF BindPorts
<1>2. CacheKnown' BY <1>1 DEF Invariant, CacheKnown
<1>3. /\ problem' \in Problems /\ ChainKnown'
      /\ Current' = Current /\ Parsed' = Parsed /\ Walk' = Walk
  BY <1>1, SameChain
<1>4. AnswerKnown'
  BY <1>1, <1>3, AnswersDiffer DEF Invariant, AnswerKnown
<1>5. WalkKnown' BY <1>1, <1>3 DEF Invariant, WalkKnown, Intact
<1> QED BY <1>2, <1>3, <1>4, <1>5 DEF Invariant

(* Where the chain goes on is where the way does, if the registry is what  *)
(* it was.                                                                 *)
LEMMA SourceOnward ==
    ASSUME Invariant, ParseRaw(Current) # Malformed, Current.extends \in Refs,
           Cardinality(visited) < MaxDepth
    PROVE  Intact => Walk[Len(chain)] = Source(Current.extends)
<1> SUFFICES ASSUME Intact PROVE Walk[Len(chain)] = Source(Current.extends) OBVIOUS
<1>1. /\ Len(chain) \in Nat \ {0} /\ Cardinality(visited) \in Nat
      /\ Current = chain[Len(chain)] /\ Current # Missing
  BY CurrentKnown DEF Invariant
<1>2. Len(chain) \in 1..MaxDepth
  BY <1>1, PodfilesAssumption DEF PodfilesAssumption, Invariant, ChainKnown
<1>3. Walk[Len(chain)] = Onward(Walk[Len(chain) - 1]) BY <1>2, WalkSteps DEF Invariant
<1>4. Walk[Len(chain) - 1] = Current BY <1>1, <1>2 DEF Invariant, WalkKnown
<1>5. None \notin Refs BY PodfilesAssumption DEF PodfilesAssumption
<1>6. cached[Current.extends] = problem.cached[Current.extends] BY DEF Intact
<1> QED BY <1>1, <1>3, <1>4, <1>5, <1>6 DEF Onward, Unsound, Source

(* The file that is extended is the next of the way: the chain goes on with*)
(* it, or ends because it is missing.                                      *)
LEMMA DescendKeeps ==
    ASSUME Invariant, Descend
    PROVE  Invariant'
<1> DEFINE r == Current.extends
           n == Len(chain)
<1>1. /\ answer = None /\ ParseRaw(Current) # Malformed
      /\ r \in Refs /\ r \notin visited /\ Cardinality(visited) < MaxDepth
  BY DEF Descend, Resolving
<1>2. Intact => Walk[n] = Source(r) BY <1>1, SourceOnward
<1>3. CASE Source(r) = Missing
  <2>1. Fail(Missing) BY <1>3 DEF Descend
  <2> QED BY <1>1, <1>2, <1>3, <2>1, FailKeeps
<1>4. CASE Source(r) # Missing
  <2>1. /\ visited' = visited \cup {r} /\ chain' = Append(chain, Source(r))
        /\ UNCHANGED <<problem, cached, writing, answer, podfile, bindings>>
    BY <1>4 DEF Descend
  <2>2. /\ n \in Nat \ {0} /\ Cardinality(visited) \in Nat /\ Current = chain[n]
        /\ chain \in Seq(Contents \ {Missing}) /\ n = Cardinality(visited) + 1
    BY CurrentKnown DEF Invariant, ChainKnown
  <2>3. Source(r) \in Contents \ {Missing}
    <3>1. cached[r] \in {Malformed, problem.cached[r], problem.upstream[r]}
      BY <1>1 DEF Invariant, CacheKnown
    <3>2. {problem.cached[r], problem.upstream[r], problem.files[r]} \subseteq FilesOf(problem)
      BY <1>1 DEF FilesOf
    <3> QED BY <1>4, <3>1, <3>2 DEF Source, Contents, Invariant
  <2>4. /\ chain' \in Seq(Contents \ {Missing}) /\ Len(chain') = n + 1
        /\ \A i \in 1..n : chain'[i] = chain[i]
        /\ chain'[n + 1] = Source(r)
    BY <2>1, <2>2, <2>3
  <2>5. /\ IsFiniteSet(visited') /\ Cardinality(visited') = Cardinality(visited) + 1
    BY <1>1, <2>1, FS_AddElement DEF Invariant, ChainKnown
  <2>6. ChainKnown'
    <3>1. Len(chain') = Cardinality(visited') + 1 /\ Cardinality(visited') <= MaxDepth
      BY <1>1, <2>2, <2>4, <2>5, PodfilesAssumption DEF PodfilesAssumption
    <3>2. Len(chain') - 1 = n BY <2>2, <2>4
    <3>3. ASSUME NEW i \in 1..n
          PROVE  ParseRaw(chain'[i]) # Malformed /\ chain'[i].extends \in visited'
      <4>1. CASE i = n BY <1>1, <2>1, <2>2, <2>4, <4>1
      <4>2. CASE i \in 1..(n - 1) BY <2>1, <2>2, <2>4, <4>2 DEF Invariant, ChainKnown
      <4> QED BY <2>2, <4>1, <4>2
    <3>4. ASSUME NEW v \in visited' PROVE \E i \in 1..n : chain'[i].extends = v
      <4>1. CASE v = r BY <2>2, <2>4, <4>1
      <4>2. CASE v \in visited
        <5>1. PICK i \in 1..(n - 1) : chain[i].extends = v BY <4>2 DEF Invariant, ChainKnown
        <5> QED BY <2>2, <2>4, <5>1
      <4> QED BY <2>1, <4>1, <4>2
    <3>5. \A i, j \in 1..n : chain'[i].extends = chain'[j].extends => i = j
      <4>1. \A i \in 1..(n - 1) : chain[i].extends # r
        BY <1>1 DEF Invariant, ChainKnown
      <4>2. \A i, j \in 1..n : chain[i].extends = chain[j].extends => i = j
        <5>1. Distinct(n - 1) BY DEF Invariant, ChainKnown
        <5>2. \A i \in 1..n : i = n \/ i \in 1..(n - 1) BY <2>2
        <5> QED BY <2>2, <4>1, <5>1, <5>2 DEF Distinct
      <4> QED BY <2>4, <4>2
    <3>6. visited' \subseteq Refs BY <1>1, <2>1 DEF Invariant, ChainKnown
    <3>7. chain'[1] = problem'.first BY <2>1, <2>2, <2>4 DEF Invariant, ChainKnown
    <3> QED
      BY <2>4, <2>5, <3>1, <3>2, <3>3, <3>4, <3>5, <3>6, <3>7 DEF ChainKnown, Distinct
  <2>7. AnswerKnown'
    BY <1>1, <2>1, AnswersDiffer DEF Invariant, AnswerKnown
  <2>8. CacheKnown' BY <2>1 DEF Invariant, CacheKnown
  <2>9. WalkKnown'
    <3>1. Walk' = Walk /\ (Intact' => Intact) BY <2>1 DEF Walk, Onward, Intact
    <3>2. Intact => \A i \in 1..n : chain[i] = Walk[i - 1] BY DEF Invariant, WalkKnown
    <3>3. Intact => \A i \in 1..(n + 1) : chain'[i] = Walk[i - 1]
      BY <1>2, <2>2, <2>4, <3>2
    <3> QED BY <1>1, <2>1, <2>4, <3>1, <3>3, AnswersDiffer DEF WalkKnown
  <2> QED BY <2>1, <2>6, <2>7, <2>8, <2>9 DEF Invariant
<1> QED BY <1>3, <1>4

(* Refreshing the cache leaves the chain alone, and never restores a file. *)
LEMMA RefreshKeeps ==
    ASSUME Invariant, Refresh
    PROVE  Invariant'
<1>1. UNCHANGED <<problem, visited, chain, answer, podfile, bindings>>
  BY DEF Refresh, Truncate, Write
<1>2. /\ problem' \in Problems /\ ChainKnown'
      /\ Current' = Current /\ Parsed' = Parsed /\ Walk' = Walk
  BY <1>1, SameChain
<1>3. AnswerKnown' BY <1>1, <1>2 DEF Invariant, AnswerKnown
<1>4. PICK r \in Shorthands : Truncate(r) \/ Write(r) BY DEF Refresh
<1>5. r \in Refs /\ None \notin Refs BY <1>4, PodfilesAssumption DEF PodfilesAssumption
<1>6. /\ DOMAIN cached' = Refs
      /\ \A s \in Refs \ {r} : cached'[s] = cached[s]
  BY <1>4 DEF Truncate, Write, Invariant, CacheKnown
<1>7. CASE Truncate(r)
  <2>1. /\ writing = None /\ writing' = r /\ cached'[r] = Malformed
        /\ cached[r] # problem.upstream[r]
    BY <1>5, <1>7 DEF Truncate, Invariant, CacheKnown
  <2>2. cached[r] = problem.cached[r] BY <1>5, <2>1 DEF Invariant, CacheKnown
  <2>3. CacheKnown'
    BY <1>1, <1>5, <1>6, <2>1, <2>2 DEF Invariant, CacheKnown
  <2>4. Intact' => Intact BY <1>1, <1>6, <2>2 DEF Intact
  <2>5. WalkKnown' BY <1>1, <1>2, <2>4 DEF Invariant, WalkKnown
  <2> QED BY <1>2, <1>3, <2>3, <2>5 DEF Invariant
<1>8. CASE Write(r)
  <2>1. writing = r /\ writing' = None /\ cached'[r] = problem.upstream[r]
    BY <1>5, <1>8 DEF Write, Invariant, CacheKnown
  <2>2. problem.upstream[r] # problem.cached[r] BY <1>5, <2>1 DEF Invariant, CacheKnown
  <2>3. CacheKnown'
    BY <1>1, <1>5, <1>6, <2>1, <2>2 DEF Invariant, CacheKnown
  <2>4. ~Intact' BY <1>1, <1>5, <2>1, <2>2 DEF Intact
  <2>5. WalkKnown' BY <2>4 DEF WalkKnown
  <2> QED BY <1>2, <1>3, <2>3, <2>5 DEF Invariant
<1> QED BY <1>4, <1>7, <1>8

(* Whatever is extended, and whatever becomes of the cache: the chain is   *)
(* made of different references, the answer is about its last file, and    *)
(* the chain is the way that extends leads as long as no file of the cache *)
(* was rewritten.                                                          *)
THEOREM InvariantHolds == Spec => []Invariant
<1>1. Init => Invariant
  <2> SUFFICES ASSUME Init PROVE Invariant OBVIOUS
  <2>1. /\ problem \in Problems /\ cached = problem.cached /\ writing = None
        /\ visited = {} /\ chain = <<problem.first>> /\ answer = None /\ bindings = None
    BY DEF Init
  <2>2. problem.first \in Contents \ {Missing} /\ DOMAIN problem.cached = Refs
    BY <2>1, ProblemsAssumption DEF ProblemsAssumption, Contents, FilesOf
  <2>3. ChainKnown
    <3>1. Len(chain) = 1 /\ chain \in Seq(Contents \ {Missing}) BY <2>1, <2>2
    <3>2. IsFiniteSet(visited) /\ Cardinality(visited) = 0 BY <2>1, FS_EmptySet
    <3> QED BY <2>1, <3>1, <3>2, PodfilesAssumption DEF PodfilesAssumption, ChainKnown, Distinct
  <2>4. AnswerKnown BY <2>1, AnswersDiffer DEF AnswerKnown
  <2>5. CacheKnown BY <2>1, <2>2, PodfilesAssumption DEF PodfilesAssumption, CacheKnown
  <2>6. WalkKnown
    <3>1. chain[1] = Walk[0] /\ Len(chain) = 1 BY <2>1, WalkSteps
    <3> QED BY <2>1, <3>1, AnswersDiffer DEF WalkKnown
  <2> QED BY <2>1, <2>3, <2>4, <2>5, <2>6 DEF Invariant
<1>2. Invariant /\ [Next]_vars => Invariant'
  <2> SUFFICES ASSUME Invariant, [Next]_vars PROVE Invariant' OBVIOUS
  <2>1. CASE FirstMalformed BY <2>1, FailKeeps DEF FirstMalformed
  <2>2. CASE TooDeep BY <2>2, FailKeeps DEF TooDeep, Resolving
  <2>3. CASE Circular BY <2>3, FailKeeps DEF Circular, Resolving
  <2>4. CASE UNCHANGED vars
    <3>1. UNCHANGED <<problem, cached, writing, visited, chain, answer, podfile, bindings>>
      BY <2>4 DEF vars
    <3>2. problem' \in Problems /\ ChainKnown' /\ Current' = Current /\ Parsed' = Parsed
          /\ Walk' = Walk
      BY <3>1, SameChain
    <3>3. AnswerKnown' BY <3>1, <3>2 DEF Invariant, AnswerKnown
    <3>4. CacheKnown' BY <3>1 DEF Invariant, CacheKnown
    <3>5. WalkKnown' BY <3>1, <3>2 DEF Invariant, WalkKnown, Intact
    <3> QED BY <3>2, <3>3, <3>4, <3>5 DEF Invariant
  <2> QED
    BY <2>1, <2>2, <2>3, <2>4, RootKeeps, DescendKeeps, BindKeeps, RefreshKeeps
    DEF Next, Resolve
<1> QED BY <1>1, <1>2, PTL DEF Spec

(* A chain is never longer than MaxDepth references and its first file, a  *)
(* Podfile is resolved from well-formed files only, and ports are          *)
(* forwarded only for a resolved one.                                      *)
THEOREM TypeCorrect == Spec => []TypeOK
<1>1. Invariant => TypeOK
  <2> SUFFICES ASSUME Invariant PROVE TypeOK OBVIOUS
  <2>1. ASSUME answer = "resolved", NEW i \in DOMAIN chain PROVE Parsed[i] # Malformed
    <3>1. /\ Len(chain) \in Nat \ {0} /\ Current = chain[Len(chain)] /\ DOMAIN chain = 1..Len(chain)
      BY CurrentKnown DEF Invariant, ChainKnown
    <3>2. CASE i = Len(chain)
      BY <2>1, <3>1, <3>2 DEF Invariant, AnswerKnown, Parsed
    <3>3. CASE i \in 1..(Len(chain) - 1)
      BY <2>1, <3>1, <3>3 DEF Invariant, ChainKnown, Parsed
    <3> QED BY <3>1, <3>2, <3>3
  <2> QED BY <2>1 DEF Invariant, ChainKnown, AnswerKnown, CacheKnown, TypeOK
<1> QED BY <1>1, InvariantHolds, PTL

(* A Podfile is resolved exactly if the way that extends leads ends within *)
(* MaxDepth files at one that extends nothing; otherwise the answer says   *)
(* whether a file is missing or malformed, or the way loops or is too long.*)
THEOREM AnswersAreRight == Spec => []AnswerIsRight
<1>1. Invariant => AnswerIsRight
  <2> SUFFICES ASSUME Invariant, answer # None, cached = problem.cached
               PROVE  AnswerIsRight
    BY DEF AnswerIsRight
  <2> DEFINE end == Walk[MaxDepth]
             n == Len(chain)
  <2>1. Intact BY DEF Intact
  <2>2. \A i \in 1..n : chain[i] = Walk[i - 1] BY <2>1 DEF Invariant, WalkKnown
  <2>3. /\ n \in Nat \ {0} /\ Cardinality(visited) \in Nat /\ n = Cardinality(visited) + 1
        /\ Cardinality(visited) <= MaxDepth /\ MaxDepth \in Nat
        /\ Current = chain[n] /\ Current # Missing
    BY CurrentKnown, PodfilesAssumption DEF PodfilesAssumption, Invariant, ChainKnown
  <2>4. Current = Walk[n - 1] /\ n - 1 \in 0..MaxDepth BY <2>2, <2>3
  <2>5. None \notin Refs BY PodfilesAssumption DEF PodfilesAssumption
  <2>6. CASE answer = Malformed
    <3>1. Unsound(Current) BY <2>6 DEF Invariant, AnswerKnown, Unsound
    <3>2. end = Current BY <2>4, <3>1, WalkStays DEF Ends, Invariant
    <3> QED BY <2>3, <2>6, <3>1, <3>2 DEF AnswerIsRight
  <2>7. CASE answer = "resolved"
    <3>1. ~Unsound(Current) /\ Current.extends = None
      BY <2>3, <2>7 DEF Invariant, AnswerKnown, Unsound
    <3>2. end = Current BY <2>4, <3>1, WalkStays DEF Ends, Invariant
    <3> QED BY <2>3, <2>7, <3>1, <3>2 DEF AnswerIsRight
  <2>8. CASE answer = Missing
    <3>1. Walk[n] = Missing /\ n \in 0..MaxDepth
      BY <2>1, <2>3, <2>8 DEF Invariant, WalkKnown, AnswerKnown
    <3>2. end = Missing BY <3>1, WalkStays DEF Ends, Unsound, Invariant
    <3> QED BY <2>8, <3>2 DEF AnswerIsRight, Unsound
  <2>9. \A j \in 0..(n - 2) : ~Ends(Walk[j]) /\ Walk[j].extends \in visited
    <3> SUFFICES ASSUME NEW j \in 0..(n - 2)
                 PROVE  ~Ends(Walk[j]) /\ Walk[j].extends \in visited
      OBVIOUS
    <3>1. j + 1 \in 1..(n - 1) /\ (j + 1) - 1 = j BY <2>3
    <3>2. Walk[j] = chain[j + 1] BY <2>2, <2>3, <3>1
    <3>3. ParseRaw(chain[j + 1]) # Malformed /\ chain[j + 1].extends \in visited
          /\ chain[j + 1] # Missing
      BY <2>3, <3>1 DEF Invariant, ChainKnown
    <3>4. visited \subseteq Refs BY DEF Invariant, ChainKnown
    <3> QED BY <2>5, <3>2, <3>3, <3>4 DEF Ends, Unsound
  <2>10. CASE answer = Looping
    <3>1. /\ ParseRaw(Current) # Malformed /\ Current.extends \in visited
          /\ Cardinality(visited) < MaxDepth
      BY <2>10 DEF Invariant, AnswerKnown
    <3>2. PICK i \in 1..(n - 1) : chain[i].extends = Current.extends
      BY <3>1 DEF Invariant, ChainKnown
    <3>3. Walk[i - 1].extends = Walk[n - 1].extends BY <2>2, <2>3, <2>4, <3>2
    <3>4. ~Ends(Walk[n - 1])
      BY <2>3, <2>4, <2>5, <3>1 DEF Invariant, ChainKnown, Ends, Unsound
    <3>5. \A j \in 0..(n - 1) : ~Ends(Walk[j]) BY <2>3, <2>9, <3>4
    <3>6. i - 1 \in Nat /\ n - 1 \in Nat /\ i - 1 < n - 1 /\ n - 1 < MaxDepth
      BY <2>3, <3>1, <3>2
    <3>7. ~Ends(end) BY <3>3, <3>5, <3>6, WalkCycles DEF Invariant
    <3>8. Loops
      <4>1. i - 1 \in 0..(MaxDepth - 1) /\ n - 1 \in 0..(MaxDepth - 1) BY <2>3, <3>6
      <4> QED BY <3>3, <3>6, <4>1 DEF Loops
    <3> QED BY <2>10, <3>7, <3>8 DEF AnswerIsRight, Ends, Unsound
  <2>11. CASE answer = Endless
    <3>1. /\ ParseRaw(Current) # Malformed /\ Current.extends # None
          /\ Cardinality(visited) = MaxDepth /\ n - 1 = MaxDepth
      BY <2>3, <2>11 DEF Invariant, AnswerKnown
    <3>2. end = Current BY <2>4, <3>1
    <3>3. ~Ends(end) BY <2>3, <3>1, <3>2 DEF Ends, Unsound
    <3>4. ~Loops
      <4> SUFFICES ASSUME NEW i \in 0..(MaxDepth - 1), NEW j \in 0..(MaxDepth - 1), i < j,
                          Walk[i].extends = Walk[j].extends
                   PROVE  FALSE
        BY DEF Loops
      <4>1. i + 1 \in 1..(n - 1) /\ j + 1 \in 1..(n - 1) /\ (i + 1) - 1 = i /\ (j + 1) - 1 = j
        BY <2>3, <3>1
      <4>2. chain[i + 1].extends = chain[j + 1].extends
        <5>1. chain[i + 1] = Walk[i] /\ chain[j + 1] = Walk[j] BY <2>2, <2>3, <4>1
        <5> QED BY <5>1
      <4>3. i + 1 = j + 1 BY <4>1, <4>2 DEF Invariant, ChainKnown, Distinct
      <4> QED BY <4>3
    <3> QED BY <2>11, <3>3, <3>4 DEF AnswerIsRight, Ends, Unsound
  <2> QED BY <2>6, <2>7, <2>8, <2>10, <2>11 DEF Invariant, AnswerKnown, Failures
<1> QED BY <1>1, InvariantHolds, PTL

(* Every port that is asked for gets the next free port of the host within *)
(* Reach, and its own one if the strategy is expose; or one of them        *)
(* cannot, and the answer says so.  What the same call has given to other  *)
(* ports counts as free.                                                   *)
THEOREM PortsAreAsPromised == Spec => []PortsAsPromised
<1>1. Invariant => PortsAsPromised
  <2> SUFFICES ASSUME Invariant, bindings # None PROVE PortsAsPromised
    BY DEF PortsAsPromised
  <2> DEFINE strategy == Or(podfile.scalars["strategy"], "auto")
  <2>1. /\ answer = "resolved"
        /\ bindings = ResolvePortBindings(podfile.expose, strategy, problem.flags, problem.taken)
    BY DEF Invariant, AnswerKnown
  <2>2. podfile = MergeChain(Parsed) /\ ParseRaw(Current) # Malformed
    BY <2>1 DEF Invariant, AnswerKnown
  <2>3. /\ Len(chain) \in Nat \ {0} /\ DOMAIN chain = 1..Len(chain)
        /\ Current = chain[Len(chain)]
        /\ \A i \in 1..Len(chain) : chain[i] \in Contents /\ chain[i] # Missing
    BY CurrentKnown DEF Invariant, ChainKnown
  <2>4. Len(Parsed) = Len(chain) /\ \A i \in 1..Len(chain) : Parsed[i] = ParseRaw(chain[i])
    <3> DEFINE S == {ParseRaw(chain[i]) : i \in 1..Len(chain)}
    <3>1. Parsed = [i \in 1..Len(chain) |-> ParseRaw(chain[i])] BY <2>3 DEF Parsed
    <3>2. Parsed \in Seq(S) /\ DOMAIN Parsed = 1..Len(chain) BY <2>3, <3>1
    <3> HIDE DEF S
    <3>3. Len(Parsed) = Len(chain) BY <2>3, <3>2
    <3> QED BY <3>1, <3>3
  <2>5. ASSUME NEW i \in 1..Len(Parsed) PROVE Parsed[i].expose \in Seq(Int)
    <3>1. ParseRaw(chain[i]) # Malformed
      BY <2>2, <2>3, <2>4 DEF Invariant, ChainKnown
    <3> QED BY <2>3, <2>4, <3>1, ParseKeepsPorts
  <2>6. podfile.expose \in Seq(Int)
    BY <2>2, <2>3, <2>4, <2>5, ChainExposes
  <2>7. problem.flags \in Seq(Int)
    BY ProblemsAssumption DEF ProblemsAssumption, Invariant
  <2>8. Promised(podfile.expose, strategy, problem.flags, problem.taken, bindings)
    BY <2>1, <2>6, <2>7, BindingsArePromised
  <2> QED BY <2>8 DEF Promised, PortsAsPromised
<1> QED BY <1>1, InvariantHolds, PTL

-----------------------------------------------------------------------------
(* What the resolved Podfile inherits.                                     *)

(* Induction from a number down to one.                                    *)
LEMMA Descent ==
    ASSUME NEW q \in Nat, NEW Good \in SUBSET Nat, q \in Good,
           \A i \in Nat : i + 1 \in Good /\ i \in 1..(q - 1) => i \in Good
    PROVE  \A i \in 1..q : i \in Good
<1> DEFINE Back == {n \in Nat : n > q - 1 \/ q - n \in Good}
<1>1. 0 \in Back OBVIOUS
<1>2. ASSUME NEW n \in Nat, n \in Back, n < q PROVE n + 1 \in Back
  <2>1. CASE n + 1 > q - 1 BY <2>1
  <2>2. CASE ~(n + 1 > q - 1)
    <3>1. /\ q - (n + 1) \in Nat /\ q - (n + 1) \in 1..(q - 1)
          /\ (q - (n + 1)) + 1 = q - n /\ q - n \in Good
      BY <1>2, <2>2
    <3>2. q - (n + 1) \in Good BY <3>1
    <3> QED BY <3>2
  <2> QED BY <2>1, <2>2
<1>3. \A n \in 0..q : n \in Back
  <2>1. Back \in SUBSET Nat OBVIOUS
  <2> HIDE DEF Back
  <2> QED BY <1>1, <1>2, <2>1, Induction
<1>4. ASSUME NEW i \in 1..q PROVE i \in Good
  <2>1. q - i \in 0..q /\ q - (q - i) = i /\ ~(q - i > q - 1) BY <1>4
  <2>2. q - i \in Back BY <1>3, <2>1
  <2> QED BY <2>1, <2>2
<1> QED BY <1>4

\* merged has the files from each one on, merged.
Merging(merged, files) ==
    /\ MergeChain(files) = merged[1]
    /\ merged[Len(files)] = files[Len(files)]
    /\ \A i \in 1..(Len(files) - 1) : merged[i] = Merge(merged[i + 1], files[i])

(* MergeChain, from the file that extends nothing down to the first one.   *)
LEMMA MergingExists ==
    ASSUME NEW files, Len(files) \in Nat \ {0}
    PROVE  \E merged : Merging(merged, files)
<1> DEFINE N == Len(files)
<1>1. PICK m : /\ MergeChain(files) = m[N]
               /\ m[1] = Last(files)
               /\ \A n \in 2..N : m[n] = Merge(m[n - 1], files[N + 1 - n])
  BY MergeChainSteps
<1> DEFINE merged == [i \in 1..N |-> m[N + 1 - i]]
<1>2. N \in Nat /\ 1 \in 1..N /\ N \in 1..N /\ N + 1 - 1 = N /\ N + 1 - N = 1 OBVIOUS
<1>3. merged[1] = m[N] /\ merged[N] = files[N]
  <2>1. Last(files) = files[N] BY DEF Last
  <2> HIDE DEF N
  <2> QED BY <1>1, <1>2, <2>1
<1>4. ASSUME NEW i \in 1..(N - 1) PROVE merged[i] = Merge(merged[i + 1], files[i])
  <2>1. /\ i \in 1..N /\ i + 1 \in 1..N /\ N + 1 - i \in 2..N
        /\ (N + 1 - i) - 1 = N + 1 - (i + 1) /\ N + 1 - (N + 1 - i) = i
    BY <1>2, <1>4
  <2> HIDE DEF N
  <2>2. m[N + 1 - i] = Merge(m[(N + 1 - i) - 1], files[N + 1 - (N + 1 - i)]) BY <1>1, <2>1
  <2>3. merged[i] = m[N + 1 - i] /\ merged[i + 1] = m[N + 1 - (i + 1)] BY <2>1
  <2> HIDE DEF merged
  <2> QED BY <2>1, <2>2, <2>3
<1>5. Merging(merged, files)
  <2> HIDE DEF merged
  <2> QED BY <1>1, <1>3, <1>4 DEF Merging
<1> QED BY <1>5

(* No nearer level than the nearest is among the levels.                   *)
LEMMA NearestIsLeast ==
    ASSUME NEW levels, levels \subseteq 1..Depth, Depth \in Nat \ {0}
    PROVE  /\ Nearest(levels) \in levels \cup {Depth}
           /\ Nearest(levels) \in 1..Depth
           /\ \A i \in 1..(Nearest(levels) - 1) : i \notin levels /\ i # Depth
<1> DEFINE S == levels \cup {Depth}
<1>1. S \in SUBSET Nat /\ S # {} OBVIOUS
<1>2. \E n \in S : \A m \in S : n <= m
  <2> HIDE DEF S
  <2> QED BY <1>1, LeastExists
<1>3. Nearest(levels) \in S /\ \A m \in S : Nearest(levels) <= m BY <1>2 DEF Nearest, Min
<1>4. Nearest(levels) \in 1..Depth
  <2>1. Depth \in 1..Depth OBVIOUS
  <2>2. S \subseteq 1..Depth BY <2>1
  <2> HIDE DEF S
  <2> QED BY <1>3, <2>2
<1>5. ASSUME NEW i \in 1..(Nearest(levels) - 1) PROVE i \notin levels /\ i # Depth
  <2>1. ~(Nearest(levels) <= i) BY <1>4, <1>5
  <2> QED BY <1>3, <2>1
<1> QED BY <1>3, <1>4, <1>5

\* What is known when a Podfile is resolved.
Resolved ==
    /\ problem \in Problems
    /\ chain \in Seq(Contents \ {Missing})
    /\ Depth \in Nat \ {0}
    /\ chain[1] = problem.first
    /\ \A i \in 1..Depth : ParseRaw(chain[i]) # Malformed
    /\ podfile = MergeChain(Parsed)

(* The defaults of a file leave all but the shell and the branches alone.  *)
LEMMA ParsedFields ==
    ASSUME Resolved, NEW i \in 1..Depth
    PROVE  /\ \A key \in {"name", "env", "packages", "commands", "on_create", "on_start",
                          "services", "expose", "bang"} :
                Parsed[i][key] = chain[i][key]
           /\ \A s \in Scalars \ {"shell"} : Parsed[i].scalars[s] = chain[i].scalars[s]
           /\ Parsed[i].scalars["shell"] = Or(chain[i].scalars["shell"], "bash")
           /\ Parsed[i].repos = [n \in DOMAIN chain[i].repos |->
                DefaultBranch(chain[i].repos[n])]
           /\ DOMAIN Parsed[i] = DOMAIN Empty
<1>1. chain[i] \in Contents \ {Missing} /\ i \in DOMAIN chain BY DEF Resolved, Depth
<1>2. ParseRaw(chain[i]) # Malformed BY DEF Resolved
<1>3. chain[i] # Malformed BY <1>2 DEF ParseRaw
<1>4. DOMAIN chain[i] = DOMAIN Empty BY <1>1, <1>3, ContentsTyped
<1>5. Parsed[i] = ParseRaw(chain[i]) BY <1>1 DEF Parsed
<1> DEFINE f == chain[i]
           g == DefaultShell(f)
<1>6. Parsed[i] = DefaultBranches(g) BY <1>2, <1>5 DEF ParseRaw
<1> HIDE DEF f
<1>7. DOMAIN f = DOMAIN Empty BY <1>4 DEF f
<1>8. DOMAIN g = DOMAIN Empty BY <1>7 DEF DefaultShell
<1>9. ASSUME NEW key \in DOMAIN Empty, key # "scalars" PROVE g[key] = f[key]
  BY <1>7, <1>9 DEF DefaultShell
<1> HIDE DEF g
<1>10. DOMAIN Parsed[i] = DOMAIN Empty BY <1>6, <1>8 DEF DefaultBranches
<1>11. ASSUME NEW key \in DOMAIN Empty, key # "repos" PROVE Parsed[i][key] = g[key]
  BY <1>6, <1>8, <1>11 DEF DefaultBranches
<1>12. {"name", "env", "packages", "commands", "on_create", "on_start", "services", "expose",
         "bang", "repos", "scalars"} \subseteq DOMAIN Empty
  BY DEF Empty
<1>13. Parsed[i].repos = [n \in DOMAIN g.repos |-> DefaultBranch(g.repos[n])]
  BY <1>6, <1>8, <1>12 DEF DefaultBranches
<1>14. g.repos = f.repos BY <1>9, <1>12
<1>15. DOMAIN f.scalars = Scalars
  <2>1. PICK q \in Problems : chain[i] \in FilesOf(q) \ {Missing, Malformed}
    BY <1>1, <1>3 DEF Contents
  <2> QED BY <2>1, ProblemsAssumption DEF ProblemsAssumption, f
<1>16. /\ \A s \in Scalars \ {"shell"} : g.scalars[s] = f.scalars[s]
       /\ g.scalars["shell"] = Or(f.scalars["shell"], "bash")
  <2>1. g.scalars = [f.scalars EXCEPT !["shell"] = Or(f.scalars["shell"], "bash")]
    BY <1>7, <1>12 DEF DefaultShell, g
  <2>2. "shell" \in Scalars BY DefaultsAssumption DEF DefaultsAssumption
  <2> QED BY <1>15, <2>1, <2>2
<1> QED BY <1>9, <1>10, <1>11, <1>12, <1>13, <1>14, <1>16 DEF f

(* What Merge makes of each field depends on that field, and on bang.      *)
LEMMA MergeFields ==
    ASSUME NEW base, NEW child
    PROVE  /\ Merge(base, child).name = child.name
           /\ \A s \in Scalars : Merge(base, child).scalars[s] =
                IF child.scalars[s] = None THEN base.scalars[s] ELSE child.scalars[s]
           /\ \A k \in Keys : Merge(base, child).env[k] =
                IF "env" \in child.bang THEN child.env[k]
                ELSE MergeEnv(base.env, child.env)[k]
           /\ \A key \in {"commands", "on_create", "on_start"} : Merge(base, child)[key] =
                IF key \in child.bang THEN child[key] ELSE base[key] \o child[key]
           /\ Merge(base, child).packages =
                IF "packages" \in child.bang THEN child.packages
                ELSE IF child.packages = <<>> THEN base.packages
                ELSE MergeList(base.packages, child.packages)
           /\ Merge(base, child).services =
                IF "services" \in child.bang THEN child.services
                ELSE MergeServices(base.services, child.services)
           /\ Merge(base, child).repos =
                IF "repos" \in child.bang THEN child.repos
                ELSE MergeRepos(base.repos, child.repos)
           /\ Merge(base, child).expose = Unique(base.expose \o child.expose)
  BY DEF Merge, Or

\* merged has the files from each level on, merged, with their defaults.
Levels(merged) ==
    /\ podfile = merged[1]
    /\ merged[Depth] = Parsed[Depth]
    /\ \A i \in 1..(Depth - 1) : merged[i] = Merge(merged[i + 1], Parsed[i])

(* A resolved Podfile was merged level by level.                           *)
LEMMA LevelsExist ==
    ASSUME Resolved
    PROVE  \E merged : Levels(merged)
<1>1. DOMAIN Parsed = 1..Depth /\ Len(Parsed) = Depth BY DEF Resolved, Parsed, Depth
<1>2. Depth \in Nat \ {0} BY DEF Resolved
<1>3. PICK merged : Merging(merged, Parsed)
  <2>1. \A files : Len(files) \in Nat \ {0} => \E merged : Merging(merged, files)
    BY MergingExists
  <2> QED BY <1>1, <1>2, <2>1
<1> QED BY <1>1, <1>3 DEF Levels, Merging, Resolved

(* The name is never inherited.                                            *)
LEMMA NameIsOwn ==
    ASSUME Resolved
    PROVE  podfile.name = problem.first.name
<1>1. PICK M : Levels(M) BY LevelsExist
<1>2. 1 \in 1..Depth /\ Parsed[1].name = chain[1].name
  <2>1. 1 \in 1..Depth BY DEF Resolved
  <2> QED BY <2>1, ParsedFields
<1>3. M[1].name = Parsed[1].name
  <2>1. CASE Depth = 1 BY <1>1, <2>1 DEF Levels
  <2>2. CASE Depth # 1
    <3>1. 1 \in 1..(Depth - 1) BY <2>2 DEF Resolved
    <3>2. M[1] = Merge(M[1 + 1], Parsed[1]) BY <1>1, <3>1 DEF Levels
    <3> QED BY <3>2, MergeFields
  <2> QED BY <2>1, <2>2
<1> QED BY <1>1, <1>2, <1>3 DEF Levels, Resolved

(* The nearest file that sets a scalar decides, with the defaults.         *)
LEMMA ScalarsOfParsed ==
    ASSUME Resolved, NEW s \in Scalars
    PROVE  podfile.scalars[s] =
             Parsed[Nearest({i \in 1..Depth : Parsed[i].scalars[s] # None})].scalars[s]
<1>1. PICK M : Levels(M) BY LevelsExist
<1>2. Depth \in Nat \ {0} BY DEF Resolved
<1> DEFINE set == {i \in 1..Depth : Parsed[i].scalars[s] # None}
           q == Nearest(set)
           Good == {i \in 1..Depth : M[i].scalars[s] = Parsed[q].scalars[s]}
<1>3. set \subseteq 1..Depth OBVIOUS
<1> HIDE DEF set
<1>4. /\ q \in set \cup {Depth} /\ q \in 1..Depth
      /\ \A i \in 1..(q - 1) : i \notin set /\ i # Depth
  BY <1>2, <1>3, NearestIsLeast
<1> HIDE DEF q
<1>5. q \in Good
  <2>1. CASE q = Depth BY <1>1, <1>4, <2>1 DEF Levels
  <2>2. CASE q # Depth
    <3>1. q \in 1..(Depth - 1) /\ Parsed[q].scalars[s] # None
      BY <1>2, <1>4, <2>2 DEF set
    <3>2. M[q] = Merge(M[q + 1], Parsed[q]) BY <1>1, <3>1 DEF Levels
    <3> QED BY <1>4, <3>1, <3>2, MergeFields
  <2> QED BY <2>1, <2>2
<1>6. ASSUME NEW i \in Nat, i + 1 \in Good, i \in 1..(q - 1) PROVE i \in Good
  <2>1. i \in 1..(Depth - 1) /\ i \in 1..Depth BY <1>2, <1>4, <1>6
  <2>2. Parsed[i].scalars[s] = None BY <1>4, <1>6, <2>1 DEF set
  <2>3. M[i] = Merge(M[i + 1], Parsed[i]) BY <1>1, <2>1 DEF Levels
  <2>4. M[i].scalars[s] = M[i + 1].scalars[s] BY <2>2, <2>3, MergeFields
  <2> QED BY <1>6, <2>1, <2>4
<1>7. 1 \in Good
  <2>1. Good \in SUBSET Nat /\ q \in Nat /\ 1 \in 1..q BY <1>4
  <2> HIDE DEF Good
  <2> QED BY <1>5, <1>6, <2>1, Descent
<1> QED BY <1>1, <1>7 DEF Levels, q, set
(* The nearest file that sets a scalar decides; the shell is the first's.  *)
LEMMA ScalarsAreRight ==
    ASSUME Resolved
    PROVE  ScalarsRight
<1>1. Depth \in Nat \ {0} /\ chain[1] = problem.first BY DEF Resolved
<1>2. ASSUME NEW s \in Scalars \ {"shell"}
      PROVE  podfile.scalars[s] =
               chain[Nearest({i \in 1..Depth : chain[i].scalars[s] # None})].scalars[s]
  <2>1. \A i \in 1..Depth : Parsed[i].scalars[s] = chain[i].scalars[s] BY ParsedFields
  <2> DEFINE set == {i \in 1..Depth : chain[i].scalars[s] # None}
  <2>2. set = {i \in 1..Depth : Parsed[i].scalars[s] # None} BY <2>1
  <2>3. set \subseteq 1..Depth OBVIOUS
  <2> HIDE DEF set
  <2>4. Nearest(set) \in 1..Depth BY <1>1, <2>3, NearestIsLeast
  <2>5. podfile.scalars[s] = Parsed[Nearest(set)].scalars[s] BY <2>2, ScalarsOfParsed
  <2> QED BY <2>1, <2>4, <2>5 DEF set
<1>3. podfile.scalars["shell"] = Or(problem.first.scalars["shell"], "bash")
  <2> DEFINE set == {i \in 1..Depth : Parsed[i].scalars["shell"] # None}
  <2>1. 1 \in 1..Depth BY <1>1
  <2>2. Parsed[1].scalars["shell"] = Or(problem.first.scalars["shell"], "bash")
    BY <1>1, <2>1, ParsedFields
  <2>3. 1 \in set BY <2>1, <2>2, DefaultsAssumption DEF DefaultsAssumption, Or
  <2>4. set \subseteq 1..Depth OBVIOUS
  <2>5. podfile.scalars["shell"] = Parsed[Nearest(set)].scalars["shell"]
    BY ScalarsOfParsed, DefaultsAssumption DEF DefaultsAssumption
  <2> HIDE DEF set
  <2>6. Nearest(set) = 1
    <3>1. Nearest(set) \in 1..Depth /\ \A i \in 1..(Nearest(set) - 1) : i \notin set
      BY <1>1, <2>4, NearestIsLeast
    <3>2. 1 \notin 1..(Nearest(set) - 1) BY <2>3, <3>1
    <3> QED BY <1>1, <3>1, <3>2
  <2> QED BY <2>2, <2>5, <2>6
<1> QED BY <1>2, <1>3 DEF ScalarsRight

(* The nearest file that names a variable, or has an env!, decides on it.  *)
LEMMA EnvIsRight ==
    ASSUME Resolved
    PROVE  EnvRight
<1>1. PICK M : Levels(M) BY LevelsExist
<1>2. Depth \in Nat \ {0} BY DEF Resolved
<1>3. ASSUME NEW k \in Keys
      PROVE  LET i == Nearest({j \in 1..Depth : chain[j].env[k] # None} \cup Replacing("env"))
                 kept == i = Depth \/ i \in Replacing("env")
             IN  podfile.env[k] =
                   IF chain[i].env[k] = "" /\ ~kept THEN None ELSE chain[i].env[k]
  <2> DEFINE set == {j \in 1..Depth : chain[j].env[k] # None} \cup Replacing("env")
             q == Nearest(set)
             kept == q = Depth \/ q \in Replacing("env")
             value == IF chain[q].env[k] = "" /\ ~kept THEN None ELSE chain[q].env[k]
             Good == {i \in 1..Depth : M[i].env[k] = value}
  <2>1. set \subseteq 1..Depth BY <1>2 DEF Replacing
  <2> HIDE DEF set
  <2>2. /\ q \in set \cup {Depth} /\ q \in 1..Depth
        /\ \A i \in 1..(q - 1) : i \notin set /\ i # Depth
    BY <1>2, <2>1, NearestIsLeast
  <2> HIDE DEF q
  <2>3. ASSUME NEW i \in 1..Depth
        PROVE  Parsed[i].env = chain[i].env /\ Parsed[i].bang = chain[i].bang
    BY ParsedFields
  <2>4. q \in Good
    <3>1. CASE q = Depth BY <1>1, <2>2, <2>3, <3>1 DEF Levels
    <3>2. CASE q # Depth
      <4>1. q \in 1..(Depth - 1) BY <1>2, <2>2, <3>2
      <4>2. M[q] = Merge(M[q + 1], Parsed[q]) BY <1>1, <4>1 DEF Levels
      <4>3. M[q].env[k] = IF "env" \in chain[q].bang THEN chain[q].env[k]
                          ELSE MergeEnv(M[q + 1].env, chain[q].env)[k]
        BY <2>2, <2>3, <4>2, MergeFields
      <4>4. q \in Replacing("env") <=> "env" \in chain[q].bang BY <4>1 DEF Replacing
      <4>5. CASE "env" \in chain[q].bang BY <2>2, <4>3, <4>4, <4>5
      <4>6. CASE "env" \notin chain[q].bang
        <5>1. chain[q].env[k] # None BY <2>2, <3>2, <4>4, <4>6 DEF set
        <5>2. MergeEnv(M[q + 1].env, chain[q].env)[k] =
                IF chain[q].env[k] = "" THEN None ELSE chain[q].env[k]
          BY <5>1 DEF MergeEnv
        <5> QED BY <2>2, <3>2, <4>3, <4>4, <4>6, <5>2
      <4> QED BY <4>5, <4>6
    <3> QED BY <3>1, <3>2
  <2>5. ASSUME NEW i \in Nat, i + 1 \in Good, i \in 1..(q - 1) PROVE i \in Good
    <3>1. i \in 1..(Depth - 1) /\ i \in 1..Depth
      <4> HIDE DEF Good
      <4> QED BY <1>2, <2>2, <2>5
    <3>2. chain[i].env[k] = None /\ "env" \notin chain[i].bang
      BY <2>2, <2>5, <3>1 DEF set, Replacing
    <3>3. M[i] = Merge(M[i + 1], Parsed[i]) BY <1>1, <3>1 DEF Levels
    <3>4. M[i].env[k] = MergeEnv(M[i + 1].env, chain[i].env)[k]
      BY <2>3, <3>1, <3>2, <3>3, MergeFields
    <3>5. MergeEnv(M[i + 1].env, chain[i].env)[k] = M[i + 1].env[k]
      BY <3>2, DefaultsAssumption DEF DefaultsAssumption, MergeEnv
    <3> QED BY <2>5, <3>1, <3>4, <3>5
  <2>6. 1 \in Good
    <3> HIDE DEF value
    <3>1. Good \in SUBSET Nat OBVIOUS
    <3> HIDE DEF Good
    <3>2. q \in Nat /\ 1 \in 1..q BY <2>2
    <3> QED BY <2>4, <2>5, <3>1, <3>2, Descent
  <2> QED BY <1>1, <2>6 DEF Levels, q, set
<1> QED BY <1>3 DEF EnvRight

\* s has the first lists, one after the other.
IsFlat(s, lists) ==
    s = [i \in 1..Len(lists) |-> IF i = 1 THEN lists[i] ELSE s[i - 1] \o lists[i]]

(* FlattenSeq appends a list at a time.                                    *)
LEMMA FlattenSteps ==
    ASSUME NEW lists, Len(lists) \in Nat \ {0}, \E s : IsFlat(s, lists)
    PROVE  \E s : FlattenSeq(lists) = s[Len(lists)] /\ IsFlat(s, lists)
<1> DEFINE s == CHOOSE f : IsFlat(f, lists)
<1>1. FlattenSeq(lists) = s[Len(lists)] BY DEF FlattenSeq, IsFlat
<1>2. IsFlat(s, lists) OBVIOUS
<1> QED BY <1>1, <1>2

(* Hooks and commands are the lines from the nearest file with the ! on.   *)
LEMMA AppendedIsRight ==
    ASSUME Resolved
    PROVE  AppendedRight
<1>1. PICK M : Levels(M) BY LevelsExist
<1>2. Depth \in Nat \ {0} BY DEF Resolved
<1>3. ASSUME NEW key \in {"on_create", "on_start", "commands"}
      PROVE  podfile[key] =
               FlattenSeq(Reverse([i \in 1..Nearest(Replacing(key)) |-> chain[i][key]]))
  <2> DEFINE q == Nearest(Replacing(key))
             lists == Reverse([i \in 1..q |-> chain[i][key]])
             g == [n \in 1..q |-> M[q + 1 - n][key]]
  <2>1. Replacing(key) \subseteq 1..Depth BY <1>2 DEF Replacing
  <2>2. /\ q \in Replacing(key) \cup {Depth} /\ q \in 1..Depth
        /\ \A i \in 1..(q - 1) : i \notin Replacing(key) /\ i # Depth
    BY <1>2, <2>1, NearestIsLeast
  <2> HIDE DEF q
  <2>3. Len(lists) = q /\ \A n \in 1..q : lists[n] = chain[q + 1 - n][key]
    <3> DEFINE own == [i \in 1..q |-> chain[i][key]]
    <3>1. q \in Nat /\ \A i \in 1..q : own[i] = chain[i][key] BY <2>2
    <3>2. Len(own) = q /\ lists = Reverse(own) BY <3>1
    <3> HIDE DEF own, lists
    <3>3. lists = [n \in 1..q |-> own[(q - n) + 1]] BY <3>2 DEF Reverse
    <3>4. \A n \in 1..q : (q - n) + 1 \in 1..q /\ (q - n) + 1 = q + 1 - n BY <3>1
    <3>5. Len(lists) = q BY <3>1, <3>3
    <3> QED BY <3>1, <3>3, <3>4, <3>5
  <2> HIDE DEF lists
  <2>4. M[q][key] = chain[q][key]
    <3>1. Parsed[q][key] = chain[q][key] /\ Parsed[q].bang = chain[q].bang
      BY <2>2, ParsedFields
    <3>2. CASE q = Depth BY <1>1, <3>1, <3>2 DEF Levels
    <3>3. CASE q # Depth
      <4>1. q \in 1..(Depth - 1) /\ key \in chain[q].bang BY <1>2, <2>2, <3>3 DEF Replacing
      <4>2. M[q] = Merge(M[q + 1], Parsed[q]) BY <1>1, <4>1 DEF Levels
      <4> QED BY <3>1, <4>1, <4>2, MergeFields
    <3> QED BY <3>2, <3>3
  <2>5. ASSUME NEW i \in 1..(q - 1) PROVE M[i][key] = M[i + 1][key] \o chain[i][key]
    <3>1. i \in 1..(Depth - 1) /\ i \in 1..Depth BY <1>2, <2>2
    <3>2. Parsed[i][key] = chain[i][key] /\ Parsed[i].bang = chain[i].bang
      BY <3>1, ParsedFields
    <3>3. key \notin chain[i].bang BY <2>2, <3>1 DEF Replacing
    <3>4. M[i] = Merge(M[i + 1], Parsed[i]) BY <1>1, <3>1 DEF Levels
    <3>5. Merge(M[i + 1], Parsed[i])[key] =
            IF key \in Parsed[i].bang THEN Parsed[i][key] ELSE M[i + 1][key] \o Parsed[i][key]
      BY MergeFields
    <3> QED BY <3>2, <3>3, <3>4, <3>5
  <2>6. \E s : IsFlat(s, lists)
    <3>1. ASSUME NEW n \in 1..q
          PROVE  g[n] = IF n = 1 THEN lists[n] ELSE g[n - 1] \o lists[n]
      <4>1. CASE n = 1
        <5>1. q + 1 - 1 = q BY <2>2
        <5> QED BY <2>3, <2>4, <4>1, <5>1
      <4>2. CASE n # 1
        <5>1. /\ q + 1 - n \in 1..(q - 1) /\ n - 1 \in 1..q
              /\ (q + 1 - n) + 1 = q + 1 - (n - 1)
          BY <2>2, <4>2
        <5>2. M[q + 1 - n][key] = M[(q + 1 - n) + 1][key] \o chain[q + 1 - n][key]
          BY <2>5, <5>1
        <5> QED BY <2>3, <4>2, <5>1, <5>2
      <4> QED BY <4>1, <4>2
    <3>2. IsFlat(g, lists) BY <2>3, <3>1 DEF IsFlat
    <3> HIDE DEF g
    <3> QED BY <3>2
  <2>7. PICK s : FlattenSeq(lists) = s[Len(lists)] /\ IsFlat(s, lists)
    <3>1. Len(lists) \in Nat \ {0} BY <2>2, <2>3
    <3> QED BY <2>6, <3>1, FlattenSteps
  <2>8. \A n \in 1..q : s[n] = IF n = 1 THEN lists[n] ELSE s[n - 1] \o lists[n]
    BY <2>3, <2>7 DEF IsFlat
  <2> DEFINE Good == {i \in 1..Depth : M[i][key] = s[q + 1 - i]}
  <2>9. q \in Good
    <3>1. q + 1 - q = 1 /\ q + 1 - 1 = q /\ 1 \in 1..q BY <2>2
    <3> QED BY <2>2, <2>3, <2>4, <2>8, <3>1
  <2>10. ASSUME NEW i \in Nat, i + 1 \in Good, i \in 1..(q - 1) PROVE i \in Good
    <3>1. /\ i \in 1..Depth /\ q + 1 - i \in 1..q /\ q + 1 - i # 1
          /\ (q + 1 - i) - 1 = q + 1 - (i + 1) /\ q + 1 - (q + 1 - i) = i
      <4>1. q \in 1..Depth BY <2>2
      <4> HIDE DEF Good
      <4> QED BY <1>2, <2>10, <4>1
    <3>2. s[q + 1 - i] = s[(q + 1 - i) - 1] \o lists[q + 1 - i] BY <2>8, <3>1
    <3>3. lists[q + 1 - i] = chain[i][key] BY <2>3, <3>1
    <3>4. M[i][key] = M[i + 1][key] \o chain[i][key] BY <2>5, <2>10
    <3> QED BY <2>10, <3>1, <3>2, <3>3, <3>4
  <2>11. 1 \in Good
    <3>1. Good \in SUBSET Nat /\ q \in Nat /\ 1 \in 1..q BY <2>2
    <3> HIDE DEF Good
    <3> QED BY <2>9, <2>10, <3>1, Descent
  <2>12. q + 1 - 1 = q BY <2>2
  <2> QED BY <1>1, <2>3, <2>7, <2>11, <2>12 DEF Levels, lists, q
<1> QED BY <1>3 DEF AppendedRight

(* Every port that some file exposes is exposed, and each once.            *)
LEMMA ExposeIsRight ==
    ASSUME Resolved
    PROVE  ExposeRight
<1>1. PICK M : Levels(M) BY LevelsExist
<1>2. Depth \in Nat \ {0} BY DEF Resolved
<1>3. ASSUME NEW i \in 1..Depth
      PROVE  Parsed[i].expose = chain[i].expose /\ chain[i].expose \in Seq(Int)
  <2>1. chain[i] \in Contents \ {Missing} /\ ParseRaw(chain[i]) # Malformed
    BY DEF Resolved, Depth
  <2>2. chain[i] # Malformed BY <2>1 DEF ParseRaw
  <2> QED BY <2>1, <2>2, ContentsTyped, ParsedFields
<1> DEFINE From(i) == UNION {ToSet(chain[j].expose) : j \in i..Depth}
           Good == {i \in 1..Depth : M[i].expose \in Seq(Int) /\ ToSet(M[i].expose) = From(i)}
<1>4. Depth \in Good
  <2>1. M[Depth].expose = chain[Depth].expose /\ Depth \in 1..Depth
    BY <1>1, <1>2, <1>3 DEF Levels
  <2>2. Depth..Depth = {Depth} BY <1>2
  <2>3. From(Depth) = ToSet(chain[Depth].expose) BY <2>2
  <2> HIDE DEF From
  <2> QED BY <1>3, <2>1, <2>3
<1>5. ASSUME NEW i \in Nat, i + 1 \in Good, i \in 1..(Depth - 1)
      PROVE  i \in Good /\ IsInjective(M[i].expose)
  <2>1. i \in 1..Depth /\ i..Depth = {i} \cup ((i + 1)..Depth) BY <1>2, <1>5
  <2> DEFINE b == M[i + 1].expose
             c == chain[i].expose
  <2>2. M[i].expose = Unique(b \o c)
    <3>1. M[i] = Merge(M[i + 1], Parsed[i]) BY <1>1, <1>5 DEF Levels
    <3> QED BY <1>3, <2>1, <3>1, MergeFields
  <2>3. b \in Seq(Int) /\ c \in Seq(Int) /\ ToSet(b) = From(i + 1) BY <1>3, <1>5, <2>1
  <2>4. From(i) = ToSet(c) \cup From(i + 1) BY <2>1
  <2> HIDE DEF b, c, From
  <2>5. b \o c \in Seq(Int) /\ ToSet(b \o c) = ToSet(b) \cup ToSet(c) BY <2>3, ToSetOfConcat
  <2>6. /\ Unique(b \o c) \in Seq(Int) /\ ToSet(Unique(b \o c)) = ToSet(b \o c)
        /\ IsInjective(Unique(b \o c))
    <3>1. \A l \in Seq(Int) : /\ Unique(l) \in Seq(Int) /\ ToSet(Unique(l)) = ToSet(l)
                              /\ IsInjective(Unique(l))
      BY UniqueIsList
    <3> QED BY <2>5, <3>1
  <2> QED BY <2>1, <2>2, <2>3, <2>4, <2>5, <2>6
<1>6. 1 \in Good
  <2>1. Good \in SUBSET Nat /\ 1 \in 1..Depth BY <1>2
  <2> HIDE DEF Good
  <2>2. \A i \in Nat : i + 1 \in Good /\ i \in 1..(Depth - 1) => i \in Good BY <1>5
  <2> QED BY <1>2, <1>4, <2>1, <2>2, Descent
<1>7. ToSet(podfile.expose) = UNION {ToSet(chain[i].expose) : i \in 1..Depth}
  BY <1>1, <1>6 DEF Levels
<1>8. ASSUME Depth > 1 PROVE Cardinality(ToSet(podfile.expose)) = Len(podfile.expose)
  <2>1. 1 \in 1..(Depth - 1) /\ 1 \in Nat /\ 2 \in Nat /\ 1 + 1 = 2 BY <1>2, <1>8
  <2> DEFINE l == podfile.expose
  <2>2. IsInjective(l) /\ l \in Seq(Int)
    <3>1. 2 \in Good
      <4>1. Good \in SUBSET Nat /\ 2 \in 1..Depth BY <1>2, <1>8
      <4> HIDE DEF Good
      <4>2. \A i \in Nat : i + 1 \in Good /\ i \in 1..(Depth - 1) => i \in Good BY <1>5
      <4> QED BY <1>2, <1>4, <4>1, <4>2, Descent
    <3> HIDE DEF Good
    <3>2. IsInjective(M[1].expose) BY <1>5, <2>1, <3>1
    <3> QED BY <1>1, <1>6, <3>2 DEF Levels, Good
  <2> HIDE DEF l
  <2>3. DOMAIN l = 1..Len(l) /\ Len(l) \in Nat BY <2>2
  <2>4. ExistsBijection(1..Len(l), ToSet(l))
    <3>1. l \in [1..Len(l) -> ToSet(l)] BY <2>2, <2>3 DEF ToSet
    <3>2. \A y \in ToSet(l) : \E x \in 1..Len(l) : l[x] = y BY <2>3 DEF ToSet
    <3>3. \A x, y \in 1..Len(l) : l[x] = l[y] => x = y BY <2>2, <2>3 DEF IsInjective
    <3>4. l \in Bijection(1..Len(l), ToSet(l))
      BY <3>1, <3>2, <3>3 DEF Bijection, Injection, Surjection, IsInjective
    <3> QED BY <3>4 DEF ExistsBijection
  <2>5. Cardinality(ToSet(l)) = Len(l) BY <2>3, <2>4, FS_CountingElements
  <2> QED BY <2>5 DEF l
<1> QED BY <1>7, <1>8 DEF ExposeRight

(* A set of numbers up to N that is not empty has a greatest one, its Max. *)
LEMMA MaxIsGreatest ==
    ASSUME NEW N \in Nat, NEW S \in SUBSET (1..N), S # {}
    PROVE  Max(S) \in S /\ \A n \in S : Max(S) >= n
<1> DEFINE R == {N - n : n \in S}
<1>1. R \in SUBSET Nat /\ R # {}
  <2>1. \A n \in S : N - n \in Nat OBVIOUS
  <2> QED BY <2>1
<1>2. PICK r \in R : \A m \in R : r <= m
  <2> HIDE DEF R
  <2> QED BY <1>1, LeastExists
<1>3. PICK n \in S : r = N - n BY <1>2
<1>4. \A m \in S : n >= m
  <2> SUFFICES ASSUME NEW m \in S PROVE n >= m OBVIOUS
  <2>1. N - n <= N - m BY <1>2, <1>3
  <2>2. n \in Nat /\ m \in Nat OBVIOUS
  <2> QED BY <2>1, <2>2
<1>5. \E x \in S : \A y \in S : x >= y BY <1>4
<1> QED BY <1>5 DEF Max

(* A value that is in the first list already is not taken from the second. *)
LEMMA UniqueSkips ==
    ASSUME NEW T, NEW a \in Seq(T), NEW b \in Seq(T)
    PROVE  Unique(a \o b) = Unique(a \o Keep(b, T \ ToSet(a)))
<1> DEFINE set == T \ ToSet(a)
           Good == {l \in Seq(T) : Unique(a \o l) = Unique(a \o Keep(l, set))}
<1>1. <<>> \in Good
  <2>1. <<>> \in Seq(T) OBVIOUS
  <2>2. Keep(<<>>, set) = <<>> BY KeepEmpty
  <2> QED BY <2>1, <2>2
<1>2. ASSUME NEW l \in Good, NEW x \in T PROVE Append(l, x) \in Good
  <2> DEFINE k == Keep(l, set)
  <2>1. Append(l, x) \in Seq(T) /\ a \o l \in Seq(T) /\ Unique(a \o l) = Unique(a \o k)
    OBVIOUS
  <2>2. k \in Seq(T) BY KeepIsList
  <2>3. Keep(Append(l, x), set) = IF x \in set THEN Append(k, x) ELSE k BY KeepAppend
  <2> HIDE DEF k
  <2>4. a \o k \in Seq(T) BY <2>2
  <2>5. a \o Append(l, x) = Append(a \o l, x) /\ a \o Append(k, x) = Append(a \o k, x)
    BY <2>2, ConcatAppend
  <2>6. \A s \in Seq(T) : Unique(Append(s, x)) =
           IF Contains(Unique(s), x) THEN Unique(s) ELSE Append(Unique(s), x)
    BY UniqueAppend
  <2>7. Unique(Append(a \o l, x)) = Unique(Append(a \o k, x)) BY <2>1, <2>4, <2>6
  <2>8. ASSUME x \notin set PROVE Unique(Append(a \o l, x)) = Unique(a \o l)
    <3>1. x \in ToSet(a) BY <2>8
    <3>2. x \in ToSet(a \o l)
      <4>1. l \in Seq(T) OBVIOUS
      <4>2. ToSet(a \o l) = ToSet(a) \cup ToSet(l) BY <4>1, ToSetOfConcat
      <4> QED BY <3>1, <4>2
    <3>3. /\ Unique(a \o l) \in Seq(T) /\ ToSet(Unique(a \o l)) = ToSet(a \o l)
      <4>1. \A s \in Seq(T) : Unique(s) \in Seq(T) /\ ToSet(Unique(s)) = ToSet(s)
        BY UniqueIsList
      <4> QED BY <2>1, <4>1
    <3>4. Contains(Unique(a \o l), x)
      <4> DEFINE u == Unique(a \o l)
      <4>1. u \in Seq(T) /\ x \in ToSet(u) BY <3>2, <3>3
      <4> HIDE DEF u
      <4>2. Contains(u, x) BY <4>1 DEF Contains, ToSet
      <4> QED BY <4>2 DEF u
    <3> QED BY <2>1, <2>6, <3>4
  <2>9. Unique(a \o Append(l, x)) = Unique(a \o Keep(Append(l, x), set))
    <3>1. CASE x \in set BY <2>3, <2>5, <2>7, <3>1
    <3>2. CASE x \notin set BY <2>1, <2>3, <2>5, <2>8, <3>2
    <3> QED BY <3>1, <3>2
  <2> QED BY <2>1, <2>9
<1>3. b \in Good
  <2>1. Good \in SUBSET Seq(T) OBVIOUS
  <2> HIDE DEF Good
  <2> QED BY <1>1, <1>2, <2>1, ListInduction
<1> QED BY <1>3

\* The packages of the files, those that are dropped among them.
Items == UNION {ToSet(chain[i].packages) : i \in 1..Depth}

\* Of the levels from i on, those that a package comes from.
From(i, item) ==
    {k \in i..Depth : Brings(k, item) /\ \A j \in i..(k - 1) : ~Bars(j, item)}

\* The furthest of them.
Furthest(i) == [item \in Items |-> IF From(i, item) = {} THEN 0 ELSE Max(From(i, item))]

(* A level bars what is inherited, or not, and brings a package, or not.   *)
LEMMA FromStep ==
    ASSUME Depth \in Nat \ {0}, NEW i \in 1..(Depth - 1), NEW item
    PROVE  From(i, item) = (IF Bars(i, item) THEN {} ELSE From(i + 1, item))
                           \cup IF Brings(i, item) THEN {i} ELSE {}
<1>1. i..Depth = {i} \cup ((i + 1)..Depth) /\ i \notin (i + 1)..Depth OBVIOUS
<1>2. i..(i - 1) = {} OBVIOUS
<1>3. \A k \in (i + 1)..Depth : i..(k - 1) = {i} \cup ((i + 1)..(k - 1)) OBVIOUS
<1>4. i \in From(i, item) <=> Brings(i, item) BY <1>1, <1>2 DEF From
<1>5. ASSUME NEW k \in (i + 1)..Depth
      PROVE  k \in From(i, item) <=> ~Bars(i, item) /\ k \in From(i + 1, item)
  <2>1. i..(k - 1) = {i} \cup ((i + 1)..(k - 1)) BY <1>3
  <2>2. k \in i..Depth BY <1>1
  <2> QED BY <2>1, <2>2 DEF From
<1>6. From(i, item) \subseteq i..Depth /\ From(i + 1, item) \subseteq (i + 1)..Depth BY DEF From
<1>7. \A k : k \in From(i, item) <=>
        \/ ~Bars(i, item) /\ k \in From(i + 1, item)
        \/ Brings(i, item) /\ k = i
  BY <1>1, <1>4, <1>5, <1>6
<1> QED BY <1>7

(* The furthest level that a package comes from is one of them.            *)
LEMMA FurthestIs ==
    ASSUME Depth \in Nat \ {0}, NEW i \in 1..Depth
    PROVE  /\ Furthest(i) \in [Items -> Int]
           /\ \A item \in Items : From(i, item) # {} =>
                /\ Furthest(i)[item] \in From(i, item)
                /\ Furthest(i)[item] = Max(From(i, item))
                /\ \A k \in From(i, item) : Furthest(i)[item] >= k
<1>1. ASSUME NEW item \in Items, From(i, item) # {}
      PROVE  /\ Furthest(i)[item] \in From(i, item)
             /\ Furthest(i)[item] = Max(From(i, item))
             /\ \A k \in From(i, item) : Furthest(i)[item] >= k
             /\ Furthest(i)[item] \in Int
  <2>1. From(i, item) \subseteq 1..Depth
    <3>1. i..Depth \subseteq 1..Depth OBVIOUS
    <3> QED BY <3>1 DEF From
  <2>2. Max(From(i, item)) \in From(i, item) /\ \A k \in From(i, item) : Max(From(i, item)) >= k
    BY <1>1, <2>1, MaxIsGreatest
  <2>3. Furthest(i)[item] = Max(From(i, item)) BY <1>1 DEF Furthest
  <2>4. 1..Depth \subseteq Int OBVIOUS
  <2> QED BY <2>1, <2>2, <2>3, <2>4
<1>2. ASSUME NEW item \in Items PROVE Furthest(i)[item] \in Int
  <2>1. CASE From(i, item) = {} BY <2>1 DEF Furthest
  <2>2. CASE From(i, item) # {} BY <1>1, <2>2
  <2> QED BY <2>1, <2>2
<1>3. DOMAIN Furthest(i) = Items /\ Furthest(i) = [x \in Items |-> Furthest(i)[x]]
  BY DEF Furthest
<1> QED BY <1>1, <1>2, <1>3

(* The packages of a file are a list of names, each with or without a !.   *)
LEMMA PackagesTyped ==
    ASSUME Resolved
    PROVE  /\ \A i \in 1..Depth : /\ chain[i].packages \in Seq(Items)
                                  /\ Parsed[i].packages = chain[i].packages
                                  /\ Parsed[i].bang = chain[i].bang
           /\ \A item \in Items : item \in [name : {item.name}, drop : BOOLEAN]
<1>1. ASSUME NEW i \in 1..Depth
      PROVE  /\ chain[i].packages \in Seq(ToSet(chain[i].packages))
             /\ \A item \in ToSet(chain[i].packages) :
                  item \in [name : {item.name}, drop : BOOLEAN]
  <2>1. chain[i] \in Contents \ {Missing} /\ ParseRaw(chain[i]) # Malformed
    BY DEF Resolved, Depth
  <2>2. chain[i] # Malformed BY <2>1 DEF ParseRaw
  <2>3. PICK q \in Problems : chain[i] \in FilesOf(q) \ {Missing, Malformed}
    BY <2>1, <2>2 DEF Contents
  <2> QED BY <2>3, ProblemsAssumption DEF ProblemsAssumption
<1>2. ASSUME NEW i \in 1..Depth
      PROVE  chain[i].packages \in Seq(Items)
  <2>1. ToSet(chain[i].packages) \subseteq Items BY DEF Items
  <2>2. \A s, t : s \subseteq t => Seq(s) \subseteq Seq(t) OBVIOUS
  <2> QED BY <1>1, <2>1, <2>2
<1> QED BY <1>1, <1>2, ParsedFields DEF Items

(* A file drops the inherited packages that it writes with a !.            *)
LEMMA RemovalsBar ==
    ASSUME Resolved, NEW i \in 1..Depth, ~Whole(i), NEW item \in Items
    PROVE  item \in Removals(chain[i].packages) <=> Bars(i, item)
<1> DEFINE S == ToSet(chain[i].packages)
<1>1. \A x \in Items : x \in [name : {x.name}, drop : BOOLEAN] BY PackagesTyped
<1>2. S \subseteq Items BY DEF Items
<1>3. Bars(i, item) <=> ~item.drop /\ [item EXCEPT !.drop = TRUE] \in S BY DEF Bars
<1>4. Removals(chain[i].packages) = {[y EXCEPT !.drop = FALSE] : y \in {c \in S : c.drop}}
  BY DEF Removals
<1> HIDE DEF S
<1>5. ASSUME NEW y \in S, y.drop, item = [y EXCEPT !.drop = FALSE]
      PROVE  ~item.drop /\ [item EXCEPT !.drop = TRUE] \in S
  <2>1. y \in [name : {y.name}, drop : BOOLEAN] BY <1>1, <1>2, <1>5
  <2>2. y.drop = TRUE BY <1>5, <2>1
  <2>3. item.drop = FALSE BY <1>5, <2>1
  <2>4. [item EXCEPT !.drop = TRUE] = y BY <1>5, <2>1, <2>2
  <2> QED BY <2>3, <2>4
<1>6. ASSUME ~item.drop, [item EXCEPT !.drop = TRUE] \in S
      PROVE  \E y \in {c \in S : c.drop} : item = [y EXCEPT !.drop = FALSE]
  <2> DEFINE y == [item EXCEPT !.drop = TRUE]
  <2>1. item \in [name : {item.name}, drop : BOOLEAN] BY <1>1
  <2>2. item.drop = FALSE BY <1>6, <2>1
  <2>3. y.drop = TRUE /\ item = [y EXCEPT !.drop = FALSE] BY <2>1, <2>2
  <2> QED BY <1>6, <2>3
<1> QED BY <1>3, <1>4, <1>5, <1>6

\* The packages of the files from level i on: each that comes from one of them, and
\* the furthest first.
FromLevel(i, list) ==
    /\ list \in Seq(Items)
    /\ \A item \in Items : item \in ToSet(list) <=> From(i, item) # {}
    /\ Falling(list, Furthest(i))

(* A file that inherits no packages has its own.                           *)
LEMMA WholeLevel ==
    ASSUME Resolved, NEW i \in 1..Depth, Whole(i)
    PROVE  FromLevel(i, chain[i].packages)
<1>1. Depth \in Nat \ {0} BY DEF Resolved
<1> DEFINE list == chain[i].packages
<1>2. list \in Seq(Items) BY PackagesTyped
<1>3. ASSUME NEW item
      PROVE  From(i, item) = IF item \in ToSet(list) THEN {i} ELSE {}
  <2>1. Bars(i, item) /\ (Brings(i, item) <=> item \in ToSet(list)) BY DEF Bars, Brings
  <2>2. CASE i # Depth
    <3>1. i \in 1..(Depth - 1) BY <1>1, <2>2
    <3> QED BY <1>1, <2>1, <3>1, FromStep
  <2>3. CASE i = Depth
    <3>1. i..Depth = {i} /\ i..(i - 1) = {} BY <1>1, <2>3
    <3>2. \A k : k \in From(i, item) <=> k = i /\ Brings(i, item) BY <3>1 DEF From
    <3> HIDE DEF list
    <3> QED BY <2>1, <3>2
  <2> QED BY <2>2, <2>3
<1> HIDE DEF list
<1>4. \A item \in Items : item \in ToSet(list) <=> From(i, item) # {} BY <1>3
<1>5. \A item \in ToSet(list) : Furthest(i)[item] = i
  <2>1. ToSet(list) \subseteq Items BY DEF Items, list
  <2>2. \A item \in ToSet(list) : Furthest(i)[item] \in From(i, item)
    BY <1>1, <1>4, <2>1, FurthestIs
  <2> QED BY <1>3, <2>2
<1>6. Falling(list, Furthest(i))
  <2>1. \A p \in DOMAIN list : list[p] \in ToSet(list) BY DEF ToSet
  <2>2. i >= i OBVIOUS
  <2> QED BY <1>5, <2>1, <2>2 DEF Falling
<1> QED BY <1>2, <1>4, <1>6 DEF FromLevel, list

(* A file without packages inherits them as they are.                      *)
LEMMA EmptyLevel ==
    ASSUME Resolved, NEW i \in 1..(Depth - 1), ~Whole(i), chain[i].packages = <<>>,
           NEW base, FromLevel(i + 1, base)
    PROVE  FromLevel(i, base)
<1>1. Depth \in Nat \ {0} BY DEF Resolved
<1>2. ToSet(chain[i].packages) = {} BY DEF ToSet
<1>3. ASSUME NEW item PROVE From(i, item) = From(i + 1, item)
  <2>1. ~Bars(i, item) /\ ~Brings(i, item) BY <1>2 DEF Bars, Brings
  <2> QED BY <1>1, <2>1, FromStep
<1>4. Furthest(i) = Furthest(i + 1) BY <1>3 DEF Furthest
<1> QED BY <1>3, <1>4 DEF FromLevel

(* A file with packages: what it does not drop of the inherited ones, and  *)
(* then its own.                                                           *)
LEMMA MergedLevel ==
    ASSUME Resolved, NEW i \in 1..(Depth - 1), ~Whole(i),
           NEW base, FromLevel(i + 1, base)
    PROVE  FromLevel(i, MergeList(base, chain[i].packages))
<1> DEFINE child == chain[i].packages
           a == Keep(base, ToSet(base) \ Removals(child))
           c == Additions(child)
           d == Keep(c, Items \ ToSet(a))
<1>1. Depth \in Nat \ {0} /\ i \in 1..Depth /\ i + 1 \in 1..Depth BY DEF Resolved
<1>2. base \in Seq(Items) /\ child \in Seq(Items) BY <1>1, PackagesTyped DEF FromLevel
<1>3. MergeList(base, child) = Unique(a \o c) BY DEF MergeList
<1>4. a \in Seq(Items) /\ ToSet(a) = ToSet(base) \ Removals(child)
  <2> HIDE DEF child
  <2>1. a \in Seq(Items) /\ ToSet(a) = ToSet(base) \cap (ToSet(base) \ Removals(child))
    BY <1>2, KeepIsList
  <2> QED BY <2>1
<1>5. c \in Seq(Items) /\ ToSet(c) = {x \in ToSet(child) : ~x.drop}
  <2> HIDE DEF child
  <2>1. /\ c \in Seq(Items)
        /\ ToSet(c) = ToSet(child) \cap {x \in ToSet(child) : ~x.drop}
    BY <1>2, KeepIsList DEF Additions
  <2> QED BY <2>1
<1>6. d \in Seq(Items) /\ ToSet(d) = ToSet(c) \cap (Items \ ToSet(a))
  <2> HIDE DEF a, c
  <2> QED BY <1>4, <1>5, KeepIsList
<1>7. Unique(a \o c) = Unique(a \o d)
  <2> HIDE DEF a, c
  <2>1. \A k, l \in Seq(Items) : Unique(k \o l) = Unique(k \o Keep(l, Items \ ToSet(k)))
    BY UniqueSkips
  <2> QED BY <1>4, <1>5, <2>1
<1>8. ASSUME NEW item \in Items
      PROVE  /\ item \in ToSet(a) <=> From(i + 1, item) # {} /\ ~Bars(i, item)
             /\ item \in ToSet(c) <=> Brings(i, item)
             /\ From(i, item) = (IF item \in ToSet(a) THEN From(i + 1, item) ELSE {})
                                \cup (IF item \in ToSet(c) THEN {i} ELSE {})
  <2>1. item \in Removals(child) <=> Bars(i, item) BY <1>1, RemovalsBar
  <2>2. item \in ToSet(base) <=> From(i + 1, item) # {} BY DEF FromLevel
  <2>3. item \in ToSet(a) <=> From(i + 1, item) # {} /\ ~Bars(i, item)
    <3> HIDE DEF a, child
    <3> QED BY <1>4, <2>1, <2>2
  <2>4. Brings(i, item) <=> item \in ToSet(child) /\ ~item.drop BY DEF Brings
  <2>5. item \in ToSet(c) <=> Brings(i, item)
    <3> HIDE DEF c, child
    <3> QED BY <1>5, <2>4
  <2>6. From(i, item) = (IF Bars(i, item) THEN {} ELSE From(i + 1, item))
                        \cup IF Brings(i, item) THEN {i} ELSE {}
    BY <1>1, FromStep
  <2> HIDE DEF a, c, child
  <2> QED BY <2>3, <2>5, <2>6
<1>9. /\ Furthest(i) \in [Items -> Int] /\ Furthest(i + 1) \in [Items -> Int]
      /\ \A item \in Items : From(i, item) # {} =>
           /\ Furthest(i)[item] \in From(i, item)
           /\ \A k \in From(i, item) : Furthest(i)[item] >= k
      /\ \A item \in Items : From(i + 1, item) # {} =>
           /\ Furthest(i + 1)[item] \in From(i + 1, item)
           /\ \A k \in From(i + 1, item) : Furthest(i + 1)[item] >= k
  BY <1>1, FurthestIs
<1> HIDE DEF a, c, d, child
<1>10. \A item : From(i + 1, item) \subseteq (i + 1)..Depth BY DEF From
<1>11. ToSet(a) \subseteq Items /\ ToSet(d) \subseteq Items
  <2>1. \A l \in Seq(Items) : ToSet(l) \subseteq Items BY DEF ToSet
  <2> QED BY <1>4, <1>6, <2>1
<1>12. ASSUME NEW item \in ToSet(a)
       PROVE  Furthest(i)[item] = Furthest(i + 1)[item] /\ Furthest(i)[item] > i
  <2> DEFINE f == Furthest(i)[item]
             g == Furthest(i + 1)[item]
  <2>1. item \in Items /\ From(i + 1, item) # {} BY <1>8, <1>11
  <2>2. From(i + 1, item) \subseteq From(i, item)
        /\ From(i, item) \subseteq From(i + 1, item) \cup {i}
    BY <1>8, <2>1
  <2>3. From(i, item) # {} BY <2>1, <2>2
  <2>4. g \in From(i + 1, item) /\ \A k \in From(i + 1, item) : g >= k BY <1>9, <2>1
  <2>5. f \in From(i, item) /\ \A k \in From(i, item) : f >= k BY <1>9, <2>1, <2>3
  <2> HIDE DEF f, g
  <2>6. g \in Int /\ g > i BY <1>10, <2>4
  <2>7. f \in From(i + 1, item) \/ f = i BY <2>2, <2>5
  <2>8. f \in Int BY <1>10, <2>7
  <2>9. f >= g BY <2>2, <2>4, <2>5
  <2>10. f \in From(i + 1, item) BY <2>6, <2>7, <2>8, <2>9
  <2>11. g >= f BY <2>4, <2>10
  <2>12. f = g BY <2>6, <2>8, <2>9, <2>11
  <2> QED BY <2>6, <2>12 DEF f, g
<1>13. ASSUME NEW item \in ToSet(d) PROVE Furthest(i)[item] = i
  <2>1. item \in Items /\ item \notin ToSet(a) /\ item \in ToSet(c) BY <1>6, <1>11
  <2>2. From(i, item) = {i} BY <1>8, <2>1
  <2> QED BY <1>9, <2>1, <2>2
<1>14. Falling(a, Furthest(i))
  <2>1. Falling(base, Furthest(i + 1)) BY DEF FromLevel
  <2>2. Falling(a, Furthest(i + 1)) BY <1>2, <1>9, <2>1, KeepFalls DEF a
  <2>3. \A p \in DOMAIN a : a[p] \in ToSet(a) BY DEF ToSet
  <2> QED BY <1>12, <2>2, <2>3 DEF Falling
<1>15. Falling(d, Furthest(i))
  <2>1. \A p \in DOMAIN d : d[p] \in ToSet(d) BY DEF ToSet
  <2>2. i >= i OBVIOUS
  <2> QED BY <1>13, <2>1, <2>2 DEF Falling
<1>16. a \o d \in Seq(Items) /\ ToSet(a \o d) = ToSet(a) \cup ToSet(d)
  BY <1>4, <1>6, ToSetOfConcat
<1>17. Falling(a \o d, Furthest(i))
  <2>1. \A x \in ToSet(a), y \in ToSet(d) : Furthest(i)[x] >= Furthest(i)[y]
    <3> SUFFICES ASSUME NEW x \in ToSet(a), NEW y \in ToSet(d)
                 PROVE  Furthest(i)[x] >= Furthest(i)[y]
      OBVIOUS
    <3>1. Furthest(i)[x] > i /\ Furthest(i)[y] = i BY <1>12, <1>13
    <3>2. Furthest(i)[x] \in Int BY <1>9, <1>11
    <3> QED BY <3>1, <3>2
  <2> QED BY <1>4, <1>6, <1>9, <1>14, <1>15, <2>1, ConcatFalls
<1> DEFINE u == Unique(a \o d)
<1>18. u \in Seq(Items) /\ ToSet(u) = ToSet(a) \cup ToSet(d) /\ Falling(u, Furthest(i))
  <2>1. \A l \in Seq(Items) : Unique(l) \in Seq(Items) /\ ToSet(Unique(l)) = ToSet(l)
    BY UniqueIsList
  <2>2. \A l \in Seq(Items) : Falling(l, Furthest(i)) => Falling(Unique(l), Furthest(i))
    BY <1>9, UniqueFalls
  <2> QED BY <1>16, <1>17, <2>1, <2>2
<1> HIDE DEF u
<1>19. ASSUME NEW item \in Items
       PROVE  item \in ToSet(u) <=> From(i, item) # {}
  <2>1. item \in ToSet(u) <=> item \in ToSet(a) \/ item \in ToSet(c) BY <1>6, <1>18
  <2> QED BY <1>8, <2>1
<1>20. FromLevel(i, u) BY <1>18, <1>19 DEF FromLevel
<1> QED BY <1>3, <1>7, <1>20 DEF child, u

(* A package is installed if a file brings it and no nearer one drops it,  *)
(* what is inherited before what is not.                                   *)
LEMMA PackagesAreRight ==
    ASSUME Resolved
    PROVE  PackagesRight
<1>1. PICK M : Levels(M) BY LevelsExist
<1>2. Depth \in Nat \ {0} BY DEF Resolved
<1> DEFINE Good == {i \in 1..Depth : FromLevel(i, M[i].packages)}
<1>3. Depth \in Good
  <2>1. Depth \in 1..Depth /\ Whole(Depth) BY <1>2 DEF Whole
  <2>2. M[Depth].packages = chain[Depth].packages BY <1>1, <2>1, PackagesTyped DEF Levels
  <2> QED BY <2>1, <2>2, WholeLevel
<1>4. ASSUME NEW i \in Nat, i + 1 \in Good, i \in 1..(Depth - 1) PROVE i \in Good
  <2>1. i \in 1..Depth /\ FromLevel(i + 1, M[i + 1].packages) BY <1>2, <1>4
  <2>2. M[i].packages =
          IF "packages" \in chain[i].bang THEN chain[i].packages
          ELSE IF chain[i].packages = <<>> THEN M[i + 1].packages
          ELSE MergeList(M[i + 1].packages, chain[i].packages)
    <3>1. M[i] = Merge(M[i + 1], Parsed[i]) BY <1>1, <1>4 DEF Levels
    <3>2. Parsed[i].packages = chain[i].packages /\ Parsed[i].bang = chain[i].bang
      BY <2>1, PackagesTyped
    <3>3. Merge(M[i + 1], Parsed[i]).packages =
            IF "packages" \in Parsed[i].bang THEN Parsed[i].packages
            ELSE IF Parsed[i].packages = <<>> THEN M[i + 1].packages
            ELSE MergeList(M[i + 1].packages, Parsed[i].packages)
      BY MergeFields
    <3> QED BY <3>1, <3>2, <3>3
  <2>3. Whole(i) <=> "packages" \in chain[i].bang BY <1>2, <1>4 DEF Whole, Replacing
  <2> HIDE DEF Good
  <2>4. FromLevel(i, M[i].packages)
    <3>1. CASE Whole(i) BY <2>1, <2>2, <2>3, <3>1, WholeLevel
    <3>2. CASE ~Whole(i) /\ chain[i].packages = <<>>
      BY <1>4, <2>1, <2>2, <2>3, <3>2, EmptyLevel
    <3>3. CASE ~Whole(i) /\ chain[i].packages # <<>>
      <4>1. FromLevel(i, MergeList(M[i + 1].packages, chain[i].packages))
        BY <1>4, <2>1, <3>3, MergedLevel
      <4> QED BY <2>2, <2>3, <3>3, <4>1
    <3> QED BY <3>1, <3>2, <3>3
  <2> QED BY <2>1, <2>4 DEF Good
<1>5. FromLevel(1, podfile.packages)
  <2>1. Good \in SUBSET Nat /\ 1 \in 1..Depth BY <1>2
  <2>2. 1 \in Good
    <3> HIDE DEF Good
    <3> QED BY <1>2, <1>3, <1>4, <2>1, Descent
  <2> QED BY <1>1, <2>2 DEF Levels
<1>6. \A item : Sources(item) = From(1, item) BY DEF Sources, From
<1>7. \A item \in Items : item \in ToSet(podfile.packages) <=> Sources(item) # {}
  BY <1>5, <1>6 DEF FromLevel
<1>8. ASSUME NEW p \in DOMAIN podfile.packages, NEW q \in DOMAIN podfile.packages, p < q
      PROVE  Max(Sources(podfile.packages[p])) >= Max(Sources(podfile.packages[q]))
  <2> DEFINE list == podfile.packages
  <2>1. list \in Seq(Items) /\ Falling(list, Furthest(1)) BY <1>5 DEF FromLevel
  <2> HIDE DEF list
  <2>2. \A n \in DOMAIN list : list[n] \in Items /\ list[n] \in ToSet(list) BY <2>1 DEF ToSet
  <2>3. \A n \in DOMAIN list : Furthest(1)[list[n]] = Max(Sources(list[n]))
    <3>1. 1 \in 1..Depth BY <1>2
    <3>2. \A n \in DOMAIN list : From(1, list[n]) # {} BY <1>6, <1>7, <2>2 DEF list
    <3> QED BY <1>2, <1>6, <2>2, <3>1, <3>2, FurthestIs
  <2>4. Furthest(1)[list[p]] >= Furthest(1)[list[q]] BY <1>8, <2>1 DEF Falling, list
  <2>5. p \in DOMAIN list /\ q \in DOMAIN list BY DEF list
  <2> QED BY <2>3, <2>4, <2>5 DEF list
<1> QED BY <1>7, <1>8 DEF PackagesRight, Items

\* What becomes of an entry of the base keeps its name.
Keeps(merged, base) ==
    \A b \in ToSet(base) : merged[b].name = b.name /\ (merged[b].drop <=> b.drop)

\* The list drops the name.
Drops(list, n) == \E e \in ToSet(list) : e.name = n /\ e.drop

\* What mergeServices and mergeRepos have in common: what becomes of the entries of the
\* base that remain, and what is added.
Joined(base, child, merged) == Mapped(Remaining(base, child), merged) \o Added(base, child)
Staying(base, child) == {b \in ToSet(base) : ~Dropped(b, child)}
Replaced(base, child, merged) == {merged[b] : b \in Staying(base, child)}
Brought(base, child) ==
    {c \in ToSet(child) : ~c.drop /\ ~ \E b \in ToSet(base) : Same(b, c)}

(* Every list is a list of its own entries.                                *)
LEMMA ListOfOwn ==
    ASSUME NEW T, NEW list \in Seq(T)
    PROVE  list \in Seq(ToSet(list)) /\ ToSet(list) \subseteq T
<1>1. Len(list) \in Nat /\ list = [i \in 1..Len(list) |-> list[i]] /\ DOMAIN list = 1..Len(list)
  OBVIOUS
<1>2. \A i \in 1..Len(list) : list[i] \in ToSet(list) /\ list[i] \in T BY <1>1 DEF ToSet
<1>3. ToSet(list) = {list[i] : i \in 1..Len(list)} BY <1>1 DEF ToSet
<1> QED BY <1>1, <1>2, <1>3

\* A list is a list of its own entries, and has those that stay and those that are brought.
OwnList(list) == list \in Seq(ToSet(list))
Joins(base, child, merged) ==
    /\ OwnList(Joined(base, child, merged))
    /\ \A e : e \in ToSet(Joined(base, child, merged)) <=>
                 e \in Replaced(base, child, merged) \/ e \in Brought(base, child)

(* What is joined are the entries that remain, replaced, and those added.  *)
LEMMA JoinedIsList ==
    ASSUME NEW base, NEW child, NEW merged, OwnList(base), OwnList(child)
    PROVE  Joins(base, child, merged)
<1> DEFINE stay == Staying(base, child)
           new == Brought(base, child)
           r == Remaining(base, child)
           a == Added(base, child)
           m == Mapped(r, merged)
           U == ToSet(child) \cup {merged[b] : b \in ToSet(base)}
<1>1. ToSet(child) \subseteq U /\ \A b \in ToSet(base) : merged[b] \in U OBVIOUS
<1>2. base \in Seq(ToSet(base)) /\ child \in Seq(ToSet(child)) BY DEF OwnList
<1>3. r = Keep(base, stay) /\ a = Keep(child, new) BY DEF Remaining, Added, Staying, Brought
<1>4. stay \subseteq ToSet(base) /\ new \subseteq ToSet(child) BY DEF Staying, Brought
<1> HIDE DEF stay, new, r, a, U
<1>5. r \in Seq(ToSet(base)) /\ ToSet(r) = stay
  <2> DEFINE S == ToSet(base)
  <2>1. base \in Seq(S) /\ stay \subseteq S BY <1>2, <1>4
  <2> HIDE DEF S
  <2>2. r \in Seq(S) /\ ToSet(r) = ToSet(base) \cap stay BY <1>3, <2>1, KeepIsList
  <2> QED BY <2>1, <2>2 DEF S
<1>6. a \in Seq(ToSet(child)) /\ ToSet(a) = new
  <2> DEFINE S == ToSet(child)
  <2>1. child \in Seq(S) /\ new \subseteq S BY <1>2, <1>4
  <2> HIDE DEF S
  <2>2. a \in Seq(S) /\ ToSet(a) = ToSet(child) \cap new BY <1>3, <2>1, KeepIsList
  <2> QED BY <2>1, <2>2 DEF S
<1>7. Len(r) \in Nat /\ DOMAIN r = 1..Len(r) /\ \A i \in 1..Len(r) : r[i] \in ToSet(base)
  BY <1>5
<1>8. m = [i \in 1..Len(r) |-> merged[r[i]]] BY <1>7 DEF Mapped
<1>9. m \in Seq(U) /\ DOMAIN m = 1..Len(r) BY <1>1, <1>7, <1>8
<1>10. ToSet(m) = {merged[b] : b \in stay}
  <2>1. ToSet(m) = {merged[r[i]] : i \in 1..Len(r)} BY <1>8, <1>9 DEF ToSet
  <2>2. stay = {r[i] : i \in 1..Len(r)} BY <1>5, <1>7 DEF ToSet
  <2> QED BY <2>1, <2>2
<1> HIDE DEF m
<1>11. a \in Seq(U) BY <1>1, <1>6
<1>12. m \o a \in Seq(U) /\ ToSet(m \o a) = ToSet(m) \cup ToSet(a)
  BY <1>9, <1>11, ToSetOfConcat
<1>13. Replaced(base, child, merged) = ToSet(m) BY <1>10 DEF Replaced, stay
<1>14. Joined(base, child, merged) = m \o a BY DEF Joined, r, a, m
<1>15. OwnList(m \o a) BY <1>12, ListOfOwn DEF OwnList
<1> QED BY <1>6, <1>12, <1>13, <1>14, <1>15 DEF Joins, new

\* What becomes of the entries of a name when a base and a child are merged, the entries
\* of the base by merged.
Merges(list, base, child, merged, n) ==
    Entries(list, n) =
      {merged[b] : b \in {b \in Entries(base, n) : ~Drops(child, n)}}
      \cup {c \in Entries(child, n) : Entries(base, n) = {}}

(* What is joined of a name: the entries of the base, replaced, unless the *)
(* child drops them, and those of the child if the base had none.          *)
LEMMA JoinedEntries ==
    ASSUME NEW base, NEW child, NEW merged, NEW n,
           OwnList(base), OwnList(child), Keeps(merged, base)
    PROVE  Merges(Joined(base, child, merged), base, child, merged, n)
<1>1. Joins(base, child, merged) BY JoinedIsList
<1> DEFINE old == {merged[b] : b \in {b \in Entries(base, n) : ~Drops(child, n)}}
           new == {c \in Entries(child, n) : Entries(base, n) = {}}
           j == Joined(base, child, merged)
<1>2. ASSUME NEW e \in Entries(j, n) PROVE e \in old \cup new
  <2>1. e \in ToSet(j) /\ e.name = n /\ ~e.drop BY DEF Entries
  <2>2. CASE e \in Brought(base, child)
    <3>1. e \in Entries(child, n) /\ \A b \in ToSet(base) : ~Same(b, e)
      BY <2>1, <2>2 DEF Entries, Brought
    <3>2. Entries(base, n) = {} BY <2>1, <3>1 DEF Entries, Same
    <3> QED BY <3>1, <3>2
  <2>3. CASE e \in Replaced(base, child, merged)
    <3>1. PICK b \in ToSet(base) : ~Dropped(b, child) /\ e = merged[b]
      BY <2>3 DEF Replaced, Staying
    <3>2. b.name = n /\ ~b.drop BY <2>1, <3>1 DEF Keeps
    <3>3. b \in Entries(base, n) /\ ~Drops(child, n) BY <3>1, <3>2 DEF Dropped, Drops, Entries
    <3> QED BY <3>1, <3>3
  <2> QED BY <1>1, <2>1, <2>2, <2>3 DEF Joins
<1>3. ASSUME NEW e \in old PROVE e \in Entries(j, n)
  <2>1. PICK b \in Entries(base, n) : ~Drops(child, n) /\ e = merged[b] OBVIOUS
  <2>2. b \in ToSet(base) /\ b.name = n /\ ~b.drop BY DEF Entries
  <2>3. ~Dropped(b, child) BY <2>1, <2>2 DEF Dropped, Drops
  <2>4. e \in ToSet(j) BY <1>1, <2>1, <2>2, <2>3 DEF Joins, Replaced, Staying
  <2> QED BY <2>1, <2>2, <2>4 DEF Entries, Keeps
<1>4. ASSUME NEW e \in new PROVE e \in Entries(j, n)
  <2>1. e \in ToSet(child) /\ e.name = n /\ ~e.drop /\ Entries(base, n) = {} BY DEF Entries
  <2>2. \A b \in ToSet(base) : ~Same(b, e) BY <2>1 DEF Same, Entries
  <2>3. e \in ToSet(j) BY <1>1, <2>1, <2>2 DEF Joins, Brought
  <2> QED BY <2>1, <2>3 DEF Entries
<1> HIDE DEF old, new, j
<1>5. Entries(j, n) = old \cup new BY <1>2, <1>3, <1>4
<1> QED BY <1>5 DEF Merges, old, new, j

(* The last entry that overrides is the child's, and of the same name.     *)
LEMMA OverridingIs ==
    ASSUME NEW T, NEW child \in Seq(T), NEW b
    PROVE  /\ Overriding(b, child) # <<>> =>
                /\ Last(Overriding(b, child)) \in ToSet(child)
                /\ Same(b, Last(Overriding(b, child)))
           /\ Overriding(b, child) = <<>> => \A c \in ToSet(child) : ~Same(b, c)
<1> DEFINE set == {c \in ToSet(child) : Same(b, c)}
           o == Overriding(b, child)
<1>1. o = Keep(child, set) BY DEF Overriding
<1>2. set \subseteq ToSet(child) OBVIOUS
<1> HIDE DEF set, o
<1>3. o \in Seq(T) /\ ToSet(o) = set
  <2>1. o \in Seq(T) /\ ToSet(o) = ToSet(child) \cap set BY <1>1, KeepIsList
  <2> QED BY <1>2, <2>1
<1>4. ASSUME o # <<>> PROVE Last(o) \in ToSet(o)
  <2>1. Len(o) \in DOMAIN o BY <1>3, <1>4
  <2> QED BY <2>1 DEF Last, ToSet
<1>5. ASSUME o = <<>> PROVE set = {} BY <1>3, <1>5 DEF ToSet
<1> QED BY <1>3, <1>4, <1>5 DEF o, set

RepoFields == {"name", "drop", "path", "branch"}

\* A list of services or of repositories.
EntryList(list, key) ==
    /\ list \in Seq(ToSet(list))
    /\ key = "repos" => \A e \in ToSet(list) : RepoFields \subseteq DOMAIN e

\* What mergeServices makes of an entry of the base.
ServiceOf(base, child) ==
    [b \in ToSet(base) |->
        IF Overriding(b, child) = <<>> THEN b ELSE Last(Overriding(b, child))]

(* mergeServices joins, and keeps the name of what it replaces.            *)
LEMMA ServicesJoined ==
    ASSUME NEW base, NEW child,
           EntryList(base, "services"), EntryList(child, "services")
    PROVE  /\ MergeServices(base, child) = Joined(base, child, ServiceOf(base, child))
           /\ EntryList(MergeServices(base, child), "services")
           /\ \A n : Merges(MergeServices(base, child), base, child, ServiceOf(base, child), n)
<1> DEFINE m == ServiceOf(base, child)
<1>1. OwnList(base) /\ OwnList(child) BY DEF EntryList, OwnList
<1>2. MergeServices(base, child) = Joined(base, child, m)
  BY DEF MergeServices, Joined, Mapped, ServiceOf
<1>3. ASSUME NEW b \in ToSet(base) PROVE m[b].name = b.name /\ (m[b].drop <=> b.drop)
  <2>1. m[b] = IF Overriding(b, child) = <<>> THEN b ELSE Last(Overriding(b, child))
    BY DEF ServiceOf
  <2>2. CASE Overriding(b, child) = <<>> BY <2>1, <2>2
  <2>3. CASE Overriding(b, child) # <<>>
    <3>1. Same(b, Last(Overriding(b, child))) BY <1>1, <2>3, OverridingIs DEF OwnList
    <3> QED BY <2>1, <2>3, <3>1 DEF Same
  <2> QED BY <2>2, <2>3
<1>4. Keeps(m, base) BY <1>3 DEF Keeps
<1> HIDE DEF m
<1>5. Joins(base, child, m) BY <1>1, JoinedIsList
<1>6. EntryList(MergeServices(base, child), "services")
  BY <1>2, <1>5 DEF EntryList, Joins, OwnList
<1>7. \A n : Merges(MergeServices(base, child), base, child, m, n)
  BY <1>1, <1>2, <1>4, JoinedEntries
<1> QED BY <1>2, <1>6, <1>7 DEF m

\* The first entry of the base that is the same, and what mergeRepos makes of one.
FirstOf(base, b) == Keep(base, {a \in ToSet(base) : Same(a, b)})[1]
RepoOf(base, child) ==
    [b \in ToSet(base) |->
        IF Overriding(b, child) = <<>> THEN b
        ELSE WithBranch(WithPath(FirstOf(base, b), Last(Overriding(b, child))),
                        Last(Overriding(b, child)))]

(* The first entry of the base that is the same has the name.              *)
LEMMA FirstIs ==
    ASSUME NEW T, NEW base \in Seq(T), NEW b \in ToSet(base), Same(b, b)
    PROVE  FirstOf(base, b) \in ToSet(base) /\ Same(FirstOf(base, b), b)
<1> DEFINE set == {a \in ToSet(base) : Same(a, b)}
           k == Keep(base, set)
<1>1. FirstOf(base, b) = k[1] /\ b \in set /\ set \subseteq ToSet(base) BY DEF FirstOf
<1>2. k \in Seq(T) /\ ToSet(k) = set
  <2> HIDE DEF set
  <2>1. k \in Seq(T) /\ ToSet(k) = ToSet(base) \cap set BY KeepIsList
  <2> QED BY <1>1, <2>1
<1> HIDE DEF k
<1>3. 1 \in DOMAIN k
  <2>1. ToSet(k) # {} BY <1>1, <1>2
  <2>2. k # <<>> BY <2>1 DEF ToSet
  <2> QED BY <1>2, <2>2
<1>4. k[1] \in set BY <1>2, <1>3 DEF ToSet
<1> QED BY <1>1, <1>4

(* An overridden repository has the path of the child if that gives one,   *)
(* and its branch.                                                         *)
LEMMA Overridden ==
    ASSUME NEW r, NEW c, RepoFields \subseteq DOMAIN r
    PROVE  LET e == WithBranch(WithPath(r, c), c) IN
           /\ DOMAIN e = DOMAIN r
           /\ e.name = r.name /\ e.drop = r.drop
           /\ e.path = Or(c.path, r.path) /\ e.branch = Or(c.branch, r.branch)
<1> DEFINE g == WithPath(r, c)
<1>1. /\ DOMAIN g = DOMAIN r /\ g.name = r.name /\ g.drop = r.drop
      /\ g.path = Or(c.path, r.path) /\ g.branch = r.branch
  BY DEF WithPath, RepoFields
<1> HIDE DEF g
<1>2. /\ DOMAIN WithBranch(g, c) = DOMAIN g
      /\ WithBranch(g, c).name = g.name /\ WithBranch(g, c).drop = g.drop
      /\ WithBranch(g, c).path = g.path /\ WithBranch(g, c).branch = Or(c.branch, g.branch)
  BY <1>1 DEF WithBranch, RepoFields
<1> QED BY <1>1, <1>2 DEF g

(* mergeRepos joins, and keeps the name of what it overrides.              *)
LEMMA ReposJoined ==
    ASSUME NEW base, NEW child, EntryList(base, "repos"), EntryList(child, "repos")
    PROVE  /\ EntryList(MergeRepos(base, child), "repos")
           /\ \A n : Merges(MergeRepos(base, child), base, child, RepoOf(base, child), n)
           /\ \A b \in ToSet(base) :
                \/ /\ RepoOf(base, child)[b] = b
                   /\ \A c \in ToSet(child) : ~Same(b, c)
                \/ \E first \in ToSet(base), c \in ToSet(child) :
                     /\ Same(first, b) /\ Same(b, c)
                     /\ RepoOf(base, child)[b].path = Or(c.path, first.path)
                     /\ RepoOf(base, child)[b].branch = Or(c.branch, first.branch)
<1> DEFINE m == RepoOf(base, child)
<1>1. OwnList(base) /\ OwnList(child) BY DEF EntryList, OwnList
<1>2. MergeRepos(base, child) = Joined(base, child, m)
  BY DEF MergeRepos, Joined, Mapped, RepoOf, FirstOf
<1>3. /\ \A e \in ToSet(base) : RepoFields \subseteq DOMAIN e
      /\ \A e \in ToSet(child) : RepoFields \subseteq DOMAIN e
  BY DEF EntryList
<1>5. ASSUME NEW b \in ToSet(base)
      PROVE  /\ m[b].name = b.name /\ (m[b].drop <=> b.drop) /\ RepoFields \subseteq DOMAIN m[b]
             /\ \/ /\ m[b] = b
                   /\ \A c \in ToSet(child) : ~Same(b, c)
                \/ \E first \in ToSet(base), c \in ToSet(child) :
                     /\ Same(first, b) /\ Same(b, c)
                     /\ m[b].path = Or(c.path, first.path)
                     /\ m[b].branch = Or(c.branch, first.branch)
  <2> DEFINE o == Overriding(b, child)
             c == Last(o)
             first == FirstOf(base, b)
  <2>1. m[b] = IF o = <<>> THEN b ELSE WithBranch(WithPath(first, c), c) BY DEF RepoOf
  <2>2. /\ o # <<>> => c \in ToSet(child) /\ Same(b, c)
        /\ o = <<>> => \A d \in ToSet(child) : ~Same(b, d)
    BY <1>1, OverridingIs DEF OwnList
  <2> HIDE DEF m, o, c
  <2>3. CASE o = <<>> BY <1>3, <2>1, <2>2, <2>3
  <2>4. CASE o # <<>>
    <3>1. Same(b, c) /\ c \in ToSet(child) /\ Same(b, b) BY <2>2, <2>4 DEF Same
    <3>2. first \in ToSet(base) /\ Same(first, b) BY <1>1, <3>1, FirstIs DEF OwnList
    <3> HIDE DEF first
    <3>3. RepoFields \subseteq DOMAIN first BY <1>3, <3>2
    <3>4. /\ DOMAIN m[b] = DOMAIN first
          /\ m[b].name = first.name /\ m[b].drop = first.drop
          /\ m[b].path = Or(c.path, first.path) /\ m[b].branch = Or(c.branch, first.branch)
      BY <2>1, <2>4, <3>3, Overridden
    <3>5. m[b].name = b.name /\ (m[b].drop <=> b.drop) BY <3>2, <3>4 DEF Same
    <3> QED BY <3>1, <3>2, <3>3, <3>4, <3>5
  <2> QED BY <2>3, <2>4
<1>6. Keeps(m, base) BY <1>5 DEF Keeps
<1> HIDE DEF m
<1>7. Joins(base, child, m) BY <1>1, JoinedIsList
<1>8. EntryList(MergeRepos(base, child), "repos")
  <2>1. ASSUME NEW e \in ToSet(Joined(base, child, m)) PROVE RepoFields \subseteq DOMAIN e
    <3>1. CASE e \in Brought(base, child) BY <1>3, <3>1 DEF Brought
    <3>2. CASE e \in Replaced(base, child, m) BY <1>5, <3>2 DEF Replaced, Staying
    <3> QED BY <1>7, <3>1, <3>2 DEF Joins
  <2> QED BY <1>2, <1>7, <2>1 DEF EntryList, Joins, OwnList
<1>9. \A n : Merges(MergeRepos(base, child), base, child, m, n)
  BY <1>1, <1>2, <1>6, JoinedEntries
<1> QED BY <1>5, <1>8, <1>9 DEF m

\* mergeServices or mergeRepos.
MergeOf(key, base, child) ==
    IF key = "services" THEN MergeServices(base, child) ELSE MergeRepos(base, child)

(* A name is there after a merge if the base has it and the child does not *)
(* drop it, or the child brings it anew.                                   *)
LEMMA MergedLives ==
    ASSUME NEW key \in {"services", "repos"},
           NEW base, NEW child, EntryList(base, key), EntryList(child, key)
    PROVE  /\ EntryList(MergeOf(key, base, child), key)
           /\ \A n : Entries(MergeOf(key, base, child), n) # {} <=>
                       \/ Entries(base, n) # {} /\ ~Drops(child, n)
                       \/ Entries(base, n) = {} /\ Entries(child, n) # {}
<1>1. ASSUME NEW list, NEW merged, NEW n, Merges(list, base, child, merged, n)
      PROVE  Entries(list, n) # {} <=>
                       \/ Entries(base, n) # {} /\ ~Drops(child, n)
                       \/ Entries(base, n) = {} /\ Entries(child, n) # {}
  BY <1>1 DEF Merges
<1>2. CASE key = "services"
  <2>1. /\ EntryList(MergeServices(base, child), "services")
        /\ \A n : Merges(MergeServices(base, child), base, child, ServiceOf(base, child), n)
    BY <1>2, ServicesJoined
  <2> QED BY <1>1, <1>2, <2>1 DEF MergeOf
<1>3. CASE key = "repos"
  <2>1. /\ EntryList(MergeRepos(base, child), "repos")
        /\ \A n : Merges(MergeRepos(base, child), base, child, RepoOf(base, child), n)
    BY <1>3, ReposJoined
  <2> QED BY <1>1, <1>3, <2>1 DEF MergeOf
<1> QED BY <1>2, <1>3

(* The services and the repositories of a file are lists of entries, of    *)
(* the names and the paths that were written, each with its branch.        *)
LEMMA EntriesTyped ==
    ASSUME Resolved, NEW i \in 1..Depth
    PROVE  /\ Parsed[i].services = chain[i].services
           /\ Parsed[i].bang = chain[i].bang
           /\ \A n : Entries(Parsed[i].repos, n) =
                       {DefaultBranch(c) : c \in Entries(chain[i].repos, n)}
           /\ \A c \in ToSet(chain[i].repos) : RepoFields \subseteq DOMAIN c
           /\ \A key \in {"services", "repos"} :
                /\ EntryList(Parsed[i][key], key)
                /\ \A n : /\ Entries(Parsed[i][key], n) # {} <=> Entries(chain[i][key], n) # {}
                          /\ Drops(Parsed[i][key], n) <=> Drops(chain[i][key], n)
<1> DEFINE l == chain[i].repos
           p == Parsed[i].repos
<1>1. /\ Parsed[i].services = chain[i].services /\ Parsed[i].bang = chain[i].bang
      /\ p = [k \in DOMAIN l |-> DefaultBranch(l[k])]
  BY ParsedFields
<1>2. /\ chain[i].services \in Seq(ToSet(chain[i].services))
      /\ l \in Seq(ToSet(l))
      /\ \A c \in ToSet(l) : RepoFields \subseteq DOMAIN c
  <2>1. chain[i] \in Contents \ {Missing} /\ ParseRaw(chain[i]) # Malformed
    BY DEF Resolved, Depth
  <2>2. chain[i] # Malformed BY <2>1 DEF ParseRaw
  <2>3. PICK q \in Problems : chain[i] \in FilesOf(q) \ {Missing, Malformed}
    BY <2>1, <2>2 DEF Contents
  <2> QED BY <2>3, ProblemsAssumption DEF ProblemsAssumption, RepoFields
<1>3. EntryList(Parsed[i].services, "services") BY <1>1, <1>2 DEF EntryList
<1> HIDE DEF l, p
<1>4. \A c \in ToSet(l) :
        /\ DefaultBranch(c).name = c.name /\ DefaultBranch(c).drop = c.drop
        /\ DOMAIN DefaultBranch(c) = DOMAIN c
  BY <1>2 DEF DefaultBranch, RepoFields
<1>5. /\ Len(l) \in Nat /\ DOMAIN l = 1..Len(l)
      /\ \A k \in 1..Len(l) : l[k] \in ToSet(l)
      /\ ToSet(l) = {l[k] : k \in 1..Len(l)}
  BY <1>2 DEF ToSet
<1>6. ToSet(p) = {DefaultBranch(c) : c \in ToSet(l)}
  <2>1. ToSet(p) = {DefaultBranch(l[k]) : k \in 1..Len(l)} BY <1>1, <1>5 DEF ToSet
  <2> QED BY <1>5, <2>1
<1>7. EntryList(p, "repos")
  <2>1. p \in Seq(ToSet(p)) /\ DOMAIN p = 1..Len(l)
    <3>1. p = [k \in 1..Len(l) |-> p[k]] BY <1>1, <1>5
    <3>2. \A k \in 1..Len(l) : p[k] \in ToSet(p) BY <3>1 DEF ToSet
    <3> QED BY <1>5, <3>1, <3>2
  <2>2. \A e \in ToSet(p) : RepoFields \subseteq DOMAIN e BY <1>2, <1>4, <1>6
  <2> QED BY <2>1, <2>2 DEF EntryList
<1>8. ASSUME NEW n
      PROVE  Entries(p, n) = {DefaultBranch(c) : c \in Entries(l, n)} /\ (Drops(p, n) <=> Drops(l, n))
  <2>1. \A e \in Entries(p, n) : \E c \in Entries(l, n) : e = DefaultBranch(c)
    BY <1>4, <1>6 DEF Entries
  <2>2. \A c \in Entries(l, n) : DefaultBranch(c) \in Entries(p, n)
    BY <1>4, <1>6 DEF Entries
  <2>3. Drops(p, n) <=> Drops(l, n) BY <1>4, <1>6 DEF Drops
  <2> QED BY <2>1, <2>2, <2>3
<1>9. \A n : Entries(p, n) # {} <=> Entries(l, n) # {} BY <1>8
<1> QED BY <1>1, <1>2, <1>3, <1>7, <1>8, <1>9 DEF l, p

(* Level by level, the entries are replaced or merged.                     *)
LEMMA LevelsMerge ==
    ASSUME Resolved, NEW M, Levels(M), NEW key \in {"services", "repos"}
    PROVE  /\ \A i \in 1..Depth : EntryList(M[i][key], key)
           /\ \A i \in 1..(Depth - 1) :
                M[i][key] = IF key \in chain[i].bang THEN Parsed[i][key]
                            ELSE MergeOf(key, M[i + 1][key], Parsed[i][key])
<1>1. Depth \in Nat \ {0} BY DEF Resolved
<1>2. ASSUME NEW i \in 1..(Depth - 1)
      PROVE  M[i][key] = IF key \in chain[i].bang THEN Parsed[i][key]
                         ELSE MergeOf(key, M[i + 1][key], Parsed[i][key])
  <2>1. i \in 1..Depth BY <1>1
  <2>2. M[i] = Merge(M[i + 1], Parsed[i]) /\ Parsed[i].bang = chain[i].bang
    BY <2>1, EntriesTyped DEF Levels
  <2>3. CASE key = "services" BY <2>2, <2>3, MergeFields DEF MergeOf
  <2>4. CASE key = "repos" BY <2>2, <2>4, MergeFields DEF MergeOf
  <2> QED BY <2>3, <2>4
<1> DEFINE Listed == {i \in 1..Depth : EntryList(M[i][key], key)}
<1>3. Depth \in Listed
  <2>1. Depth \in 1..Depth BY <1>1
  <2> QED BY <2>1, EntriesTyped DEF Levels
<1>4. ASSUME NEW i \in Nat, i + 1 \in Listed, i \in 1..(Depth - 1) PROVE i \in Listed
  <2>1. i \in 1..Depth /\ EntryList(M[i + 1][key], key) BY <1>1, <1>4
  <2>2. EntryList(Parsed[i][key], key) BY <2>1, EntriesTyped
  <2>3. EntryList(MergeOf(key, M[i + 1][key], Parsed[i][key]), key)
    BY <2>1, <2>2, MergedLives
  <2> QED BY <1>2, <1>4, <2>1, <2>2, <2>3
<1>5. \A i \in 1..Depth : i \in Listed
  <2>1. Listed \in SUBSET Nat OBVIOUS
  <2> HIDE DEF Listed
  <2> QED BY <1>1, <1>3, <1>4, <2>1, Descent
<1> QED BY <1>2, <1>5

(* Nothing is dropped before the cut.                                      *)
LEMMA CutIs ==
    ASSUME Resolved, NEW key \in {"services", "repos"}, NEW n
    PROVE  /\ Cut(key, n) \in 1..Depth
           /\ \/ Cut(key, n) = Depth
              \/ Cut(key, n) \in 1..(Depth - 1) /\ key \in chain[Cut(key, n)].bang
              \/ Cut(key, n) \in 1..(Depth - 1) /\ Drops(chain[Cut(key, n)][key], n)
           /\ \A i \in 1..(Cut(key, n) - 1) :
                /\ i \in 1..(Depth - 1)
                /\ key \notin chain[i].bang /\ ~Drops(chain[i][key], n)
<1> DEFINE set == {i \in 1..Depth : \E e \in ToSet(chain[i][key]) : e.name = n /\ e.drop}
                  \cup Replacing(key)
           q == Cut(key, n)
<1>1. Depth \in Nat \ {0} BY DEF Resolved
<1>2. set \subseteq 1..Depth BY <1>1 DEF Replacing
<1>3. q = Nearest(set) BY DEF Cut
<1>4. \A i \in 1..Depth :
        i \in set <=> Drops(chain[i][key], n) \/ (i \in 1..(Depth - 1) /\ key \in chain[i].bang)
  BY DEF Drops, Replacing
<1> HIDE DEF set, q
<1>5. /\ q \in set \cup {Depth} /\ q \in 1..Depth
      /\ \A i \in 1..(q - 1) : i \notin set /\ i # Depth
  BY <1>1, <1>2, <1>3, NearestIsLeast
<1>6. q = Depth \/ q \in 1..(Depth - 1) BY <1>1, <1>5
<1>7. ASSUME NEW i \in 1..(q - 1) PROVE i \in 1..Depth /\ i \in 1..(Depth - 1) BY <1>1, <1>5
<1> QED BY <1>4, <1>5, <1>6, <1>7 DEF q

(* A name is there from a level on if a file from there to the cut has it. *)
LEMMA EntriesKept ==
    ASSUME Resolved, NEW M, Levels(M), NEW key \in {"services", "repos"}, NEW n, Settled(key, n)
    PROVE  \A i \in 1..Cut(key, n) :
             Entries(M[i][key], n) # {} <=> \E j \in i..Cut(key, n) : j \in Given(key, n)
<1> DEFINE q == Cut(key, n)
           Good == {i \in 1..q : Entries(M[i][key], n) # {} <=> \E j \in i..q : j \in Given(key, n)}
<1>1. Depth \in Nat \ {0} BY DEF Resolved
<1>2. /\ q \in 1..Depth
      /\ \/ q = Depth
         \/ q \in 1..(Depth - 1) /\ key \in chain[q].bang
         \/ q \in 1..(Depth - 1) /\ Drops(chain[q][key], n)
      /\ \A i \in 1..(q - 1) :
           i \in 1..(Depth - 1) /\ key \notin chain[i].bang /\ ~Drops(chain[i][key], n)
  BY CutIs
<1>3. /\ q \in Given(key, n) => q \in Replacing(key) \cup {Depth}
      /\ \A i \in 1..q : i \in Given(key, n) <=> Entries(chain[i][key], n) # {}
  BY DEF Settled, Given
<1>4. /\ \A i \in 1..Depth : EntryList(M[i][key], key)
      /\ \A i \in 1..(Depth - 1) :
           M[i][key] = IF key \in chain[i].bang THEN Parsed[i][key]
                       ELSE MergeOf(key, M[i + 1][key], Parsed[i][key])
  BY LevelsMerge
<1>5. \A i \in 1..Depth :
        /\ EntryList(Parsed[i][key], key)
        /\ Entries(Parsed[i][key], n) # {} <=> Entries(chain[i][key], n) # {}
        /\ Drops(Parsed[i][key], n) <=> Drops(chain[i][key], n)
  BY EntriesTyped
<1> HIDE DEF q
<1>6. Entries(M[q][key], n) # {} <=> q \in Given(key, n)
  <2>1. CASE q = Depth BY <1>2, <1>3, <1>5, <2>1 DEF Levels
  <2>2. CASE q \in 1..(Depth - 1) /\ key \in chain[q].bang BY <1>2, <1>3, <1>4, <1>5, <2>2
  <2>3. CASE q \in 1..(Depth - 1) /\ key \notin chain[q].bang /\ Drops(chain[q][key], n)
    <3>1. q # Depth /\ q \notin Replacing(key) BY <1>1, <2>3 DEF Replacing
    <3>2. q \notin Given(key, n) /\ Entries(Parsed[q][key], n) = {} BY <1>2, <1>3, <1>5, <3>1
    <3>3. q + 1 \in 1..Depth BY <1>1, <2>3
    <3>4. Entries(MergeOf(key, M[q + 1][key], Parsed[q][key]), n) = {}
      BY <1>2, <1>4, <1>5, <2>3, <3>2, <3>3, MergedLives
    <3> QED BY <1>4, <2>3, <3>2, <3>4
  <2> QED BY <1>2, <2>1, <2>2, <2>3
<1>7. q \in Good
  <2>1. q \in q..q /\ \A j \in q..q : j = q BY <1>2
  <2> QED BY <1>2, <1>6, <2>1
<1>8. ASSUME NEW i \in Nat, i + 1 \in Good, i \in 1..(q - 1) PROVE i \in Good
  <2>1. i \in 1..q /\ i \in 1..Depth /\ i + 1 \in 1..Depth
    <3> HIDE DEF Good
    <3> QED BY <1>1, <1>2, <1>8
  <2>2. M[i][key] = MergeOf(key, M[i + 1][key], Parsed[i][key]) BY <1>2, <1>4, <1>8
  <2>3. Entries(M[i][key], n) # {}
          <=> Entries(M[i + 1][key], n) # {} \/ Entries(Parsed[i][key], n) # {}
    <3>1. ~Drops(Parsed[i][key], n) BY <1>2, <1>5, <1>8, <2>1
    <3> QED BY <1>4, <1>5, <2>1, <2>2, <3>1, MergedLives
  <2>4. (\E j \in i..q : j \in Given(key, n))
          <=> i \in Given(key, n) \/ \E j \in (i + 1)..q : j \in Given(key, n)
    <3>1. i..q = {i} \cup (i + 1)..q BY <1>2, <2>1
    <3> QED BY <3>1
  <2> QED BY <1>3, <1>5, <1>8, <2>1, <2>3, <2>4
<1>9. \A i \in 1..q : i \in Good
  <2>1. Good \in SUBSET Nat /\ q \in Nat BY <1>2
  <2> HIDE DEF Good
  <2> QED BY <1>7, <1>8, <2>1, Descent
<1> QED BY <1>9 DEF q

(* A service or a repository is there if a file gives it and no nearer one *)
(* drops it.                                                               *)
LEMMA EntriesAreRight ==
    ASSUME Resolved
    PROVE  EntriesRight
<1>1. PICK M : Levels(M) BY LevelsExist
<1>2. ASSUME NEW key \in {"services", "repos"}, NEW n, Settled(key, n)
      PROVE  Entries(podfile[key], n) # {} <=> Given(key, n) # {}
  <2>1. Cut(key, n) \in 1..Depth /\ Depth \in Nat \ {0} BY CutIs DEF Resolved
  <2>2. 1 \in 1..Cut(key, n) BY <2>1
  <2>3. Entries(M[1][key], n) # {} <=> \E j \in 1..Cut(key, n) : j \in Given(key, n)
    BY <1>1, <1>2, <2>2, EntriesKept
  <2>4. Given(key, n) \subseteq 1..Cut(key, n) BY DEF Given
  <2> QED BY <1>1, <2>3, <2>4 DEF Levels
<1> QED BY <1>2 DEF EntriesRight

\* Level i is the nearest of the levels from i on.
Branched(e, i, n) ==
    \A j \in i..Cut("repos", n) :
        j \in Given("repos", n) /\ (\A k \in i..(j - 1) : k \notin Given("repos", n)) =>
            \A c \in Entries(chain[j].repos, n) : e.branch = Or(c.branch, "main")

Pathed(n) ==
    {j \in Given("repos", n) : \E c \in Entries(chain[j].repos, n) : c.path # None}

Located(e, i, n) ==
    /\ \A j \in i..Cut("repos", n) :
         j \in Pathed(n) /\ (\A k \in i..(j - 1) : k \notin Pathed(n)) =>
             \A c \in Entries(chain[j].repos, n) : e.path = c.path
    /\ (\A j \in i..Cut("repos", n) : j \notin Pathed(n)) => e.path = None

(* An entry of a file, with its branch, is what its level says, if no file *)
(* beyond it up to the cut gives the name.                                 *)
LEMMA OwnRepo ==
    ASSUME NEW n, NEW i \in 1..Cut("repos", n), Cut("repos", n) \in Nat,
           \A a, b \in Entries(chain[i].repos, n) : a = b,
           \A j \in (i + 1)..Cut("repos", n) : j \notin Given("repos", n),
           NEW c \in Entries(chain[i].repos, n), RepoFields \subseteq DOMAIN c
    PROVE  Branched(DefaultBranch(c), i, n) /\ Located(DefaultBranch(c), i, n)
<1> DEFINE e == DefaultBranch(c)
           q == Cut("repos", n)
<1>1. e.path = c.path /\ e.branch = Or(c.branch, "main") BY DEF DefaultBranch, RepoFields
<1>2. \A d \in Entries(chain[i].repos, n) : d = c OBVIOUS
<1> HIDE DEF e, q
<1>3. i \in i..q /\ \A j \in i..q : j = i \/ j \in (i + 1)..q BY DEF q
<1>4. i \in Given("repos", n) BY DEF Given
<1>5. \A j \in i..q : j \in Given("repos", n) => j = i BY <1>3 DEF q
<1>6. Pathed(n) \subseteq Given("repos", n) /\ (i \in Pathed(n) <=> c.path # None)
  BY <1>2, <1>4 DEF Pathed
<1>7. Branched(e, i, n) BY <1>1, <1>2, <1>5 DEF Branched, q
<1>8. Located(e, i, n) BY <1>1, <1>2, <1>3, <1>5, <1>6 DEF Located, q
<1> QED BY <1>7, <1>8 DEF e

(* What a nearer file makes of what is inherited.                          *)
LEMMA NearerRepo ==
    ASSUME NEW n, NEW i \in 1..Cut("repos", n), Cut("repos", n) \in Nat, i < Cut("repos", n),
           NEW first, Branched(first, i + 1, n), Located(first, i + 1, n), NEW e,
           \/ e = first /\ Entries(chain[i].repos, n) = {}
           \/ /\ \A a, b \in Entries(chain[i].repos, n) : a = b
              /\ \E c \in Entries(chain[i].repos, n) :
                   /\ e.path = Or(c.path, first.path)
                   /\ e.branch = Or(c.branch, "main")
    PROVE  Branched(e, i, n) /\ Located(e, i, n)
<1> DEFINE q == Cut("repos", n)
<1>1. /\ i \in i..q /\ \A j \in i..q : j = i \/ j \in (i + 1)..q
      /\ \A j \in (i + 1)..q : i \in i..(j - 1)
      /\ \A j \in (i + 1)..q : \A k \in (i + 1)..(j - 1) : k \in i..(j - 1)
      /\ \A j \in (i + 1)..q : j \in i..q
  OBVIOUS
<1>2. i \in Given("repos", n) <=> Entries(chain[i].repos, n) # {} BY DEF Given
<1>3. i \in Pathed(n) <=> \E c \in Entries(chain[i].repos, n) : c.path # None
  BY <1>2 DEF Pathed
<1> HIDE DEF q
<1>4. CASE e = first /\ Entries(chain[i].repos, n) = {}
  <2>1. i \notin Given("repos", n) /\ i \notin Pathed(n) BY <1>2, <1>3, <1>4
  <2>2. Branched(e, i, n) BY <1>1, <1>4, <2>1 DEF Branched, q
  <2>3. Located(e, i, n) BY <1>1, <1>4, <2>1 DEF Located, q
  <2> QED BY <2>2, <2>3
<1>5. ASSUME \A a, b \in Entries(chain[i].repos, n) : a = b,
             NEW c \in Entries(chain[i].repos, n),
             e.path = Or(c.path, first.path), e.branch = Or(c.branch, "main")
      PROVE  Branched(e, i, n) /\ Located(e, i, n)
  <2>1. i \in Given("repos", n) /\ (i \in Pathed(n) <=> c.path # None) BY <1>2, <1>3, <1>5
  <2>2. \A d \in Entries(chain[i].repos, n) : d = c BY <1>5
  <2>3. Branched(e, i, n) BY <1>1, <1>5, <2>1, <2>2 DEF Branched, q
  <2>4. CASE i \in Pathed(n)
    <3>1. e.path = c.path BY <1>5, <2>1, <2>4 DEF Or
    <3> QED BY <1>1, <2>2, <2>3, <2>4, <3>1 DEF Located, q
  <2>5. CASE i \notin Pathed(n)
    <3>1. e.path = first.path BY <1>5, <2>1, <2>5 DEF Or
    <3>2. Located(e, i, n) BY <1>1, <2>5, <3>1 DEF Located, q
    <3> QED BY <2>3, <3>2
  <2> QED BY <2>4, <2>5
<1> QED BY <1>4, <1>5

(* Its path is that of the nearest file that gives one, its branch that of *)
(* the nearest file that has the repository.                               *)
LEMMA ReposAreRight ==
    ASSUME Resolved
    PROVE  ReposRight
<1>1. PICK M : Levels(M) BY LevelsExist
<1>2. Depth \in Nat \ {0} BY DEF Resolved
<1>3. ASSUME NEW n, Settled("repos", n),
             \A i \in Given("repos", n) : \A a, b \in Entries(chain[i].repos, n) : a = b
      PROVE  \A e \in Entries(podfile.repos, n) : Branched(e, 1, n) /\ Located(e, 1, n)
  <2> DEFINE q == Cut("repos", n)
             Good == {i \in 1..q : \A e \in Entries(M[i].repos, n) :
                                     Branched(e, i, n) /\ Located(e, i, n)}
  <2>1. /\ q \in 1..Depth
        /\ \/ q = Depth
           \/ q \in 1..(Depth - 1) /\ "repos" \in chain[q].bang
           \/ q \in 1..(Depth - 1) /\ Drops(chain[q].repos, n)
        /\ \A i \in 1..(q - 1) :
             i \in 1..(Depth - 1) /\ "repos" \notin chain[i].bang /\ ~Drops(chain[i].repos, n)
    BY CutIs
  <2>2. \A i \in 1..q : \A a, b \in Entries(chain[i].repos, n) : a = b BY <1>3 DEF Given
  <2>3. /\ \A i \in 1..Depth : EntryList(M[i].repos, "repos")
        /\ \A i \in 1..(Depth - 1) :
             M[i].repos = IF "repos" \in chain[i].bang THEN Parsed[i].repos
                          ELSE MergeRepos(M[i + 1].repos, Parsed[i].repos)
    BY <1>1, LevelsMerge DEF MergeOf
  <2>4. \A i \in 1..Depth :
          /\ EntryList(Parsed[i].repos, "repos")
          /\ Entries(Parsed[i].repos, n) = {DefaultBranch(c) : c \in Entries(chain[i].repos, n)}
          /\ \A c \in Entries(chain[i].repos, n) : RepoFields \subseteq DOMAIN c
          /\ Drops(Parsed[i].repos, n) <=> Drops(chain[i].repos, n)
    BY EntriesTyped DEF Entries
  <2>5. \A i \in 1..q :
          Entries(M[i].repos, n) # {} <=> \E j \in i..q : j \in Given("repos", n)
    BY <1>1, <1>3, EntriesKept
  <2> HIDE DEF q
  <2>6. ASSUME NEW e \in Entries(M[q].repos, n) PROVE Branched(e, q, n) /\ Located(e, q, n)
    <3>1. q \in Given("repos", n)
      <4>1. q \in 1..q /\ \A j \in q..q : j = q BY <2>1
      <4> QED BY <2>5, <2>6, <4>1
    <3>2. q \in Replacing("repos") \cup {Depth} BY <1>3, <3>1 DEF Settled, q
    <3>3. M[q].repos = Parsed[q].repos
      <4>1. CASE q = Depth BY <1>1, <4>1 DEF Levels
      <4>2. CASE q \in Replacing("repos") BY <2>3, <4>2 DEF Replacing
      <4> QED BY <3>2, <4>1, <4>2
    <3>4. PICK c \in Entries(chain[q].repos, n) : e = DefaultBranch(c) BY <2>1, <2>4, <3>3
    <3>5. q \in 1..q /\ q \in Nat /\ \A j \in (q + 1)..q : FALSE BY <2>1
    <3> QED BY <2>1, <2>2, <2>4, <3>4, <3>5, OwnRepo DEF q
  <2>7. ASSUME NEW i \in Nat, i + 1 \in Good, i \in 1..(q - 1),
               NEW e \in Entries(M[i].repos, n)
        PROVE  Branched(e, i, n) /\ Located(e, i, n)
    <3> DEFINE base == M[i + 1].repos
               child == Parsed[i].repos
               m == RepoOf(base, child)
    <3>1. i \in 1..q /\ i \in 1..Depth /\ i + 1 \in 1..Depth /\ i + 1 \in 1..q /\ i < q /\ q \in Nat
      <4> HIDE DEF Good
      <4> QED BY <1>2, <2>1, <2>7
    <3>2. \A b \in Entries(base, n) : Branched(b, i + 1, n) /\ Located(b, i + 1, n) BY <2>7
    <3>3. EntryList(base, "repos") /\ EntryList(child, "repos") BY <2>3, <2>4, <3>1
    <3>4. M[i].repos = MergeRepos(base, child) BY <2>1, <2>3, <2>7
    <3>5. Entries(child, n) = {DefaultBranch(c) : c \in Entries(chain[i].repos, n)} BY <2>4, <3>1
    <3>6. \A j \in (i + 1)..q : Entries(base, n) = {} => j \notin Given("repos", n)
      BY <2>5, <3>1
    <3> HIDE DEF base, child, m, Good
    <3>7. /\ Merges(MergeRepos(base, child), base, child, m, n)
          /\ \A b \in ToSet(base) :
               \/ m[b] = b /\ \A c \in ToSet(child) : ~Same(b, c)
               \/ \E first \in ToSet(base), c \in ToSet(child) :
                    /\ Same(first, b) /\ Same(b, c)
                    /\ m[b].path = Or(c.path, first.path)
                    /\ m[b].branch = Or(c.branch, first.branch)
      BY <3>3, ReposJoined DEF m
    <3>8. CASE e \in Entries(child, n) /\ Entries(base, n) = {}
      <4>1. PICK c \in Entries(chain[i].repos, n) : e = DefaultBranch(c) BY <3>5, <3>8
      <4> QED BY <2>2, <2>4, <3>1, <3>6, <3>8, <4>1, OwnRepo DEF q
    <3>9. ASSUME NEW b \in Entries(base, n), e = m[b]
          PROVE  Branched(e, i, n) /\ Located(e, i, n)
      <4>1. b \in ToSet(base) /\ b.name = n /\ ~b.drop BY DEF Entries
      <4>2. CASE m[b] = b /\ \A c \in ToSet(child) : ~Same(b, c)
        <5>1. Entries(child, n) = {} BY <4>1, <4>2 DEF Same, Entries
        <5>2. Entries(chain[i].repos, n) = {} BY <3>5, <5>1
        <5> QED BY <3>1, <3>2, <3>9, <4>2, <5>2, NearerRepo DEF q
      <4>3. ASSUME NEW first \in ToSet(base), NEW d \in ToSet(child), Same(first, b), Same(b, d),
                   e.path = Or(d.path, first.path), e.branch = Or(d.branch, first.branch)
            PROVE  Branched(e, i, n) /\ Located(e, i, n)
        <5>1. first \in Entries(base, n) /\ d \in Entries(child, n)
          BY <4>1, <4>3 DEF Same, Entries
        <5>2. PICK c \in Entries(chain[i].repos, n) : d = DefaultBranch(c) BY <3>5, <5>1
        <5>3. RepoFields \subseteq DOMAIN c BY <2>4, <3>1
        <5>4. d.path = c.path /\ d.branch = Or(c.branch, "main")
          BY <5>2, <5>3 DEF DefaultBranch, RepoFields
        <5>5. e.path = Or(c.path, first.path) /\ e.branch = Or(c.branch, "main")
          BY <4>3, <5>4, DefaultsAssumption DEF DefaultsAssumption, Or
        <5>6. \A x, y \in Entries(chain[i].repos, n) : x = y BY <2>2, <3>1
        <5>7. Branched(first, i + 1, n) /\ Located(first, i + 1, n) BY <3>2, <5>1
        <5> QED BY <3>1, <5>5, <5>6, <5>7, NearerRepo DEF q
      <4> QED BY <3>7, <3>9, <4>1, <4>2, <4>3
    <3> QED BY <2>7, <3>4, <3>7, <3>8, <3>9 DEF Merges
  <2>8. 1 \in Good
    <3>1. Good \in SUBSET Nat /\ q \in Nat /\ q \in 1..q /\ 1 \in 1..q BY <2>1
    <3>2. q \in Good BY <2>6, <3>1
    <3>3. \A i \in Nat : i + 1 \in Good /\ i \in 1..(q - 1) => i \in Good
      <4>1. \A i \in 1..(q - 1) : i \in 1..q BY <2>1
      <4> QED BY <2>7, <4>1
    <3> HIDE DEF Good
    <3> QED BY <3>1, <3>2, <3>3, Descent
  <2> QED BY <1>1, <2>8 DEF Levels
<1>4. ASSUME NEW n, NEW levels \in SUBSET Given("repos", n), levels # {}
      PROVE  /\ Min(levels) \in levels /\ Min(levels) \in 1..Cut("repos", n)
             /\ \A k \in 1..(Min(levels) - 1) : k \notin levels
  <2>1. Given("repos", n) \subseteq 1..Cut("repos", n) /\ Cut("repos", n) \in Nat
    BY CutIs DEF Given
  <2>2. levels \in SUBSET Nat /\ levels \subseteq 1..Cut("repos", n) BY <2>1
  <2>3. Min(levels) \in levels /\ \A k \in levels : Min(levels) <= k
    BY <1>4, <2>2, LeastExists DEF Min
  <2>4. Min(levels) \in 1..Cut("repos", n) /\ Min(levels) \in Nat BY <2>1, <2>2, <2>3
  <2>5. ASSUME NEW k \in 1..(Min(levels) - 1) PROVE k \notin levels
    <3>1. ~(Min(levels) <= k) BY <2>4, <2>5
    <3> QED BY <2>3, <3>1
  <2> QED BY <2>3, <2>4, <2>5
<1>5. ASSUME NEW n \in Names("repos"), Settled("repos", n),
             \A i \in Given("repos", n) : \A a, b \in Entries(chain[i].repos, n) : a = b,
             NEW e \in Entries(podfile.repos, n)
      PROVE  /\ \A c \in Entries(chain[Min(Given("repos", n))].repos, n) :
                  e.branch = Or(c.branch, "main")
             /\ IF Pathed(n) = {} THEN e.path = None
                ELSE \A c \in Entries(chain[Min(Pathed(n))].repos, n) : e.path = c.path
  <2>1. Branched(e, 1, n) /\ Located(e, 1, n) BY <1>3, <1>5
  <2>2. Given("repos", n) # {}
    <3>1. EntriesRight BY EntriesAreRight
    <3> QED BY <1>5, <3>1 DEF EntriesRight
  <2>3. \A c \in Entries(chain[Min(Given("repos", n))].repos, n) : e.branch = Or(c.branch, "main")
    <3>1. /\ Min(Given("repos", n)) \in Given("repos", n)
          /\ Min(Given("repos", n)) \in 1..Cut("repos", n)
          /\ \A k \in 1..(Min(Given("repos", n)) - 1) : k \notin Given("repos", n)
      BY <1>4, <2>2
    <3> QED BY <2>1, <3>1 DEF Branched
  <2>4. CASE Pathed(n) = {} BY <2>1, <2>3, <2>4 DEF Located
  <2>5. CASE Pathed(n) # {}
    <3>1. Pathed(n) \in SUBSET Given("repos", n) BY DEF Pathed
    <3>2. /\ Min(Pathed(n)) \in Pathed(n) /\ Min(Pathed(n)) \in 1..Cut("repos", n)
          /\ \A k \in 1..(Min(Pathed(n)) - 1) : k \notin Pathed(n)
      BY <1>4, <2>5, <3>1
    <3> QED BY <2>1, <2>3, <2>5, <3>2 DEF Located
  <2> QED BY <2>4, <2>5
<1> QED BY <1>5 DEF ReposRight, Pathed

(* A service is taken from the nearest file that has one of that name.     *)
LEMMA ServicesAreRight ==
    ASSUME Resolved
    PROVE  ServicesRight
<1>1. PICK M : Levels(M) BY LevelsExist
<1>2. Depth \in Nat \ {0} BY DEF Resolved
<1>3. ASSUME NEW n
      PROVE  LET own == {i \in 1..Depth :
                           \E e \in ToSet(chain[i].services) : e.name = n /\ ~e.drop}
             IN  \A e \in ToSet(podfile.services) :
                   e.name = n /\ ~e.drop => e \in ToSet(chain[Nearest(own)].services)
  <2> DEFINE own == {i \in 1..Depth :
                       \E e \in ToSet(chain[i].services) : e.name = n /\ ~e.drop}
             q == Nearest(own)
             nearest == ToSet(chain[q].services)
             Good == {i \in 1..Depth :
                        /\ EntryList(M[i].services, "services")
                        /\ \A e \in ToSet(M[i].services) : e.name = n /\ ~e.drop => e \in nearest}
  <2>1. own \subseteq 1..Depth OBVIOUS
  <2>2. ASSUME NEW i \in 1..Depth
        PROVE  i \in own <=> \E e \in ToSet(chain[i].services) : e.name = n /\ ~e.drop
    OBVIOUS
  <2> HIDE DEF own
  <2>3. /\ q \in own \cup {Depth} /\ q \in 1..Depth
        /\ \A i \in 1..(q - 1) : i \notin own /\ i # Depth
    BY <1>2, <2>1, NearestIsLeast
  <2> HIDE DEF q
  <2>4. ASSUME NEW i \in 1..Depth
        PROVE  /\ Parsed[i].services = chain[i].services /\ Parsed[i].bang = chain[i].bang
               /\ EntryList(chain[i].services, "services")
    BY EntriesTyped
  <2>5. ASSUME NEW base, NEW child, EntryList(base, "services"), EntryList(child, "services"),
               NEW e \in ToSet(MergeServices(base, child)), e.name = n, ~e.drop
        PROVE  \/ e \in ToSet(child)
               \/ e \in ToSet(base) /\ \A c \in ToSet(child) : ~(c.name = n /\ ~c.drop)
    <3> DEFINE m == ServiceOf(base, child)
    <3>1. OwnList(base) /\ OwnList(child) BY <2>5 DEF EntryList, OwnList
    <3>2. \A b \in ToSet(base) :
            m[b] = IF Overriding(b, child) = <<>> THEN b ELSE Last(Overriding(b, child))
      BY DEF ServiceOf
    <3>3. MergeServices(base, child) = Joined(base, child, m) BY <2>5, ServicesJoined
    <3>4. \A b \in ToSet(base) :
            /\ Overriding(b, child) # <<>> => Last(Overriding(b, child)) \in ToSet(child)
            /\ Overriding(b, child) = <<>> => \A c \in ToSet(child) : ~Same(b, c)
      BY <3>1, OverridingIs DEF OwnList
    <3> HIDE DEF m
    <3>6. Joins(base, child, m) BY <3>1, JoinedIsList
    <3>7. CASE e \in Brought(base, child) BY <3>7 DEF Brought
    <3>8. CASE e \in Replaced(base, child, m)
      <4>1. PICK b \in ToSet(base) : e = m[b] BY <3>8 DEF Replaced, Staying
      <4>2. CASE Overriding(b, child) # <<>> BY <3>2, <3>4, <4>1, <4>2
      <4>3. CASE Overriding(b, child) = <<>>
        <5>1. e = b BY <3>2, <4>1, <4>3
        <5>2. \A c \in ToSet(child) : ~Same(b, c) BY <3>4, <4>3
        <5> QED BY <2>5, <5>1, <5>2 DEF Same
      <4> QED BY <4>2, <4>3
    <3> QED BY <2>5, <3>3, <3>6, <3>7, <3>8 DEF Joins
  <2>6. ASSUME NEW i \in 1..(Depth - 1)
        PROVE  M[i].services = IF "services" \in chain[i].bang THEN chain[i].services
                               ELSE MergeServices(M[i + 1].services, chain[i].services)
    <3>1. i \in 1..Depth BY <1>2
    <3>2. M[i] = Merge(M[i + 1], Parsed[i]) BY <1>1 DEF Levels
    <3>3. Merge(M[i + 1], Parsed[i]).services =
            IF "services" \in Parsed[i].bang THEN Parsed[i].services
            ELSE MergeServices(M[i + 1].services, Parsed[i].services)
      BY MergeFields
    <3> QED BY <2>4, <3>1, <3>2, <3>3
  <2> DEFINE Listed == {i \in 1..Depth : EntryList(M[i].services, "services")}
  <2>7. \A i \in 1..Depth : i \in Listed
    <3>1. Depth \in Listed
      <4>1. Depth \in 1..Depth BY <1>2
      <4> QED BY <1>1, <2>4, <4>1 DEF Levels
    <3>2. ASSUME NEW i \in Nat, i + 1 \in Listed, i \in 1..(Depth - 1) PROVE i \in Listed
      <4>1. i \in 1..Depth /\ EntryList(M[i + 1].services, "services") BY <1>2, <3>2
      <4>2. EntryList(chain[i].services, "services") BY <2>4, <4>1
      <4>3. EntryList(MergeServices(M[i + 1].services, chain[i].services), "services")
        BY <4>1, <4>2, ServicesJoined
      <4> QED BY <2>6, <3>2, <4>1, <4>2, <4>3
    <3>3. Listed \in SUBSET Nat OBVIOUS
    <3> HIDE DEF Listed
    <3> QED BY <1>2, <3>1, <3>2, <3>3, Descent
  <2>8. q \in Good
    <3>1. EntryList(M[q].services, "services") BY <2>3, <2>7
    <3>2. ASSUME NEW e \in ToSet(M[q].services), e.name = n, ~e.drop
          PROVE  e \in nearest
      <4>1. CASE q = Depth
        <5>1. M[q].services = chain[q].services BY <1>1, <2>3, <2>4, <4>1 DEF Levels
        <5> QED BY <3>2, <5>1
      <4>2. CASE q # Depth
        <5>1. q \in 1..(Depth - 1) /\ q \in own BY <1>2, <2>3, <4>2
        <5>2. q + 1 \in 1..Depth BY <1>2, <5>1
        <5>3. /\ EntryList(M[q + 1].services, "services")
              /\ EntryList(chain[q].services, "services")
          BY <2>3, <2>4, <2>7, <5>2
        <5>4. \E c \in ToSet(chain[q].services) : c.name = n /\ ~c.drop BY <2>2, <2>3, <5>1
        <5>5. CASE "services" \in chain[q].bang BY <2>6, <3>2, <5>1, <5>5
        <5>6. CASE "services" \notin chain[q].bang
          <6>1. e \in ToSet(MergeServices(M[q + 1].services, chain[q].services))
            BY <2>6, <3>2, <5>1, <5>6
          <6> QED BY <2>5, <3>2, <5>3, <5>4, <6>1
        <5> QED BY <5>5, <5>6
      <4> QED BY <4>1, <4>2
    <3> QED BY <2>3, <3>1, <3>2
  <2>9. ASSUME NEW i \in Nat, i + 1 \in Good, i \in 1..(q - 1) PROVE i \in Good
    <3>1. /\ i \in 1..Depth /\ i \in 1..(Depth - 1) /\ i \notin own
          /\ EntryList(M[i + 1].services, "services")
          /\ \A e \in ToSet(M[i + 1].services) : e.name = n /\ ~e.drop => e \in nearest
      <4>1. q \in 1..Depth BY <2>3
      <4>2. i \in 1..Depth /\ i \in 1..(Depth - 1) BY <1>2, <2>9, <4>1
      <4> QED BY <2>3, <2>9, <4>2
    <3>2. \A c \in ToSet(chain[i].services) : ~(c.name = n /\ ~c.drop) BY <2>2, <3>1
    <3>3. EntryList(M[i].services, "services") /\ EntryList(chain[i].services, "services")
      BY <2>4, <2>7, <3>1
    <3>4. ASSUME NEW e \in ToSet(M[i].services), e.name = n, ~e.drop
          PROVE  e \in nearest
      <4>1. CASE "services" \in chain[i].bang BY <2>6, <3>1, <3>2, <3>4, <4>1
      <4>2. CASE "services" \notin chain[i].bang
        <5>1. e \in ToSet(MergeServices(M[i + 1].services, chain[i].services))
          BY <2>6, <3>1, <3>4, <4>2
        <5>2. e \in ToSet(M[i + 1].services) BY <2>5, <3>1, <3>2, <3>3, <3>4, <5>1
        <5> QED BY <3>1, <3>4, <5>2
      <4> QED BY <4>1, <4>2
    <3> QED BY <3>1, <3>3, <3>4
  <2>10. 1 \in Good
    <3>1. Good \in SUBSET Nat /\ q \in Nat /\ 1 \in 1..q BY <2>3
    <3> HIDE DEF Good
    <3> QED BY <2>8, <2>9, <3>1, Descent
  <2> QED BY <1>1, <2>10 DEF Levels, own, q
<1> QED BY <1>3 DEF ServicesRight

(* merge.go:5-7: the resolved Podfile is what the files of the chain say,  *)
(* except of the shell, which is the first file's, or bash.  The name is   *)
(* the first file's; the nearest file decides on any other scalar, a       *)
(* variable, a service, and the path and the branch of a repository;       *)
(* lines, packages and ports come from every file that is not replaced;    *)
(* and services and repositories from those that nothing nearer drops.     *)
THEOREM MergedIsRight == Spec => []MergedRight
<1>1. ASSUME Invariant PROVE MergedRight
  <2> SUFFICES ASSUME answer = "resolved"
               PROVE  /\ podfile.name = problem.first.name
                      /\ ScalarsRight /\ EnvRight /\ AppendedRight /\ PackagesRight
                      /\ EntriesRight /\ ReposRight /\ ServicesRight /\ ExposeRight
    BY DEF MergedRight
  <2>1. Resolved
    <3>1. /\ Len(chain) \in Nat \ {0} /\ Current = chain[Len(chain)]
      BY <1>1, CurrentKnown DEF Invariant
    <3>2. ParseRaw(Current) # Malformed /\ podfile = MergeChain(Parsed)
      BY <1>1 DEF Invariant, AnswerKnown
    <3>3. \A i \in 1..(Len(chain) - 1) : ParseRaw(chain[i]) # Malformed
      BY <1>1 DEF Invariant, ChainKnown
    <3>4. \A i \in 1..Len(chain) : i = Len(chain) \/ i \in 1..(Len(chain) - 1) BY <3>1
    <3> QED BY <1>1, <3>1, <3>2, <3>3, <3>4 DEF Invariant, ChainKnown, Resolved, Depth
  <2> QED
    BY <2>1, NameIsOwn, ScalarsAreRight, EnvIsRight, AppendedIsRight, PackagesAreRight,
       EntriesAreRight, ReposAreRight, ServicesAreRight, ExposeIsRight
<1> QED BY <1>1, InvariantHolds, PTL

=============================================================================
