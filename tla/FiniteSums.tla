----------------------------- MODULE FiniteSums -----------------------------
(***************************************************************************)
(* What the proofs of this project need of induction and of sums.          *)
(*                                                                         *)
(* Induction is stated with a set of good values in place of a predicate:  *)
(* the least-number principle, and induction over numbers and over finite  *)
(* sets, follow from the well-foundedness of the natural numbers.  With    *)
(* them SumFunctionOnSet, whose recursion removes an arbitrary element at  *)
(* a time, is shown to be a sum: it does not depend on the order, and      *)
(* grouping the elements does not change it.                               *)
(***************************************************************************)
EXTENDS Integers, Functions, FiniteSetTheorems, TLAPS

\* Every non-empty set of natural numbers has a least element.
LEMMA LeastNumber ==
    ASSUME NEW T \in SUBSET Nat, T # {}
    PROVE  \E m \in T : \A k \in T : m <= k
<1> DEFINE R == {p \in Nat \X Nat : p[1] < p[2]}
<1>1. IsWellFoundedOn(R, Nat)
  BY NatLessThanWellFounded, Zenon DEF OpToRel
<1>2. \A x, y \in Nat : y < x => <<y, x>> \in R
  OBVIOUS
<1> HIDE DEF R
<1>3. PICK m \in T : \A k \in T : ~(<<k, m>> \in R)
  BY <1>1, WFMin
<1>4. \A k \in T : ~(k < m)
  BY <1>2, <1>3
<1>5. m \in Nat /\ \A k \in T : k \in Nat
  OBVIOUS
<1>6. \A k \in T : m <= k
  BY <1>4, <1>5
<1> QED
  BY <1>6

\* What holds of zero and passes to the next number holds of every number.
LEMMA NumberInduction ==
    ASSUME NEW Q, 0 \in Q, \A n \in Nat : n \in Q => n + 1 \in Q
    PROVE  Nat \subseteq Q
<1> DEFINE T == Nat \ Q
<1> SUFFICES ASSUME T # {} PROVE FALSE
  OBVIOUS
<1>1. PICK m \in T : \A k \in T : m <= k
  BY LeastNumber
<1>2. m \in Nat /\ m # 0
  OBVIOUS
<1>3. m - 1 \in Nat /\ (m - 1) + 1 = m
  BY <1>2
<1>4. m - 1 \in Q
  BY <1>1, <1>3
<1> QED
  BY <1>3, <1>4

\* What holds of the empty set, and of a set if it holds of all that is left
\* when one element is removed, holds of every subset of a finite set.
LEMMA SubsetInduction ==
    ASSUME NEW S, IsFiniteSet(S), NEW Q, {} \in Q,
           \A s \in SUBSET S : s # {} /\ (\A x \in s : s \ {x} \in Q) => s \in Q
    PROVE  SUBSET S \subseteq Q
<1> DEFINE bad == {s \in SUBSET S : s \notin Q}
<1> DEFINE sizes == {Cardinality(s) : s \in bad}
<1> SUFFICES ASSUME bad # {} PROVE FALSE
  OBVIOUS
<1>1. \A s \in SUBSET S : IsFiniteSet(s) /\ Cardinality(s) \in Nat
  BY FS_Subset, FS_CardinalityType
<1>2. sizes \in SUBSET Nat /\ sizes # {}
  BY <1>1
<1>3. PICK m \in sizes : \A k \in sizes : m <= k
  BY <1>2, LeastNumber
<1>4. PICK s \in bad : \A t \in bad : Cardinality(s) <= Cardinality(t)
  BY <1>3
<1>5. ASSUME NEW x \in s PROVE s \ {x} \in Q
  <2>1. s \ {x} \in SUBSET S /\ s \in SUBSET S
    OBVIOUS
  <2>2. Cardinality(s \ {x}) = Cardinality(s) - 1
    BY <1>1, <2>1, FS_RemoveElement
  <2>3. Cardinality(s \ {x}) \in Nat /\ Cardinality(s) \in Nat
    BY <1>1, <2>1
  <2>4. ~(Cardinality(s) <= Cardinality(s \ {x}))
    BY <2>2, <2>3
  <2> QED
    BY <1>4, <2>1, <2>4
<1> QED
  BY <1>5

-----------------------------------------------------------------------------
(* The recursion of a sum. *)

\* The element that the fold takes next.
Taken(s) == CHOOSE x \in s : TRUE

\* f gives the sum of every set in D.
SumsIn(g, D, f) ==
    f = [s \in D |-> IF s = {} THEN 0 ELSE g[Taken(s)] + f[s \ {Taken(s)}]]
Sums(g, S, f) == SumsIn(g, SUBSET S, f)

\* Summands that are integers.
IntegersOn(g, S) == \A x \in S : g[x] \in Int

\* An element is taken from a set that has one.
LEMMA TakenIsElement == ASSUME NEW s, s # {} PROVE Taken(s) \in s
BY DEF Taken

\* The recursion is well defined on a finite set.
LEMMA SumsExist ==
    ASSUME NEW S, IsFiniteSet(S), NEW g
    PROVE  \E f : Sums(g, S, f)
<1> DEFINE D(n) == {s \in SUBSET S : Cardinality(s) <= n}
<1> DEFINE Q == {n \in Nat : \E f : SumsIn(g, D(n), f)}
<1>1. \A s \in SUBSET S : IsFiniteSet(s) /\ Cardinality(s) \in Nat
  BY FS_Subset, FS_CardinalityType
<1>2. 0 \in Q
  <2>1. D(0) = {{}}
    BY <1>1, FS_EmptySet
  <2>2. SumsIn(g, {{}}, [s \in {{}} |-> 0])
    BY DEF SumsIn
  <2> QED
    BY <2>1, <2>2
<1>3. ASSUME NEW n \in Nat, n \in Q PROVE n + 1 \in Q
  <2>1. PICK f : SumsIn(g, D(n), f)
    BY <1>3
  <2> DEFINE e == [s \in D(n + 1) |-> IF s = {} THEN 0 ELSE g[Taken(s)] + f[s \ {Taken(s)}]]
  <2>2. ASSUME NEW s \in D(n + 1), s # {} PROVE s \ {Taken(s)} \in D(n)
    <3>1. Taken(s) \in s /\ s \in SUBSET S
      BY <2>2, TakenIsElement
    <3>2. Cardinality(s \ {Taken(s)}) = Cardinality(s) - 1
      BY <1>1, <3>1, FS_RemoveElement
    <3> QED
      BY <1>1, <3>1, <3>2
  <2>3. \A s \in D(n) : s \in D(n + 1)
    BY <1>1
  <2>4. \A s \in D(n) : e[s] = f[s]
    BY <2>1, <2>3 DEF SumsIn
  <2>5. SumsIn(g, D(n + 1), e)
    <3> HIDE DEF D
    <3>1. \A s \in D(n + 1) : s # {} => e[s \ {Taken(s)}] = f[s \ {Taken(s)}]
      BY <2>2, <2>4
    <3> QED
      BY <3>1 DEF SumsIn
  <2>6. \E h : SumsIn(g, D(n + 1), h)
    <3> HIDE DEF D, e
    <3> QED
      BY <2>5
  <2> QED
    BY <2>6
<1>4. Cardinality(S) \in Q
  <2>1. Cardinality(S) \in Nat
    BY <1>1
  <2> HIDE DEF Q
  <2> QED
    BY <1>2, <1>3, <2>1, NumberInduction
<1>5. D(Cardinality(S)) = SUBSET S
  BY FS_Subset
<1> QED
  BY <1>4, <1>5 DEF Sums

\* SumFunctionOnSet is that recursion.
LEMMA SumIsSums ==
    ASSUME NEW S, IsFiniteSet(S), NEW g
    PROVE  \E f : Sums(g, S, f) /\ SumFunctionOnSet(g, S) = f[S]
<1>1. PICK h : Sums(g, S, h)
  BY SumsExist
<1> QED
  BY <1>1 DEF SumFunctionOnSet, FoldFunctionOnSet, MapThenFoldSet, Sums, SumsIn, Taken

-----------------------------------------------------------------------------
(* Sums. *)

\* What the recursion gives for one set and for what is left of it.
LEMMA SumsStep ==
    ASSUME NEW S, NEW g, NEW f, Sums(g, S, f)
    PROVE  /\ f[{}] = 0
           /\ \A s \in SUBSET S : s # {} => /\ Taken(s) \in s
                                            /\ f[s] = g[Taken(s)] + f[s \ {Taken(s)}]
<1>1. \A s \in SUBSET S : f[s] = IF s = {} THEN 0 ELSE g[Taken(s)] + f[s \ {Taken(s)}]
  BY DEF Sums, SumsIn
<1> QED
  BY <1>1, TakenIsElement

\* The same, without the name of the element.
LEMMA SumsTake ==
    ASSUME NEW S, NEW g, NEW f, Sums(g, S, f), NEW s \in SUBSET S, s # {}
    PROVE  \E c \in s : f[s] = g[c] + f[s \ {c}]
<1>1. Taken(s) \in s /\ f[s] = g[Taken(s)] + f[s \ {Taken(s)}]
  BY SumsStep
<1>2. PICK c \in s : c = Taken(s)
  BY <1>1
<1> QED
  BY <1>1, <1>2

\* A sum of integers is one.
LEMMA SumsInt ==
    ASSUME NEW S, IsFiniteSet(S), NEW g, IntegersOn(g, S), NEW f, Sums(g, S, f)
    PROVE  \A s \in SUBSET S : f[s] \in Int
<1> DEFINE Q == {s \in SUBSET S : f[s] \in Int}
<1>1. {} \in Q
  BY SumsStep
<1>2. ASSUME NEW s \in SUBSET S, s # {}, \A x \in s : s \ {x} \in Q PROVE s \in Q
  <2>1. PICK x \in s : f[s] = g[x] + f[s \ {x}]
    BY <1>2, SumsTake
  <2>2. g[x] \in Int /\ f[s \ {x}] \in Int
    BY <1>2 DEF IntegersOn
  <2> QED
    BY <2>1, <2>2
<1>3. SUBSET S \subseteq Q
  <2> HIDE DEF Q
  <2> QED
    BY <1>1, <1>2, SubsetInduction
<1> QED
  BY <1>3

\* Only the summands of a set decide its sum.
LEMMA SumsAgree ==
    ASSUME NEW S, IsFiniteSet(S), NEW T, NEW g, NEW h, \A x \in S : g[x] = h[x], S \subseteq T,
           NEW f, Sums(g, S, f), NEW e, Sums(h, T, e)
    PROVE  \A s \in SUBSET S : f[s] = e[s]
<1> DEFINE Q == {s \in SUBSET S : f[s] = e[s]}
<1>1. {} \in Q
  BY SumsStep
<1>2. ASSUME NEW s \in SUBSET S, s # {}, \A x \in s : s \ {x} \in Q PROVE s \in Q
  <2>1. Taken(s) \in s /\ f[s] = g[Taken(s)] + f[s \ {Taken(s)}]
    BY <1>2, SumsStep
  <2>2. e[s] = h[Taken(s)] + e[s \ {Taken(s)}]
    BY <1>2, SumsStep
  <2>3. g[Taken(s)] = h[Taken(s)] /\ f[s \ {Taken(s)}] = e[s \ {Taken(s)}]
    BY <1>2, <2>1
  <2> QED
    BY <2>1, <2>2, <2>3
<1>3. SUBSET S \subseteq Q
  <2> HIDE DEF Q
  <2> QED
    BY <1>1, <1>2, SubsetInduction
<1> QED
  BY <1>3

\* Whichever element is taken first, the sum is the same.
LEMMA SumsRemove ==
    ASSUME NEW S, IsFiniteSet(S), NEW g, IntegersOn(g, S), NEW f, Sums(g, S, f)
    PROVE  \A x \in S : f[S] = f[S \ {x}] + g[x]
<1> DEFINE Q == {s \in SUBSET S : \A x \in s : f[s] = f[s \ {x}] + g[x]}
<1>1. {} \in Q
  OBVIOUS
<1>2. ASSUME NEW s \in SUBSET S, s # {}, \A x \in s : s \ {x} \in Q PROVE s \in Q
  <2> SUFFICES ASSUME NEW x \in s PROVE f[s] = f[s \ {x}] + g[x]
    OBVIOUS
  <2>1. PICK c \in s : f[s] = g[c] + f[s \ {c}]
    BY <1>2, SumsTake
  <2>2. g[c] \in Int /\ g[x] \in Int
    BY DEF IntegersOn
  <2>3. f[s \ {c}] \in Int /\ f[s \ {x}] \in Int /\ f[s \ {c, x}] \in Int
    BY SumsInt
  <2>4. CASE c = x
    BY <2>1, <2>2, <2>3, <2>4
  <2>5. CASE c # x
    <3>1. (s \ {c}) \ {x} = s \ {c, x} /\ (s \ {x}) \ {c} = s \ {c, x}
      OBVIOUS
    <3>2. f[s \ {c}] = f[s \ {c, x}] + g[x]
      BY <1>2, <2>5, <3>1
    <3>3. f[s \ {x}] = f[s \ {c, x}] + g[c]
      BY <1>2, <2>5, <3>1
    <3> QED
      BY <2>1, <2>2, <2>3, <3>2, <3>3
  <2> QED
    BY <2>4, <2>5
<1>3. SUBSET S \subseteq Q
  <2> HIDE DEF Q
  <2> QED
    BY <1>1, <1>2, SubsetInduction
<1> QED
  BY <1>3

\* A sum over nothing is zero.
LEMMA SumEmpty == ASSUME NEW g PROVE SumFunctionOnSet(g, {}) = 0
<1>1. PICK f : Sums(g, {}, f) /\ SumFunctionOnSet(g, {}) = f[{}]
  BY SumIsSums, FS_EmptySet
<1> QED
  BY <1>1, SumsStep

\* A sum over one more element.
LEMMA SumAdd ==
    ASSUME NEW S, IsFiniteSet(S), NEW x, x \notin S, NEW g, IntegersOn(g, S \cup {x})
    PROVE  /\ SumFunctionOnSet(g, S) \in Int
           /\ SumFunctionOnSet(g, S \cup {x}) = SumFunctionOnSet(g, S) + g[x]
<1>1. PICK f : Sums(g, S, f) /\ SumFunctionOnSet(g, S) = f[S]
  BY SumIsSums
<1>2. PICK T : T = S \cup {x}
  OBVIOUS
<1>3. IsFiniteSet(T)
  BY <1>2, FS_AddElement
<1>4. PICK e : Sums(g, T, e) /\ SumFunctionOnSet(g, T) = e[T]
  BY <1>3, SumIsSums
<1>5. f[S] \in Int
  <2>1. IntegersOn(g, S)
    BY DEF IntegersOn
  <2> QED
    BY <1>1, <2>1, SumsInt
<1>6. f[S] = e[S]
  <2>1. \A y \in S : g[y] = g[y]
    OBVIOUS
  <2>2. \A s \in SUBSET S : f[s] = e[s]
    BY <1>1, <1>2, <1>4, <2>1, SumsAgree
  <2> QED
    BY <2>2
<1>7. e[T] = e[T \ {x}] + g[x]
  <2>1. IntegersOn(g, T)
    BY <1>2
  <2>2. \A y \in T : e[T] = e[T \ {y}] + g[y]
    BY <1>3, <1>4, <2>1, SumsRemove
  <2> QED
    BY <1>2, <2>2
<1>8. T \ {x} = S
  BY <1>2
<1> QED
  BY <1>1, <1>2, <1>4, <1>5, <1>6, <1>7, <1>8

\* A sum of integers is an integer and depends on its summands only.
LEMMA SumSame ==
    ASSUME NEW S, IsFiniteSet(S), NEW g, NEW h, IntegersOn(g, S), \A x \in S : g[x] = h[x]
    PROVE  SumFunctionOnSet(g, S) \in Int /\ SumFunctionOnSet(g, S) = SumFunctionOnSet(h, S)
<1>1. PICK f : Sums(g, S, f) /\ SumFunctionOnSet(g, S) = f[S]
  BY SumIsSums
<1>2. PICK e : Sums(h, S, e) /\ SumFunctionOnSet(h, S) = e[S]
  BY SumIsSums
<1>3. f[S] \in Int
  BY <1>1, SumsInt
<1>4. f[S] = e[S]
  <2>1. \A s \in SUBSET S : f[s] = e[s]
    BY <1>1, <1>2, SumsAgree
  <2> QED
    BY <2>1
<1> QED
  BY <1>1, <1>2, <1>3, <1>4

\* The sum over two disjoint sets.
LEMMA SumUnion ==
    ASSUME NEW A, IsFiniteSet(A), NEW B, IsFiniteSet(B), A \cap B = {},
           NEW g, IntegersOn(g, A), IntegersOn(g, B)
    PROVE  /\ SumFunctionOnSet(g, A) \in Int /\ SumFunctionOnSet(g, B) \in Int
           /\ SumFunctionOnSet(g, A \cup B) = SumFunctionOnSet(g, A) + SumFunctionOnSet(g, B)
<1> DEFINE Q == {s \in SUBSET B :
                    /\ SumFunctionOnSet(g, s) \in Int
                    /\ SumFunctionOnSet(g, A \cup s) = SumFunctionOnSet(g, A) + SumFunctionOnSet(g, s)}
<1>0. SumFunctionOnSet(g, A) \in Int
  BY SumSame
<1>1. {} \in Q
  <2>1. A \cup {} = A /\ SumFunctionOnSet(g, {}) = 0
    BY SumEmpty
  <2> QED
    BY <1>0, <2>1
<1>2. ASSUME NEW s \in SUBSET B, s # {}, \A x \in s : s \ {x} \in Q PROVE s \in Q
  <2>1. PICK x \in s : s \ {x} \in Q
    BY <1>2
  <2>2. PICK r : r = s \ {x}
    OBVIOUS
  <2>3. /\ SumFunctionOnSet(g, r) \in Int
        /\ SumFunctionOnSet(g, A \cup r) = SumFunctionOnSet(g, A) + SumFunctionOnSet(g, r)
    BY <2>1, <2>2
  <2>4. /\ x \notin r /\ r \cup {x} = s /\ x \notin A \cup r /\ (A \cup r) \cup {x} = A \cup s
        /\ r \in SUBSET B
    BY <2>2
  <2>5. IsFiniteSet(r) /\ IsFiniteSet(A \cup r)
    BY <2>4, FS_Subset, FS_Union
  <2>6. IntegersOn(g, r \cup {x}) /\ IntegersOn(g, (A \cup r) \cup {x}) /\ g[x] \in Int
    BY <2>4 DEF IntegersOn
  <2>7. SumFunctionOnSet(g, s) = SumFunctionOnSet(g, r) + g[x]
    BY <2>4, <2>5, <2>6, SumAdd
  <2>8. SumFunctionOnSet(g, A \cup s) = SumFunctionOnSet(g, A \cup r) + g[x]
    <3>1. PICK T : T = A \cup r
      OBVIOUS
    <3>2. SumFunctionOnSet(g, T \cup {x}) = SumFunctionOnSet(g, T) + g[x]
      BY <2>4, <2>5, <2>6, <3>1, SumAdd
    <3> QED
      BY <2>4, <3>1, <3>2
  <2> QED
    BY <1>0, <2>3, <2>6, <2>7, <2>8
<1>3. SUBSET B \subseteq Q
  <2> HIDE DEF Q
  <2> QED
    BY <1>1, <1>2, SubsetInduction
<1> QED
  BY <1>0, <1>3

\* A sum may be taken group by group.
LEMMA SumGroups ==
    ASSUME NEW R, IsFiniteSet(R), NEW E, IsFiniteSet(E), NEW part,
           \A r \in R : part[r] \in SUBSET E,
           \A r, q \in R : r # q => part[r] \cap part[q] = {},
           \A e \in E : \E r \in R : e \in part[r],
           NEW v, IntegersOn(v, E), NEW w,
           \A r \in R : w[r] = SumFunctionOnSet(v, part[r])
    PROVE  SumFunctionOnSet(w, R) = SumFunctionOnSet(v, E)
<1> DEFINE U(s) == {e \in E : \E r \in s : e \in part[r]}
<1> DEFINE Q == {s \in SUBSET R : SumFunctionOnSet(w, s) = SumFunctionOnSet(v, U(s))}
<1>1. \A A \in SUBSET E : IsFiniteSet(A) /\ IntegersOn(v, A) /\ SumFunctionOnSet(v, A) \in Int
  <2> TAKE A \in SUBSET E
  <2>1. IsFiniteSet(A) /\ IntegersOn(v, A)
    BY FS_Subset DEF IntegersOn
  <2> QED
    BY <2>1, SumSame
<1>2. IntegersOn(w, R)
  BY <1>1 DEF IntegersOn
<1>3. {} \in Q
  <2>1. U({}) = {}
    OBVIOUS
  <2> QED
    BY <2>1, SumEmpty
<1>4. ASSUME NEW s \in SUBSET R, s # {}, \A x \in s : s \ {x} \in Q PROVE s \in Q
  <2>1. PICK x \in s : s \ {x} \in Q
    BY <1>4
  <2>2. PICK r : r = s \ {x}
    OBVIOUS
  <2>3. SumFunctionOnSet(w, r) = SumFunctionOnSet(v, U(r))
    BY <2>1, <2>2
  <2>4. x \notin r /\ r \cup {x} = s /\ r \in SUBSET R
    BY <2>2
  <2>5. SumFunctionOnSet(w, s) = SumFunctionOnSet(w, r) + w[x]
    <3>1. IsFiniteSet(r) /\ IntegersOn(w, r \cup {x})
      BY <1>2, <2>4, FS_Subset DEF IntegersOn
    <3> QED
      BY <2>4, <3>1, SumAdd
  <2>6. PICK A \in SUBSET E, B \in SUBSET E : A = U(r) /\ B = part[x]
    OBVIOUS
  <2>7. A \cap B = {} /\ A \cup B = U(s)
    BY <2>2, <2>4, <2>6
  <2>8. SumFunctionOnSet(v, A \cup B) = SumFunctionOnSet(v, A) + SumFunctionOnSet(v, B)
    <3>1. /\ IsFiniteSet(A) /\ IntegersOn(v, A)
          /\ IsFiniteSet(B) /\ IntegersOn(v, B)
      BY <1>1
    <3> QED
      BY <2>7, <3>1, SumUnion
  <2>9. w[x] = SumFunctionOnSet(v, B)
    BY <2>6
  <2> HIDE DEF U
  <2> QED
    BY <2>3, <2>5, <2>6, <2>7, <2>8, <2>9
<1>5. SUBSET R \subseteq Q
  <2> HIDE DEF Q
  <2> QED
    BY <1>3, <1>4, SubsetInduction
<1>6. U(R) = E
  OBVIOUS
<1> QED
  BY <1>5, <1>6

-----------------------------------------------------------------------------
(* Extremes. *)

\* A finite set has an element that no other is above.
LEMMA Maximal ==
    ASSUME NEW S, IsFiniteSet(S), S # {}, NEW above,
           \A x \in S : <<x, x>> \notin above,
           \A x, y, z \in S : <<x, y>> \in above /\ <<y, z>> \in above => <<x, z>> \in above
    PROVE  \E m \in S : \A k \in S : <<k, m>> \notin above
<1> DEFINE Q == {s \in SUBSET S : s # {} => \E m \in s : \A k \in s : <<k, m>> \notin above}
<1>1. {} \in Q
  OBVIOUS
<1>2. ASSUME NEW s \in SUBSET S, s # {}, \A x \in s : s \ {x} \in Q PROVE s \in Q
  <2>1. PICK x \in s : s \ {x} \in Q
    BY <1>2
  <2>2. CASE s \ {x} = {}
    <3>1. \A k \in s : k = x
      BY <2>2
    <3> QED
      BY <3>1
  <2>3. CASE s \ {x} # {}
    <3>1. PICK m \in s \ {x} : \A k \in s \ {x} : <<k, m>> \notin above
      BY <2>1, <2>3
    <3>2. CASE <<x, m>> \notin above
      BY <3>1, <3>2
    <3>3. CASE <<x, m>> \in above
      BY <3>1, <3>3
    <3> QED
      BY <3>2, <3>3
  <2> QED
    BY <2>2, <2>3
<1>3. SUBSET S \subseteq Q
  <2> HIDE DEF Q
  <2> QED
    BY <1>1, <1>2, SubsetInduction
<1> QED
  BY <1>3

=============================================================================
