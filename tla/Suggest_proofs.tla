--------------------------- MODULE Suggest_proofs ---------------------------
(***************************************************************************)
(* SuggestClosest for words of every length, every number of candidates    *)
(* and every bound: the tables hold distances, what is suggested is within *)
(* the bound, and a word one slip away from a candidate gets the first     *)
(* such candidate.                                                         *)
(*                                                                         *)
(* A cell is no more than the number of simple edits that turn one prefix  *)
(* into the other, whatever the edits are and in whatever order they come. *)
(* Such edits are brought into the order of the letters first: an          *)
(* alignment is built letter by letter at the end, as the table is.        *)
(***************************************************************************)
EXTENDS Suggest, Facts, SequenceTheorems

Words == Seq(Letters)

(* The words with at most l letters.                                       *)
Short(l) == {w \in Words : Len(w) <= l}

-----------------------------------------------------------------------------
(* Words.                                                                  *)

(* The words of the model are the short sequences of letters.              *)
LEMMA WordIsShort == Word = Short(MaxLen)
<1>0. MaxLen \in Nat
  BY RequestsAssumption
<1>1. ASSUME NEW w \in Word PROVE w \in Short(MaxLen)
  <2>1. PICK l \in 0 .. MaxLen : w \in [1 .. l -> Letters]
    BY <1>1 DEF Word
  <2>2. l \in Nat /\ l <= MaxLen
    BY <2>1, <1>0
  <2>3. w \in Seq(Letters) /\ Len(w) = l
    BY <2>1, <2>2
  <2> QED
    BY <2>2, <2>3 DEF Short, Words
<1>2. ASSUME NEW w \in Short(MaxLen) PROVE w \in Word
  <2>1. w \in Seq(Letters) /\ Len(w) <= MaxLen
    BY <1>2 DEF Short, Words
  <2>2. Len(w) \in 0 .. MaxLen /\ w \in [1 .. Len(w) -> Letters]
    BY <2>1, <1>0, LenProperties
  <2> QED
    BY <2>2 DEF Word
<1> QED
  BY <1>1, <1>2

(* A letter at the end makes a word one longer.                            *)
LEMMA AppendWord ==
    ASSUME NEW w \in Words, NEW x \in Letters
    PROVE  /\ Append(w, x) \in Words
           /\ Len(Append(w, x)) = Len(w) + 1
           /\ \A p \in 1 .. Len(w) : Append(w, x)[p] = w[p]
           /\ Append(w, x)[Len(w) + 1] = x
  BY AppendProperties DEF Words

(* Words with the same letters are the same.                               *)
LEMMA SameWord ==
    ASSUME NEW v \in Words, NEW w \in Words, Len(v) = Len(w),
           \A p \in 1 .. Len(v) : v[p] = w[p]
    PROVE  v = w
  BY SeqEqual DEF Words

(* The length of a word is a number, and its letters are letters.          *)
LEMMA WordLetters ==
    ASSUME NEW w \in Words
    PROVE  Len(w) \in Nat /\ \A p \in 1 .. Len(w) : w[p] \in Letters
  BY LenProperties, ElementOfSeq DEF Words

(* A word that is not empty has a last letter.                             *)
LEMMA LastLetter ==
    ASSUME NEW w \in Words, Len(w) > 0
    PROVE  \E v \in Words, x \in Letters : w = Append(v, x)
<1>1. w # << >>
  BY EmptySeq DEF Words
<1> QED
  BY <1>1, SequenceEmptyOrAppend DEF Words

(* A word without letters is the empty one.                                *)
LEMMA EmptyWord ==
    /\ << >> \in Words /\ Len(<< >>) = 0
    /\ \A w \in Words : Len(w) = 0 => w = << >>
<1>1. << >> \in Words /\ Len(<< >>) = 0
  BY EmptySeq DEF Words
<1> QED
  BY <1>1, SameWord

(* What is left of a word when one letter is taken out.                    *)
LEMMA WithoutLetters ==
    ASSUME NEW w \in Words, NEW p \in 1 .. Len(w)
    PROVE  /\ Without(w, p) \in Words
           /\ Len(Without(w, p)) = Len(w) - 1
           /\ \A q \in 1 .. Len(w) - 1 :
                 Without(w, p)[q] = IF q < p THEN w[q] ELSE w[q + 1]
<1> DEFINE before == SubSeq(w, 1, p - 1)
           behind == SubSeq(w, p + 1, Len(w))
<1>1. Len(w) \in Nat /\ p \in Int /\ p - 1 \in Int /\ p + 1 \in Int
      /\ \A q \in 1 .. Len(w) : w[q] \in Letters
  BY WordLetters
<1>2. /\ before \in Seq(Letters) /\ Len(before) = p - 1
      /\ \A q \in 1 .. p - 1 : before[q] = w[q]
  <2>1. \A q \in 1 .. p - 1 : w[q] \in Letters
    BY <1>1
  <2>2. /\ before \in Seq(Letters)
        /\ Len(before) = IF 1 <= p - 1 THEN p - 1 - 1 + 1 ELSE 0
        /\ \A q \in 1 .. p - 1 - 1 + 1 : before[q] = w[1 + q - 1]
    BY <1>1, <2>1, SubSeqProperties
  <2> HIDE DEF before
  <2>3. ASSUME NEW q \in 1 .. p - 1 PROVE before[q] = w[q]
    <3>1. 1 + q - 1 = q /\ q \in 1 .. p - 1 - 1 + 1
      BY <1>1
    <3> QED
      BY <2>2, <3>1
  <2>4. Len(before) = p - 1
    BY <1>1, <2>2
  <2> QED
    BY <2>2, <2>3, <2>4
<1>3. /\ behind \in Seq(Letters) /\ Len(behind) = Len(w) - p
      /\ \A q \in 1 .. Len(w) - p : behind[q] = w[q + p]
  <2>1. \A q \in p + 1 .. Len(w) : w[q] \in Letters
    BY <1>1
  <2>2. /\ behind \in Seq(Letters)
        /\ Len(behind) = IF p + 1 <= Len(w) THEN Len(w) - (p + 1) + 1 ELSE 0
        /\ \A q \in 1 .. Len(w) - (p + 1) + 1 : behind[q] = w[(p + 1) + q - 1]
    BY <1>1, <2>1, SubSeqProperties
  <2> HIDE DEF behind
  <2>3. ASSUME NEW q \in 1 .. Len(w) - p PROVE behind[q] = w[q + p]
    <3>1. (p + 1) + q - 1 = q + p /\ q \in 1 .. Len(w) - (p + 1) + 1
      BY <1>1
    <3> QED
      BY <2>2, <3>1
  <2>4. Len(behind) = Len(w) - p
    BY <1>1, <2>2
  <2> QED
    BY <2>2, <2>3, <2>4
<1>4. Without(w, p) = before \o behind
  BY DEF Without
<1> HIDE DEF before, behind
<1>5. /\ before \o behind \in Seq(Letters)
      /\ Len(before \o behind) = Len(before) + Len(behind)
      /\ \A q \in 1 .. Len(before) + Len(behind) :
            (before \o behind)[q] = IF q <= Len(before) THEN before[q]
                                    ELSE behind[q - Len(before)]
  BY <1>2, <1>3, ConcatProperties
<1>6. ASSUME NEW q \in 1 .. Len(w) - 1
      PROVE  Without(w, p)[q] = IF q < p THEN w[q] ELSE w[q + 1]
  <2>1. q \in 1 .. Len(before) + Len(behind)
    BY <1>1, <1>2, <1>3
  <2>2. CASE q < p
    BY <1>1, <1>2, <1>4, <1>5, <2>1, <2>2
  <2>3. CASE ~ q < p
    <3>1. q - Len(before) \in 1 .. Len(w) - p /\ (q - Len(before)) + p = q + 1
          /\ ~ q <= Len(before)
      BY <1>1, <1>2, <1>3, <2>3
    <3>2. (before \o behind)[q] = behind[q - Len(before)]
      BY <1>5, <2>1, <3>1
    <3>3. behind[q - Len(before)] = w[(q - Len(before)) + p]
      BY <1>3, <3>1
    <3> QED
      BY <1>4, <2>3, <3>1, <3>2, <3>3
  <2> QED
    BY <2>2, <2>3
<1> QED
  BY <1>1, <1>2, <1>3, <1>4, <1>5, <1>6 DEF Words

-----------------------------------------------------------------------------
(* Edits, seen from the ends of the words.                                 *)

(* Extending both words by a letter keeps an edit an edit.                 *)
LEMMA WithoutOfAppend ==
    ASSUME NEW w \in Words, NEW x \in Letters, NEW p \in 1 .. Len(w)
    PROVE  /\ p \in 1 .. Len(Append(w, x))
           /\ Without(Append(w, x), p) = Append(Without(w, p), x)
<1> DEFINE v == Append(w, x)
           s == Without(v, p)
           t == Append(Without(w, p), x)
<1>1. /\ v \in Words /\ Len(v) = Len(w) + 1
      /\ \A q \in 1 .. Len(w) : v[q] = w[q]
      /\ v[Len(w) + 1] = x
  BY AppendWord
<1>2. Len(w) \in Nat
  BY WordLetters
<1>3. p \in 1 .. Len(v)
  BY <1>1, <1>2
<1>4. /\ Without(w, p) \in Words /\ Len(Without(w, p)) = Len(w) - 1
      /\ \A q \in 1 .. Len(w) - 1 : Without(w, p)[q] = IF q < p THEN w[q] ELSE w[q + 1]
  BY WithoutLetters
<1> HIDE DEF v
<1>5. /\ s \in Words /\ Len(s) = Len(v) - 1
      /\ \A q \in 1 .. Len(v) - 1 : s[q] = IF q < p THEN v[q] ELSE v[q + 1]
  BY <1>1, <1>3, WithoutLetters
<1>6. /\ t \in Words /\ Len(t) = Len(Without(w, p)) + 1
      /\ \A q \in 1 .. Len(Without(w, p)) : t[q] = Without(w, p)[q]
      /\ t[Len(Without(w, p)) + 1] = x
  BY <1>4, AppendWord
<1> HIDE DEF s, t
<1>7. ASSUME NEW q \in 1 .. Len(s) PROVE s[q] = t[q]
  <2>0. q \in 1 .. Len(v) - 1
    BY <1>5
  <2>1. CASE q = Len(w)
    <3>1. ~ q < p /\ q = Len(Without(w, p)) + 1
      BY <1>2, <1>4, <2>1
    <3> QED
      BY <1>1, <1>5, <1>6, <2>0, <2>1, <3>1
  <2>2. CASE q # Len(w)
    <3>1. q \in 1 .. Len(w) - 1 /\ q + 1 \in 1 .. Len(w) /\ q \in 1 .. Len(w)
      BY <1>1, <1>2, <1>5, <2>2
    <3>2. t[q] = Without(w, p)[q]
      BY <1>4, <1>6, <3>1
    <3> QED
      BY <1>1, <1>4, <1>5, <2>0, <3>1, <3>2
  <2> QED
    BY <2>1, <2>2
<1>8. Len(s) = Len(t)
  BY <1>1, <1>2, <1>4, <1>5, <1>6
<1>9. s = t
  BY <1>5, <1>6, <1>7, <1>8, SameWord
<1> QED
  BY <1>3, <1>9 DEF s, t, v

(* Taking out the last letter leaves what it was put behind.               *)
LEMMA WithoutLast ==
    ASSUME NEW w \in Words, NEW x \in Letters
    PROVE  Without(Append(w, x), Len(w) + 1) = w
<1> DEFINE v == Append(w, x)
           s == Without(v, Len(w) + 1)
<1>1. /\ v \in Words /\ Len(v) = Len(w) + 1
      /\ \A q \in 1 .. Len(w) : v[q] = w[q]
  BY AppendWord
<1>2. Len(w) \in Nat /\ Len(w) + 1 \in 1 .. Len(v)
  BY <1>1, WordLetters
<1> HIDE DEF v
<1>3. /\ s \in Words /\ Len(s) = Len(v) - 1
      /\ \A q \in 1 .. Len(v) - 1 : s[q] = IF q < Len(w) + 1 THEN v[q] ELSE v[q + 1]
  BY <1>1, <1>2, WithoutLetters
<1> HIDE DEF s
<1>4. \A q \in 1 .. Len(s) : s[q] = w[q]
  BY <1>1, <1>2, <1>3
<1>5. s = w
  BY <1>1, <1>2, <1>3, <1>4, SameWord
<1> QED
  BY <1>5 DEF s, v

(* A set with no more than one element.                                    *)
LEMMA AtMostOne ==
    ASSUME NEW S, IsFiniteSet(S)
    PROVE  Cardinality(S) <= 1 <=> \A x, y \in S : x = y
<1>1. Cardinality(S) \in Nat
  BY FS_CardinalityType
<1>2. ASSUME Cardinality(S) <= 1, NEW x \in S, NEW y \in S, x # y PROVE FALSE
  <2>1. {x, y} \subseteq S
    OBVIOUS
  <2>2. IsFiniteSet({x}) /\ Cardinality({x}) = 1
    BY FS_Singleton
  <2>3. y \notin {x} /\ {x} \cup {y} = {x, y}
    BY <1>2
  <2>4. Cardinality({x} \cup {y}) = Cardinality({x}) + 1
    BY <2>2, <2>3, FS_AddElement
  <2>5. Cardinality({x, y}) <= Cardinality(S)
    BY <2>1, FS_Subset
  <2> QED
    BY <1>1, <1>2, <2>2, <2>3, <2>4, <2>5
<1>3. ASSUME \A x, y \in S : x = y PROVE Cardinality(S) <= 1
  <2>1. CASE S = {}
    BY <2>1, FS_EmptySet
  <2>2. CASE S # {}
    <3>1. PICK x \in S : TRUE
      BY <2>2
    <3>2. S = {x}
      BY <1>3
    <3> QED
      BY <3>2, FS_Singleton
  <2> QED
    BY <2>1, <2>2
<1> QED
  BY <1>2, <1>3

(* A substitution changes one letter at most.                              *)
LEMMA SubstitutedLetters ==
    ASSUME NEW v \in Words, NEW w \in Words
    PROVE  Substituted(v, w) <=>
              /\ Len(v) = Len(w)
              /\ \A p, q \in 1 .. Len(v) : v[p] # w[p] /\ v[q] # w[q] => p = q
<1> DEFINE M == {p \in 1 .. Len(v) : v[p] # w[p]}
<1>1. IsFiniteSet(M)
  <2>1. Len(v) \in Nat
    BY WordLetters
  <2>2. IsFiniteSet(1 .. Len(v))
    BY <2>1, FS_Interval
  <2> QED
    BY <2>2, FS_Subset
<1>2. Cardinality(M) <= 1 <=> \A p, q \in M : p = q
  <2> HIDE DEF M
  <2> QED
    BY <1>1, AtMostOne
<1>3. Substituted(v, w) <=> Len(v) = Len(w) /\ Cardinality(M) <= 1
  BY DEF Substituted
<1>4. (\A p, q \in M : p = q) <=>
      \A p, q \in 1 .. Len(v) : v[p] # w[p] /\ v[q] # w[q] => p = q
  OBVIOUS
<1> QED
  BY <1>2, <1>3, <1>4

(* A substitution is one before the last letters if these are the same,    *)
(* and nothing else is changed if they are not.                            *)
LEMMA SubstitutedLast ==
    ASSUME NEW v \in Words, NEW w \in Words, NEW x \in Letters, NEW y \in Letters
    PROVE  Substituted(Append(v, x), Append(w, y)) <=>
              IF x = y THEN Substituted(v, w) ELSE v = w
<1> DEFINE vx == Append(v, x)
           wy == Append(w, y)
<1>1. /\ vx \in Words /\ Len(vx) = Len(v) + 1
      /\ \A p \in 1 .. Len(v) : vx[p] = v[p]
      /\ vx[Len(v) + 1] = x
  BY AppendWord
<1>2. /\ wy \in Words /\ Len(wy) = Len(w) + 1
      /\ \A p \in 1 .. Len(w) : wy[p] = w[p]
      /\ wy[Len(w) + 1] = y
  BY AppendWord
<1>3. Len(v) \in Nat /\ Len(w) \in Nat
  BY WordLetters
<1> HIDE DEF vx, wy
<1>4. Substituted(vx, wy) <=>
         /\ Len(vx) = Len(wy)
         /\ \A p, q \in 1 .. Len(vx) : vx[p] # wy[p] /\ vx[q] # wy[q] => p = q
  BY <1>1, <1>2, SubstitutedLetters
<1>5. Substituted(v, w) <=>
         /\ Len(v) = Len(w)
         /\ \A p, q \in 1 .. Len(v) : v[p] # w[p] /\ v[q] # w[q] => p = q
  BY SubstitutedLetters
<1>6. CASE Len(v) # Len(w)
  <2>1. ~ Substituted(vx, wy)
    BY <1>1, <1>2, <1>3, <1>4, <1>6
  <2>2. ~ Substituted(v, w) /\ v # w
    BY <1>5, <1>6
  <2> QED
    BY <2>1, <2>2 DEF vx, wy
<1>7. CASE Len(v) = Len(w) /\ x = y
  <2>1. \A p \in 1 .. Len(vx) :
            vx[p] # wy[p] <=> p \in 1 .. Len(v) /\ v[p] # w[p]
    BY <1>1, <1>2, <1>3, <1>7
  <2>2. 1 .. Len(v) \subseteq 1 .. Len(vx)
    BY <1>1, <1>3
  <2>3. Substituted(vx, wy) <=> Substituted(v, w)
    BY <1>1, <1>2, <1>4, <1>5, <1>7, <2>1, <2>2
  <2> QED
    BY <1>7, <2>3 DEF vx, wy
<1>8. CASE Len(v) = Len(w) /\ x # y
  <2>1. Len(v) + 1 \in 1 .. Len(vx) /\ vx[Len(v) + 1] # wy[Len(v) + 1]
    BY <1>1, <1>2, <1>3, <1>8
  <2>2. 1 .. Len(v) \subseteq 1 .. Len(vx)
    BY <1>1, <1>3
  <2>3. ASSUME Substituted(vx, wy) PROVE v = w
    <3>1. ASSUME NEW p \in 1 .. Len(v) PROVE v[p] = w[p]
      <4>1. p # Len(v) + 1 /\ p \in 1 .. Len(vx)
        BY <1>3, <2>2
      <4>2. vx[p] = wy[p]
        BY <1>4, <2>1, <2>3, <4>1
      <4> QED
        BY <1>1, <1>2, <1>8, <4>2
    <3> QED
      BY <1>8, <3>1, SameWord
  <2>4. ASSUME v = w PROVE Substituted(vx, wy)
    <3>1. \A p \in 1 .. Len(vx) : vx[p] # wy[p] => p = Len(v) + 1
      BY <1>1, <1>2, <1>3, <2>4
    <3>2. Len(vx) = Len(wy)
      BY <1>1, <1>2, <1>8
    <3> QED
      BY <1>4, <3>1, <3>2
  <2> QED
    BY <1>8, <2>3, <2>4 DEF vx, wy
<1> QED
  BY <1>6, <1>7, <1>8 DEF vx, wy

(* An insertion is one before the last letters, or of the last letter.     *)
LEMMA InsertedLast ==
    ASSUME NEW v \in Words, NEW w \in Words, NEW x \in Letters, NEW y \in Letters,
           Inserted(Append(v, x), Append(w, y))
    PROVE  w = Append(v, x) \/ (x = y /\ Inserted(v, w))
<1>1. /\ Append(v, x) \in Words /\ Len(Append(v, x)) = Len(v) + 1
      /\ Append(w, y) \in Words /\ Len(Append(w, y)) = Len(w) + 1
  BY AppendWord
<1>2. Len(v) \in Nat /\ Len(w) \in Nat
  BY WordLetters
<1>3. Len(Append(w, y)) = Len(Append(v, x)) + 1
  BY DEF Inserted
<1>4. PICK p \in 1 .. Len(Append(w, y)) : Without(Append(w, y), p) = Append(v, x)
  BY DEF Inserted
<1>5. CASE p = Len(w) + 1
  BY <1>4, <1>5, WithoutLast
<1>6. CASE p # Len(w) + 1
  <2>1. p \in 1 .. Len(w)
    BY <1>1, <1>2, <1>6
  <2>2. Without(Append(w, y), p) = Append(Without(w, p), y) /\ Without(w, p) \in Words
    BY <2>1, WithoutOfAppend, WithoutLetters
  <2>3. Without(w, p) = v /\ x = y
    <3> DEFINE u == Without(w, p)
    <3> HIDE DEF u
    <3>1. Append(v, x) = Append(u, y) /\ u \in Words
      BY <1>4, <2>2 DEF u
    <3>2. v = u /\ x = y
      BY <3>1, AppendInjective DEF Words
    <3> QED
      BY <3>2 DEF u
  <2>4. Len(w) = Len(v) + 1
    BY <1>1, <1>2, <1>3
  <2> QED
    BY <2>1, <2>3, <2>4 DEF Inserted
<1> QED
  BY <1>5, <1>6

(* A letter put at the end, and an insertion before it.                    *)
LEMMA InsertedAtEnd ==
    ASSUME NEW v \in Words, NEW x \in Letters
    PROVE  /\ Inserted(v, Append(v, x))
           /\ \A w \in Words : Inserted(w, v) => Inserted(Append(w, x), Append(v, x))
<1>1. Append(v, x) \in Words /\ Len(Append(v, x)) = Len(v) + 1
  BY AppendWord
<1>2. Len(v) \in Nat
  BY WordLetters
<1>3. Inserted(v, Append(v, x))
  <2>1. Len(v) + 1 \in 1 .. Len(Append(v, x))
    BY <1>1, <1>2
  <2>2. Without(Append(v, x), Len(v) + 1) = v
    BY WithoutLast
  <2> QED
    BY <1>1, <2>1, <2>2 DEF Inserted
<1>4. ASSUME NEW w \in Words, Inserted(w, v)
      PROVE  Inserted(Append(w, x), Append(v, x))
  <2>1. PICK p \in 1 .. Len(v) : Without(v, p) = w
    BY <1>4 DEF Inserted
  <2>2. /\ p \in 1 .. Len(Append(v, x))
        /\ Without(Append(v, x), p) = Append(w, x)
    BY <2>1, WithoutOfAppend
  <2>3. Len(v) = Len(w) + 1 /\ Len(Append(w, x)) = Len(w) + 1
    BY <1>4, AppendWord DEF Inserted
  <2>4. Len(Append(v, x)) = Len(Append(w, x)) + 1
    BY <1>1, <2>3
  <2> QED
    BY <2>2, <2>4 DEF Inserted
<1> QED
  BY <1>3, <1>4

(* What an edit can make of a word: it deletes, replaces or follows the    *)
(* last letter, or leaves it alone.                                        *)
LEMMA EditLast ==
    ASSUME NEW u \in Words, NEW x \in Letters, NEW w \in Words,
           Edit(w, Append(u, x))
    PROVE  \/ w = u
           \/ \E y \in Letters : w = Append(u, y)
           \/ \E y \in Letters : w = Append(Append(u, x), y)
           \/ \E v \in Words : w = Append(v, x) /\ Edit(v, u)
<1>1. Append(u, x) \in Words /\ Len(Append(u, x)) = Len(u) + 1
  BY AppendWord
<1>2. Len(u) \in Nat /\ Len(w) \in Nat
  BY WordLetters
<1>3. CASE Len(w) = 0
  <2>1. w = << >>
    BY <1>3, EmptyWord
  <2>2. ~ Substituted(w, Append(u, x)) /\ ~ Inserted(Append(u, x), w)
    BY <1>1, <1>2, <1>3 DEF Substituted, Inserted
  <2>3. Len(Append(u, x)) = Len(w) + 1
    BY <2>2 DEF Edit, Inserted
  <2>4. Len(u) = 0
    BY <1>1, <1>2, <1>3, <2>3
  <2> QED
    BY <2>1, <2>4, EmptyWord
<1>4. CASE Len(w) > 0
  <2>1. PICK v \in Words, y \in Letters : w = Append(v, y)
    BY <1>4, LastLetter
  <2>2. CASE Substituted(w, Append(u, x))
    <3>1. IF y = x THEN Substituted(v, u) ELSE v = u
      BY <2>1, <2>2, SubstitutedLast
    <3> QED
      BY <2>1, <3>1 DEF Edit
  <2>3. CASE Inserted(w, Append(u, x))
    <3>1. u = Append(v, y) \/ (y = x /\ Inserted(v, u))
      BY <2>1, <2>3, InsertedLast
    <3> QED
      BY <2>1, <3>1 DEF Edit
  <2>4. CASE Inserted(Append(u, x), w)
    <3>1. v = Append(u, x) \/ (x = y /\ Inserted(u, v))
      BY <2>1, <2>4, InsertedLast
    <3> QED
      BY <2>1, <3>1 DEF Edit
  <2> QED
    BY <2>2, <2>3, <2>4 DEF Edit
<1> QED
  BY <1>2, <1>3, <1>4

(* The edits at the end of a word, and an edit before a letter.            *)
LEMMA EditsAtEnd ==
    ASSUME NEW v \in Words, NEW x \in Letters
    PROVE  /\ Edit(v, v) /\ Edit(Append(v, x), v) /\ Edit(v, Append(v, x))
           /\ \A y \in Letters : Edit(Append(v, y), Append(v, x))
           /\ \A w \in Words : Edit(w, v) => Edit(Append(w, x), Append(v, x))
<1>1. Substituted(v, v)
  BY SubstitutedLetters
<1>2. Inserted(v, Append(v, x))
  BY InsertedAtEnd
<1>3. ASSUME NEW y \in Letters PROVE Substituted(Append(v, y), Append(v, x))
  BY <1>1, SubstitutedLast
<1>4. ASSUME NEW w \in Words, Edit(w, v) PROVE Edit(Append(w, x), Append(v, x))
  <2>1. CASE Substituted(w, v)
    BY <2>1, SubstitutedLast DEF Edit
  <2>2. CASE Inserted(w, v)
    BY <2>2, InsertedAtEnd DEF Edit
  <2>3. CASE Inserted(v, w)
    BY <2>3, InsertedAtEnd DEF Edit
  <2> QED
    BY <1>4, <2>1, <2>2, <2>3 DEF Edit
<1> QED
  BY <1>1, <1>2, <1>3, <1>4 DEF Edit

(* An edit of the empty word leaves it or makes it a letter.               *)
LEMMA EditOfEmpty ==
    ASSUME NEW w \in Words, Edit(w, << >>)
    PROVE  w = << >> \/ \E y \in Letters : w = Append(<< >>, y)
<1>1. << >> \in Words /\ Len(<< >>) = 0 /\ Len(w) \in Nat
  BY EmptyWord, WordLetters
<1>2. Len(w) = 0 \/ Len(w) = 1
  BY <1>1 DEF Edit, Substituted, Inserted
<1>3. CASE Len(w) = 0
  BY <1>3, EmptyWord
<1>4. CASE Len(w) = 1
  <2>0. Len(w) > 0
    BY <1>4
  <2>1. PICK v \in Words, y \in Letters : w = Append(v, y)
    BY <2>0, LastLetter
  <2>2. Len(v) = 0
    BY <1>4, <2>1, AppendWord, WordLetters
  <2> QED
    BY <2>1, <2>2, EmptyWord
<1> QED
  BY <1>2, <1>3, <1>4

(* A swap, letter by letter.                                               *)
SwapAt(w, v, p) ==
    \A q \in 1 .. Len(v) :
        w[q] = IF q = p THEN v[p + 1] ELSE IF q = p + 1 THEN v[p] ELSE v[q]

(* A word with neighbours swapped is the other word but for the two.       *)
LEMMA SwappedLetters ==
    ASSUME NEW v \in Words, NEW w \in Words
    PROVE  Swapped(v, w) <=>
              Len(v) = Len(w) /\ \E p \in 1 .. Len(v) - 1 : SwapAt(w, v, p)
<1>1. Len(v) \in Nat /\ \A q \in 1 .. Len(v) : v[q] \in Letters
  BY WordLetters
<1>2. ASSUME NEW p \in 1 .. Len(v) - 1, Len(v) = Len(w)
      PROVE  w = [v EXCEPT ![p] = v[p + 1], ![p + 1] = v[p]] <=> SwapAt(w, v, p)
  <2> DEFINE s == [v EXCEPT ![p] = v[p + 1], ![p + 1] = v[p]]
  <2>1. p \in 1 .. Len(v) /\ p + 1 \in 1 .. Len(v) /\ p # p + 1
    BY <1>1
  <2>2. v \in [1 .. Len(v) -> Letters]
    BY LenProperties DEF Words
  <2>3. /\ s \in [1 .. Len(v) -> Letters]
        /\ \A q \in 1 .. Len(v) :
              s[q] = IF q = p THEN v[p + 1] ELSE IF q = p + 1 THEN v[p] ELSE v[q]
    BY <1>1, <2>1, <2>2
  <2>4. s \in Words /\ Len(s) = Len(v)
    BY <1>1, <2>3 DEF Words
  <2> HIDE DEF s
  <2>5. ASSUME SwapAt(w, v, p) PROVE w = s
    <3>1. \A q \in 1 .. Len(w) : w[q] = s[q]
      BY <1>2, <2>3, <2>5 DEF SwapAt
    <3> QED
      BY <1>2, <2>4, <3>1, SameWord
  <2>6. ASSUME w = s PROVE SwapAt(w, v, p)
    BY <2>3, <2>6 DEF SwapAt
  <2> QED
    BY <2>5, <2>6 DEF s
<1> QED
  BY <1>2 DEF Swapped

(* A swap before a letter, and one of the last two.                        *)
LEMMA SwapsAtEnd ==
    ASSUME NEW v \in Words, NEW x \in Letters, NEW y \in Letters
    PROVE  /\ Swapped(Append(Append(v, y), x), Append(Append(v, x), y))
           /\ \A w \in Words : Swapped(w, v) => Swapped(Append(w, x), Append(v, x))
<1>1. Len(v) \in Nat
  BY WordLetters
<1>2. Swapped(Append(Append(v, y), x), Append(Append(v, x), y))
  <2> DEFINE s == Append(Append(v, y), x)
             t == Append(Append(v, x), y)
             p == Len(v) + 1
  <2>1. /\ Append(v, y) \in Words /\ Len(Append(v, y)) = p
        /\ \A q \in 1 .. Len(v) : Append(v, y)[q] = v[q]
        /\ Append(v, y)[p] = y
    BY AppendWord
  <2>2. /\ Append(v, x) \in Words /\ Len(Append(v, x)) = p
        /\ \A q \in 1 .. Len(v) : Append(v, x)[q] = v[q]
        /\ Append(v, x)[p] = x
    BY AppendWord
  <2>3. /\ s \in Words /\ Len(s) = p + 1
        /\ \A q \in 1 .. p : s[q] = Append(v, y)[q]
        /\ s[p + 1] = x
    BY <2>1, AppendWord
  <2>4. /\ t \in Words /\ Len(t) = p + 1
        /\ \A q \in 1 .. p : t[q] = Append(v, x)[q]
        /\ t[p + 1] = y
    <3> DEFINE u == Append(v, x)
    <3> HIDE DEF u, p
    <3> SUFFICES /\ Append(u, y) \in Words /\ Len(Append(u, y)) = p + 1
                 /\ \A q \in 1 .. p : Append(u, y)[q] = u[q]
                 /\ Append(u, y)[p + 1] = y
      BY DEF u
    <3>1. u \in Words /\ Len(u) = p
      BY <2>2 DEF u
    <3> QED
      BY <3>1, AppendWord
  <2> HIDE DEF s, t
  <2>5. ASSUME NEW q \in 1 .. Len(s)
        PROVE  t[q] = IF q = p THEN s[p + 1] ELSE IF q = p + 1 THEN s[p] ELSE s[q]
    <3>1. q \in 1 .. Len(v) \/ q = p \/ q = p + 1
      BY <1>1, <2>3
    <3>2. CASE q \in 1 .. Len(v)
      <4>1. q \in 1 .. p /\ q # p /\ q # p + 1
        BY <1>1, <3>2
      <4> QED
        BY <2>1, <2>2, <2>3, <2>4, <3>2, <4>1
    <3>3. CASE q = p
      <4>1. p \in 1 .. p /\ p # p + 1
        BY <1>1
      <4> QED
        BY <2>1, <2>2, <2>3, <2>4, <3>3, <4>1
    <3>4. CASE q = p + 1
      <4>1. p \in 1 .. p /\ p # p + 1
        BY <1>1
      <4> QED
        BY <2>1, <2>2, <2>3, <2>4, <3>4, <4>1
    <3> QED
      BY <3>1, <3>2, <3>3, <3>4
  <2>6. SwapAt(t, s, p)
    BY <2>5 DEF SwapAt
  <2>7. p \in 1 .. Len(s) - 1
    BY <1>1, <2>3
  <2>8. Swapped(s, t)
    BY <2>3, <2>4, <2>6, <2>7, SwappedLetters
  <2> QED
    BY <2>8 DEF s, t
<1>3. ASSUME NEW w \in Words, Swapped(w, v)
      PROVE  Swapped(Append(w, x), Append(v, x))
  <2> DEFINE wx == Append(w, x)
             vx == Append(v, x)
  <2>1. PICK p \in 1 .. Len(w) - 1 : Len(w) = Len(v) /\ SwapAt(v, w, p)
    BY <1>3, SwappedLetters
  <2>2. /\ wx \in Words /\ Len(wx) = Len(w) + 1 /\ wx[Len(w) + 1] = x
        /\ \A q \in 1 .. Len(w) : wx[q] = w[q]
    BY AppendWord
  <2>3. /\ vx \in Words /\ Len(vx) = Len(v) + 1 /\ vx[Len(v) + 1] = x
        /\ \A q \in 1 .. Len(v) : vx[q] = v[q]
    BY AppendWord
  <2> HIDE DEF wx, vx
  <2>4. p \in 1 .. Len(w) /\ p + 1 \in 1 .. Len(w) /\ p \in 1 .. Len(wx) - 1
    BY <1>1, <2>1, <2>2
  <2>5. ASSUME NEW q \in 1 .. Len(wx)
        PROVE  vx[q] = IF q = p THEN wx[p + 1] ELSE IF q = p + 1 THEN wx[p] ELSE wx[q]
    <3>1. CASE q \in 1 .. Len(w)
      BY <2>1, <2>2, <2>3, <2>4, <3>1 DEF SwapAt
    <3>2. CASE q = Len(w) + 1
      <4>1. q # p /\ q # p + 1
        BY <1>1, <2>1, <3>2
      <4> QED
        BY <2>1, <2>2, <2>3, <3>2, <4>1
    <3> QED
      BY <1>1, <2>1, <2>2, <3>1, <3>2
  <2>6. SwapAt(vx, wx, p)
    BY <2>5 DEF SwapAt
  <2>7. Swapped(wx, vx)
    BY <2>1, <2>2, <2>3, <2>4, <2>6, SwappedLetters
  <2> QED
    BY <2>7 DEF wx, vx
<1> QED
  BY <1>2, <1>3

(* A swap is one of the last two letters or one before the last.           *)
LEMMA SwappedLast ==
    ASSUME NEW v \in Words, NEW w \in Words, NEW x \in Letters, NEW y \in Letters,
           Swapped(Append(w, y), Append(v, x))
    PROVE  \/ x = y /\ Swapped(w, v)
           \/ \E u \in Words : w = Append(u, x) /\ v = Append(u, y)
<1> DEFINE wy == Append(w, y)
           vx == Append(v, x)
<1>1. Len(v) \in Nat /\ Len(w) \in Nat
  BY WordLetters
<1>2. /\ wy \in Words /\ Len(wy) = Len(w) + 1 /\ wy[Len(w) + 1] = y
      /\ \A q \in 1 .. Len(w) : wy[q] = w[q]
  BY AppendWord
<1>3. /\ vx \in Words /\ Len(vx) = Len(v) + 1 /\ vx[Len(v) + 1] = x
      /\ \A q \in 1 .. Len(v) : vx[q] = v[q]
  BY AppendWord
<1>4. Swapped(wy, vx)
  OBVIOUS
<1> HIDE DEF wy, vx
<1>5. PICK p \in 1 .. Len(wy) - 1 : Len(wy) = Len(vx) /\ SwapAt(vx, wy, p)
  BY <1>2, <1>3, <1>4, SwappedLetters
<1>6. Len(v) = Len(w) /\ p \in 1 .. Len(w)
  BY <1>1, <1>2, <1>3, <1>5
<1>7. \A q \in 1 .. Len(w) + 1 :
         vx[q] = IF q = p THEN wy[p + 1] ELSE IF q = p + 1 THEN wy[p] ELSE wy[q]
  BY <1>2, <1>5 DEF SwapAt
<1>8. CASE p = Len(w)
  <2>1. Len(w) > 0
    BY <1>6, <1>8
  <2>2. PICK s \in Words, z \in Letters : w = Append(s, z)
    BY <2>1, LastLetter
  <2>3. PICK t \in Words, z2 \in Letters : v = Append(t, z2)
    BY <1>6, <2>1, LastLetter
  <2>4. /\ Len(s) + 1 = Len(w) /\ w[Len(s) + 1] = z
        /\ \A q \in 1 .. Len(s) : w[q] = s[q]
    BY <2>2, AppendWord
  <2>5. /\ Len(t) + 1 = Len(v) /\ v[Len(t) + 1] = z2
        /\ \A q \in 1 .. Len(t) : v[q] = t[q]
    BY <2>3, AppendWord
  <2>6. Len(s) \in Nat /\ Len(t) \in Nat
    BY WordLetters
  <2>7. Len(s) = Len(t)
    BY <1>6, <2>4, <2>5, <2>6
  <2>8. x = z
    <3>1. Len(w) + 1 \in 1 .. Len(w) + 1 /\ Len(w) + 1 # p /\ Len(w) + 1 = p + 1
      BY <1>1, <1>8
    <3>2. vx[Len(w) + 1] = wy[p]
      BY <1>7, <3>1
    <3> QED
      BY <1>2, <1>3, <1>6, <1>8, <2>4, <3>2
  <2>9. y = z2
    <3>1. p \in 1 .. Len(w) + 1
      BY <1>1, <1>6
    <3>2. vx[p] = wy[p + 1]
      BY <1>7, <3>1
    <3> QED
      BY <1>2, <1>3, <1>6, <1>8, <2>5, <3>2
  <2>10. ASSUME NEW q \in 1 .. Len(s) PROVE s[q] = t[q]
    <3>1. q \in 1 .. Len(w) /\ q \in 1 .. Len(w) + 1 /\ q # p /\ q # p + 1
      BY <1>1, <1>8, <2>4, <2>6
    <3>2. vx[q] = wy[q]
      BY <1>7, <3>1
    <3>3. w[q] = v[q]
      BY <1>2, <1>3, <1>6, <3>1, <3>2
    <3> QED
      BY <2>4, <2>5, <2>7, <3>3
  <2>11. s = t
    BY <2>7, <2>10, SameWord
  <2> QED
    BY <2>2, <2>3, <2>8, <2>9, <2>11
<1>9. CASE p # Len(w)
  <2>1. p \in 1 .. Len(w) - 1 /\ p + 1 \in 1 .. Len(w)
    BY <1>1, <1>6, <1>9
  <2>2. x = y
    <3>1. Len(w) + 1 \in 1 .. Len(w) + 1 /\ Len(w) + 1 # p /\ Len(w) + 1 # p + 1
      BY <1>1, <2>1
    <3>2. vx[Len(w) + 1] = wy[Len(w) + 1]
      BY <1>7, <3>1
    <3> QED
      BY <1>2, <1>3, <1>6, <3>2
  <2>3. ASSUME NEW q \in 1 .. Len(w)
        PROVE  v[q] = IF q = p THEN w[p + 1] ELSE IF q = p + 1 THEN w[p] ELSE w[q]
    <3>1. q \in 1 .. Len(w) + 1
      BY <1>1
    <3>2. vx[q] = IF q = p THEN wy[p + 1] ELSE IF q = p + 1 THEN wy[p] ELSE wy[q]
      BY <1>7, <3>1
    <3> QED
      BY <1>2, <1>3, <1>6, <2>1, <3>2
  <2>4. SwapAt(v, w, p)
    BY <2>3 DEF SwapAt
  <2>5. Swapped(w, v)
    BY <1>6, <2>1, <2>4, SwappedLetters
  <2> QED
    BY <2>2, <2>5
<1> QED
  BY <1>8, <1>9

-----------------------------------------------------------------------------
(* Alignments: pairs of words and a number of simple edits, built by the   *)
(* three ways a cell of the table looks back.                              *)

Triples == Words \X Words \X Nat

Cost(x, y) == IF x = y THEN 0 ELSE 1

Closed(S) ==
    /\ \A m \in Nat : <<<< >>, << >>, m>> \in S
    /\ \A v, w \in Words, m \in Nat : <<v, w, m>> \in S =>
          /\ \A x \in Letters : <<Append(v, x), w, m + 1>> \in S
          /\ \A y \in Letters : <<v, Append(w, y), m + 1>> \in S
          /\ \A x, y \in Letters : <<Append(v, x), Append(w, y), m + Cost(x, y)>> \in S

(* The smallest closed set.                                                *)
Aligned == {t \in Triples : \A S \in SUBSET Triples : Closed(S) => t \in S}

(* It is closed itself.                                                    *)
LEMMA AlignedClosed == Closed(Aligned) /\ Aligned \in SUBSET Triples
<1>1. ASSUME NEW x \in Letters, NEW y \in Letters, NEW m \in Nat
      PROVE  m + Cost(x, y) \in Nat /\ m + 1 \in Nat
  BY DEF Cost
<1>2. ASSUME NEW m \in Nat PROVE <<<< >>, << >>, m>> \in Aligned
  <2>1. <<<< >>, << >>, m>> \in Triples
    BY EmptyWord DEF Triples
  <2>2. \A S \in SUBSET Triples : Closed(S) => <<<< >>, << >>, m>> \in S
    BY DEF Closed
  <2> QED
    BY <2>1, <2>2 DEF Aligned
<1>3. ASSUME NEW v \in Words, NEW w \in Words, NEW m \in Nat, <<v, w, m>> \in Aligned,
             NEW x \in Letters
      PROVE  <<Append(v, x), w, m + 1>> \in Aligned
  <2>0. Append(v, x) \in Words /\ m + 1 \in Nat
    BY AppendWord
  <2>1. <<Append(v, x), w, m + 1>> \in Triples
    BY <2>0 DEF Triples
  <2>2. \A S \in SUBSET Triples : Closed(S) => <<Append(v, x), w, m + 1>> \in S
    BY <1>3 DEF Closed, Aligned
  <2> QED
    BY <2>1, <2>2 DEF Aligned
<1>4. ASSUME NEW v \in Words, NEW w \in Words, NEW m \in Nat, <<v, w, m>> \in Aligned,
             NEW y \in Letters
      PROVE  <<v, Append(w, y), m + 1>> \in Aligned
  <2>0. Append(w, y) \in Words /\ m + 1 \in Nat
    BY AppendWord
  <2>1. <<v, Append(w, y), m + 1>> \in Triples
    BY <2>0 DEF Triples
  <2>2. \A S \in SUBSET Triples : Closed(S) => <<v, Append(w, y), m + 1>> \in S
    BY <1>4 DEF Closed, Aligned
  <2> QED
    BY <2>1, <2>2 DEF Aligned
<1>5. ASSUME NEW v \in Words, NEW w \in Words, NEW m \in Nat, <<v, w, m>> \in Aligned,
             NEW x \in Letters, NEW y \in Letters
      PROVE  <<Append(v, x), Append(w, y), m + Cost(x, y)>> \in Aligned
  <2>0. Append(v, x) \in Words /\ Append(w, y) \in Words
    BY AppendWord
  <2>1. <<Append(v, x), Append(w, y), m + Cost(x, y)>> \in Triples
    BY <1>1, <2>0 DEF Triples
  <2>2. \A S \in SUBSET Triples :
           Closed(S) => <<Append(v, x), Append(w, y), m + Cost(x, y)>> \in S
    BY <1>5 DEF Closed, Aligned
  <2> QED
    BY <2>1, <2>2 DEF Aligned
<1>6. Closed(Aligned)
  BY <1>2, <1>3, <1>4, <1>5 DEF Closed
<1> QED
  BY <1>6 DEF Aligned

(* Every closed set of triples holds the alignments.                       *)
LEMMA AlignedLeast ==
    ASSUME NEW S \in SUBSET Triples, Closed(S)
    PROVE  Aligned \subseteq S
  BY DEF Aligned

(* How an alignment can have been built.                                   *)
Built(v, w, m) ==
    \/ v = << >> /\ w = << >>
    \/ m > 0 /\ \E s \in Words, x \in Letters :
          v = Append(s, x) /\ <<s, w, m - 1>> \in Aligned
    \/ m > 0 /\ \E t \in Words, y \in Letters :
          w = Append(t, y) /\ <<v, t, m - 1>> \in Aligned
    \/ \E s, t \in Words, x, y \in Letters :
          /\ v = Append(s, x) /\ w = Append(t, y)
          /\ m >= Cost(x, y) /\ <<s, t, m - Cost(x, y)>> \in Aligned

(* All of them are built like this.                                        *)
LEMMA AlignedBuilt ==
    ASSUME NEW v \in Words, NEW w \in Words, NEW m \in Nat, <<v, w, m>> \in Aligned
    PROVE  Built(v, w, m)
<1> DEFINE S == {t \in Aligned : Built(t[1], t[2], t[3])}
<1>0. /\ \A x, y \in Letters : Cost(x, y) \in Nat
      /\ \A k1 \in Nat : k1 + 1 \in Nat /\ (k1 + 1) - 1 = k1 /\ k1 + 1 > 0
      /\ \A k1, k2 \in Nat : k1 + k2 \in Nat /\ (k1 + k2) - k2 = k1 /\ k1 + k2 >= k2
  BY DEF Cost
<1>1. ASSUME NEW q \in Nat PROVE <<<< >>, << >>, q>> \in S
  BY AlignedClosed DEF Closed, Built
<1>2. ASSUME NEW s \in Words, NEW t \in Words, NEW q \in Nat, <<s, t, q>> \in Aligned
      PROVE  /\ \A x \in Letters : <<Append(s, x), t, q + 1>> \in S
             /\ \A y \in Letters : <<s, Append(t, y), q + 1>> \in S
             /\ \A x, y \in Letters : <<Append(s, x), Append(t, y), q + Cost(x, y)>> \in S
  <2>1. ASSUME NEW x \in Letters PROVE <<Append(s, x), t, q + 1>> \in S
    <3>1. Built(Append(s, x), t, q + 1)
      BY <1>0, <1>2 DEF Built
    <3>2. <<Append(s, x), t, q + 1>> \in Aligned
      BY <1>2, AlignedClosed DEF Closed
    <3> QED
      BY <3>1, <3>2
  <2>2. ASSUME NEW y \in Letters PROVE <<s, Append(t, y), q + 1>> \in S
    <3>1. Built(s, Append(t, y), q + 1)
      BY <1>0, <1>2 DEF Built
    <3>2. <<s, Append(t, y), q + 1>> \in Aligned
      BY <1>2, AlignedClosed DEF Closed
    <3> QED
      BY <3>1, <3>2
  <2>3. ASSUME NEW x \in Letters, NEW y \in Letters
        PROVE  <<Append(s, x), Append(t, y), q + Cost(x, y)>> \in S
    <3>1. Built(Append(s, x), Append(t, y), q + Cost(x, y))
      <4> DEFINE z == q + Cost(x, y)
      <4>1. z >= Cost(x, y) /\ <<s, t, z - Cost(x, y)>> \in Aligned
        BY <1>0, <1>2
      <4> HIDE DEF z
      <4>2. Built(Append(s, x), Append(t, y), z)
        BY <4>1, Zenon DEF Built
      <4> QED
        BY <4>2 DEF z
    <3>2. <<Append(s, x), Append(t, y), q + Cost(x, y)>> \in Aligned
      BY <1>2, AlignedClosed DEF Closed
    <3> QED
      BY <3>1, <3>2
  <2> QED
    BY <2>1, <2>2, <2>3
<1>3. S \in SUBSET Triples
  BY AlignedClosed
<1>4. Closed(S)
  <2> HIDE DEF S
  <2>1. S \subseteq Aligned
    BY DEF S
  <2> QED
    BY <1>1, <1>2, <2>1 DEF Closed
<1>5. <<v, w, m>> \in S
  BY <1>3, <1>4, AlignedLeast
<1> QED
  BY <1>5

(* Three facts of costs and counts.                                        *)
LEMMA CostType ==
    /\ \A x, y \in Letters : Cost(x, y) \in {0, 1}
    /\ \A x \in Letters : Cost(x, x) = 0
  BY DEF Cost

(* A count may be larger.                                                  *)
LEMMA AlignedMore ==
    ASSUME NEW v \in Words, NEW w \in Words, NEW m \in Nat, <<v, w, m>> \in Aligned
    PROVE  <<v, w, m + 1>> \in Aligned
<1> DEFINE S == {t \in Aligned : <<t[1], t[2], t[3] + 1>> \in Aligned}
<1>1. ASSUME NEW q \in Nat PROVE <<<< >>, << >>, q>> \in S
  BY AlignedClosed DEF Closed
<1>2. ASSUME NEW s \in Words, NEW t \in Words, NEW q \in Nat, <<s, t, q>> \in S
      PROVE  /\ \A x \in Letters : <<Append(s, x), t, q + 1>> \in S
             /\ \A y \in Letters : <<s, Append(t, y), q + 1>> \in S
             /\ \A x, y \in Letters : <<Append(s, x), Append(t, y), q + Cost(x, y)>> \in S
  <2>1. <<s, t, q>> \in Aligned /\ <<s, t, q + 1>> \in Aligned /\ q + 1 \in Nat
    BY <1>2
  <2>2. ASSUME NEW x \in Letters PROVE <<Append(s, x), t, q + 1>> \in S
    BY <2>1, AlignedClosed DEF Closed
  <2>3. ASSUME NEW y \in Letters PROVE <<s, Append(t, y), q + 1>> \in S
    BY <2>1, AlignedClosed DEF Closed
  <2>4. ASSUME NEW x \in Letters, NEW y \in Letters
        PROVE  <<Append(s, x), Append(t, y), q + Cost(x, y)>> \in S
    <3>1. (q + 1) + Cost(x, y) = (q + Cost(x, y)) + 1
      BY CostType
    <3>2. /\ <<Append(s, x), Append(t, y), q + Cost(x, y)>> \in Aligned
          /\ <<Append(s, x), Append(t, y), (q + 1) + Cost(x, y)>> \in Aligned
      BY <2>1, AlignedClosed DEF Closed
    <3> QED
      BY <3>1, <3>2
  <2> QED
    BY <2>2, <2>3, <2>4
<1>3. S \in SUBSET Triples
  BY AlignedClosed
<1>4. Closed(S)
  <2> HIDE DEF S
  <2> QED
    BY <1>1, <1>2 DEF Closed
<1>5. <<v, w, m>> \in S
  BY <1>3, <1>4, AlignedLeast
<1> QED
  BY <1>5

(* The same word is aligned with itself at no cost.                        *)
LEMMA AlignedSame ==
    ASSUME NEW w \in Words
    PROVE  <<w, w, 0>> \in Aligned
<1> DEFINE S == {l \in Nat : \A v \in Words : Len(v) = l => <<v, v, 0>> \in Aligned}
<1>1. 0 \in S
  BY EmptyWord, AlignedClosed DEF Closed
<1>2. ASSUME NEW l \in Nat, l \in S PROVE l + 1 \in S
  <2>1. ASSUME NEW v \in Words, Len(v) = l + 1 PROVE <<v, v, 0>> \in Aligned
    <3>0. Len(v) > 0
      BY <2>1
    <3>1. PICK u \in Words, x \in Letters : v = Append(u, x)
      BY <3>0, LastLetter
    <3>2. Len(u) = l
      BY <2>1, <3>1, AppendWord, WordLetters
    <3>3. <<u, u, 0>> \in Aligned
      BY <1>2, <3>2
    <3>4. <<v, v, 0 + Cost(x, x)>> \in Aligned
      BY <3>1, <3>3, AlignedClosed DEF Closed
    <3> QED
      BY <3>4, CostType
  <2> QED
    BY <2>1
<1>3. Nat \subseteq S
  <2> HIDE DEF S
  <2> QED
    BY <1>1, <1>2, Induction
<1> QED
  BY <1>3, WordLetters

(* The count is at least the difference of the lengths.                    *)
LEMMA AlignedLengths ==
    ASSUME NEW v \in Words, NEW w \in Words, NEW m \in Nat, <<v, w, m>> \in Aligned
    PROVE  Len(v) <= Len(w) + m /\ Len(w) <= Len(v) + m
<1> DEFINE S == {t \in Triples : Len(t[1]) <= Len(t[2]) + t[3] /\ Len(t[2]) <= Len(t[1]) + t[3]}
<1>0. \A s, t \in Words, q \in Nat :
         <<s, t, q>> \in S <=> Len(s) <= Len(t) + q /\ Len(t) <= Len(s) + q
  BY DEF Triples
<1>3. S \in SUBSET Triples
  OBVIOUS
<1> HIDE DEF S
<1>1. ASSUME NEW q \in Nat PROVE <<<< >>, << >>, q>> \in S
  BY <1>0, EmptyWord
<1>2. ASSUME NEW s \in Words, NEW t \in Words, NEW q \in Nat, <<s, t, q>> \in S
      PROVE  /\ \A x \in Letters : <<Append(s, x), t, q + 1>> \in S
             /\ \A y \in Letters : <<s, Append(t, y), q + 1>> \in S
             /\ \A x, y \in Letters : <<Append(s, x), Append(t, y), q + Cost(x, y)>> \in S
  <2>1. /\ Len(s) \in Nat /\ Len(t) \in Nat
        /\ \A x \in Letters : Append(s, x) \in Words /\ Len(Append(s, x)) = Len(s) + 1
        /\ \A x \in Letters : Append(t, x) \in Words /\ Len(Append(t, x)) = Len(t) + 1
    BY AppendWord, WordLetters
  <2>2. Len(s) <= Len(t) + q /\ Len(t) <= Len(s) + q
    BY <1>0, <1>2
  <2>3. ASSUME NEW x \in Letters PROVE <<Append(s, x), t, q + 1>> \in S
    <3>1. /\ q + 1 \in Nat /\ Append(s, x) \in Words
          /\ Len(Append(s, x)) <= Len(t) + (q + 1) /\ Len(t) <= Len(Append(s, x)) + (q + 1)
      BY <2>1, <2>2
    <3> QED
      BY <1>0, <3>1
  <2>4. ASSUME NEW y \in Letters PROVE <<s, Append(t, y), q + 1>> \in S
    <3>1. /\ q + 1 \in Nat /\ Append(t, y) \in Words
          /\ Len(s) <= Len(Append(t, y)) + (q + 1) /\ Len(Append(t, y)) <= Len(s) + (q + 1)
      BY <2>1, <2>2
    <3> QED
      BY <1>0, <3>1
  <2>5. ASSUME NEW x \in Letters, NEW y \in Letters
        PROVE  <<Append(s, x), Append(t, y), q + Cost(x, y)>> \in S
    <3> DEFINE z == q + Cost(x, y)
    <3>1. z \in Nat /\ z >= q
      BY CostType
    <3> HIDE DEF z
    <3>2. /\ Append(s, x) \in Words /\ Append(t, y) \in Words
          /\ Len(Append(s, x)) <= Len(Append(t, y)) + z
          /\ Len(Append(t, y)) <= Len(Append(s, x)) + z
      BY <2>1, <2>2, <3>1
    <3>3. <<Append(s, x), Append(t, y), z>> \in S
      BY <1>0, <3>1, <3>2
    <3> QED
      BY <3>3 DEF z
  <2> QED
    BY <2>3, <2>4, <2>5
<1>4. Closed(S)
  BY <1>1, <1>2 DEF Closed
<1>5. <<v, w, m>> \in S
  BY <1>3, <1>4, AlignedLeast
<1> QED
  BY <1>0, <1>5

(* The three ways to extend an alignment.                                  *)
LEMMA AlignedSteps ==
    ASSUME NEW v \in Words, NEW w \in Words, NEW m \in Nat, <<v, w, m>> \in Aligned,
           NEW x \in Letters, NEW y \in Letters
    PROVE  /\ <<Append(v, x), w, m + 1>> \in Aligned
           /\ <<v, Append(w, y), m + 1>> \in Aligned
           /\ <<Append(v, x), Append(w, y), m + Cost(x, y)>> \in Aligned
  BY AlignedClosed DEF Closed

(* What is aligned with all that one more edit can make of w.              *)
Editable(v, w, m) == \A u \in Words : Edit(u, w) => <<v, u, m + 1>> \in Aligned

(* A letter more on the left leaves it so.                                 *)
LEMMA EditableLeft ==
    ASSUME NEW v \in Words, NEW w \in Words, NEW m \in Nat,
           <<v, w, m>> \in Aligned, Editable(v, w, m), NEW x \in Letters
    PROVE  Editable(Append(v, x), w, m + 1)
<1> SUFFICES ASSUME NEW u \in Words, Edit(u, w)
             PROVE  <<Append(v, x), u, (m + 1) + 1>> \in Aligned
  BY DEF Editable
<1>1. <<v, u, m + 1>> \in Aligned /\ m + 1 \in Nat
  BY DEF Editable
<1> QED
  BY <1>1, AlignedSteps

(* So does a letter more on the right.                                     *)
LEMMA EditableRight ==
    ASSUME NEW v \in Words, NEW w \in Words, NEW m \in Nat,
           <<v, w, m>> \in Aligned, Editable(v, w, m), NEW y \in Letters
    PROVE  Editable(v, Append(w, y), m + 1)
<1> SUFFICES ASSUME NEW u \in Words, Edit(u, Append(w, y))
             PROVE  <<v, u, (m + 1) + 1>> \in Aligned
  BY DEF Editable
<1>0. m + 1 \in Nat /\ Append(w, y) \in Words
  BY AppendWord
<1>1. CASE u = w
  <2>1. <<v, w, m + 1>> \in Aligned
    BY AlignedMore
  <2> QED
    BY <1>0, <1>1, <2>1, AlignedMore
<1>2. CASE \E z \in Letters : u = Append(w, z)
  <2>1. PICK z \in Letters : u = Append(w, z)
    BY <1>2
  <2>2. <<v, u, m + 1>> \in Aligned
    BY <2>1, AlignedSteps
  <2> QED
    BY <1>0, <2>2, AlignedMore
<1>3. CASE \E z \in Letters : u = Append(Append(w, y), z)
  <2>1. PICK z \in Letters : u = Append(Append(w, y), z)
    BY <1>3
  <2>2. <<v, Append(w, y), m + 1>> \in Aligned
    BY AlignedSteps
  <2> QED
    BY <1>0, <2>1, <2>2, AlignedSteps
<1>4. CASE \E s \in Words : u = Append(s, y) /\ Edit(s, w)
  <2>1. PICK s \in Words : u = Append(s, y) /\ Edit(s, w)
    BY <1>4
  <2>2. <<v, s, m + 1>> \in Aligned
    BY <2>1 DEF Editable
  <2> QED
    BY <1>0, <2>1, <2>2, AlignedSteps
<1> QED
  BY <1>1, <1>2, <1>3, <1>4, EditLast

(* And so does a letter more on both sides.                                *)
LEMMA EditableBoth ==
    ASSUME NEW v \in Words, NEW w \in Words, NEW m \in Nat,
           <<v, w, m>> \in Aligned, Editable(v, w, m),
           NEW x \in Letters, NEW y \in Letters
    PROVE  Editable(Append(v, x), Append(w, y), m + Cost(x, y))
<1> DEFINE l == m + Cost(x, y)
<1>0. /\ m + 1 \in Nat /\ l \in Nat /\ l + 1 = (m + 1) + Cost(x, y)
      /\ l + 1 \in {m + 1, (m + 1) + 1}
      /\ Append(w, y) \in Words /\ Append(v, x) \in Words
  <2>1. Cost(x, y) \in {0, 1}
    BY CostType
  <2> QED
    BY <2>1, AppendWord
<1>9. <<Append(v, x), Append(w, y), l>> \in Aligned
  BY AlignedSteps
<1> HIDE DEF l
<1>5. ASSUME NEW u \in Words, <<Append(v, x), u, m + 1>> \in Aligned
      PROVE  <<Append(v, x), u, l + 1>> \in Aligned
  <2>1. <<Append(v, x), u, (m + 1) + 1>> \in Aligned
    BY <1>0, <1>5, AlignedMore
  <2> QED
    BY <1>0, <1>5, <2>1
<1>6. ASSUME NEW u \in Words, Edit(u, Append(w, y))
      PROVE  <<Append(v, x), u, l + 1>> \in Aligned
  <2>1. CASE u = w
    <3>1. <<Append(v, x), u, m + 1>> \in Aligned
      BY <2>1, AlignedSteps
    <3> QED
      BY <1>5, <3>1
  <2>2. CASE \E z \in Letters : u = Append(w, z)
    <3>1. PICK z \in Letters : u = Append(w, z)
      BY <2>2
    <3>2. <<Append(v, x), u, m + Cost(x, z)>> \in Aligned
      BY <3>1, AlignedSteps
    <3>3. Cost(x, z) = 0 \/ Cost(x, z) = 1
      BY CostType
    <3>4. CASE Cost(x, z) = 0
      <4>1. <<Append(v, x), u, m>> \in Aligned
        BY <3>2, <3>4
      <4>2. <<Append(v, x), u, m + 1>> \in Aligned
        BY <1>0, <4>1, AlignedMore
      <4> QED
        BY <1>5, <4>2
    <3>5. CASE Cost(x, z) = 1
      BY <1>5, <3>2, <3>5
    <3> QED
      BY <3>3, <3>4, <3>5
  <2>3. CASE \E z \in Letters : u = Append(Append(w, y), z)
    <3>1. PICK z \in Letters : u = Append(Append(w, y), z)
      BY <2>3
    <3> QED
      BY <1>0, <1>9, <3>1, AlignedSteps
  <2>4. CASE \E s \in Words : u = Append(s, y) /\ Edit(s, w)
    <3>1. PICK s \in Words : u = Append(s, y) /\ Edit(s, w)
      BY <2>4
    <3>2. <<v, s, m + 1>> \in Aligned
      BY <3>1 DEF Editable
    <3>3. <<Append(v, x), Append(s, y), (m + 1) + Cost(x, y)>> \in Aligned
      BY <1>0, <3>2, AlignedSteps
    <3> QED
      BY <1>0, <3>1, <3>3
  <2> QED
    BY <1>6, <2>1, <2>2, <2>3, <2>4, EditLast
<1>7. Editable(Append(v, x), Append(w, y), l)
  BY <1>6 DEF Editable
<1> QED
  BY <1>7 DEF l

(* One more edit costs one more at most, wherever in the word it is.       *)
LEMMA AlignedEdit ==
    ASSUME NEW v \in Words, NEW w \in Words, NEW m \in Nat, <<v, w, m>> \in Aligned
    PROVE  Editable(v, w, m)
<1> DEFINE S == {t \in Aligned : Editable(t[1], t[2], t[3])}
<1>1. ASSUME NEW q \in Nat PROVE <<<< >>, << >>, q>> \in S
  <2>1. <<<< >>, << >>, q>> \in Aligned /\ << >> \in Words
    BY AlignedClosed, EmptyWord DEF Closed
  <2>2. ASSUME NEW u \in Words, Edit(u, << >>)
        PROVE  <<<< >>, u, q + 1>> \in Aligned
    <3>1. CASE u = << >>
      BY <2>1, <3>1, AlignedMore
    <3>2. CASE \E y \in Letters : u = Append(<< >>, y)
      BY <2>1, <3>2, AlignedSteps
    <3> QED
      BY <2>2, <3>1, <3>2, EditOfEmpty
  <2>3. Editable(<< >>, << >>, q)
    BY <2>2 DEF Editable
  <2> QED
    BY <2>1, <2>3
<1>2. ASSUME NEW s \in Words, NEW t \in Words, NEW q \in Nat, <<s, t, q>> \in S
      PROVE  /\ \A x \in Letters : <<Append(s, x), t, q + 1>> \in S
             /\ \A y \in Letters : <<s, Append(t, y), q + 1>> \in S
             /\ \A x, y \in Letters : <<Append(s, x), Append(t, y), q + Cost(x, y)>> \in S
  <2>1. <<s, t, q>> \in Aligned /\ Editable(s, t, q)
    BY <1>2
  <2>2. ASSUME NEW x \in Letters PROVE <<Append(s, x), t, q + 1>> \in S
    <3>1. <<Append(s, x), t, q + 1>> \in Aligned /\ Editable(Append(s, x), t, q + 1)
      BY <2>1, AlignedSteps, EditableLeft
    <3> QED
      BY <3>1
  <2>3. ASSUME NEW y \in Letters PROVE <<s, Append(t, y), q + 1>> \in S
    <3>1. <<s, Append(t, y), q + 1>> \in Aligned /\ Editable(s, Append(t, y), q + 1)
      BY <2>1, AlignedSteps, EditableRight
    <3> QED
      BY <3>1
  <2>4. ASSUME NEW x \in Letters, NEW y \in Letters
        PROVE  <<Append(s, x), Append(t, y), q + Cost(x, y)>> \in S
    <3>1. /\ <<Append(s, x), Append(t, y), q + Cost(x, y)>> \in Aligned
          /\ Editable(Append(s, x), Append(t, y), q + Cost(x, y))
      BY <2>1, AlignedSteps, EditableBoth
    <3> QED
      BY <3>1
  <2> QED
    BY <2>2, <2>3, <2>4
<1>3. S \in SUBSET Triples
  BY AlignedClosed
<1>4. Closed(S)
  <2> HIDE DEF S
  <2> QED
    BY <1>1, <1>2 DEF Closed
<1>5. <<v, w, m>> \in S
  BY <1>3, <1>4, AlignedLeast
<1> QED
  BY <1>5

-----------------------------------------------------------------------------
(* What numbers of edits lead to.                                          *)

(* The words that steps from word to word lead to, by their number.        *)
Spread(steps) ==
    CHOOSE f : f = [m \in 0 .. MaxLen |->
                       IF m = 0 THEN [w \in Word |-> {w}]
                       ELSE [w \in Word |-> UNION {steps[v] : v \in f[m - 1][w]}]]

(* None lead to the word itself, one more to what one step leads to.       *)
LEMMA SpreadSteps ==
    ASSUME NEW steps \in [Word -> SUBSET Word]
    PROVE  /\ \A m \in 0 .. MaxLen : Spread(steps)[m] \in [Word -> SUBSET Word]
           /\ \A w \in Word : Spread(steps)[0][w] = {w}
           /\ \A m \in 1 .. MaxLen, w \in Word :
                 Spread(steps)[m][w] = UNION {steps[v] : v \in Spread(steps)[m - 1][w]}
<1> DEFINE S == [Word -> SUBSET Word]
           base == [w \in Word |-> {w}]
           Further(g) == [w \in Word |-> UNION {steps[v] : v \in g[w]}]
           step == [c \in (0 .. MaxLen) \X S |-> Further(c[2])]
           Spreads(f) == f = [m \in 0 .. MaxLen |->
                                 IF m = 0 THEN [w \in Word |-> {w}]
                                 ELSE [w \in Word |-> UNION {steps[v] : v \in f[m - 1][w]}]]
           s == Spread(steps)
<1>0. MaxLen \in Nat /\ 0 \in 0 .. MaxLen
  BY RequestsAssumption
<1>1. base \in S
  OBVIOUS
<1>2. ASSUME NEW g \in S PROVE Further(g) \in S
  OBVIOUS
<1>3. step \in [(0 .. MaxLen) \X S -> S]
  <2>1. \A c \in (0 .. MaxLen) \X S : Further(c[2]) \in S
    BY <1>2
  <2> HIDE DEF S, Further
  <2> QED
    BY <2>1
<1>4. PICK f \in [0 .. MaxLen -> S] : Recursion(f, base, step, 0, MaxLen)
  <2>1. 0 \in Int /\ MaxLen \in Int /\ 0 <= MaxLen
    BY <1>0
  <2> HIDE DEF S, base, step
  <2> QED
    BY <2>1, <1>1, <1>3, RecursionExists
<1>5. f[0] = base
  BY <1>4 DEF Recursion
<1>6. ASSUME NEW m \in 1 .. MaxLen PROVE f[m] = Further(f[m - 1])
  <2>1. m \in 0 + 1 .. MaxLen /\ m - 1 \in 0 .. MaxLen /\ m \in 0 .. MaxLen
    BY <1>0
  <2>2. f[m] = step[<<m, f[m - 1]>>]
    <3> HIDE DEF step
    <3> QED
      BY <1>4, <2>1 DEF Recursion
  <2>3. f[m - 1] \in S
    BY <2>1
  <2> HIDE DEF S, Further
  <2>4. <<m, f[m - 1]>> \in (0 .. MaxLen) \X S
    BY <2>1, <2>3
  <2> QED
    BY <2>2, <2>4
<1>7. Spreads(f)
  <2>1. f = [m \in 0 .. MaxLen |-> f[m]]
    BY <1>4
  <2>2. \A m \in 0 .. MaxLen :
           f[m] = IF m = 0 THEN [w \in Word |-> {w}]
                  ELSE [w \in Word |-> UNION {steps[v] : v \in f[m - 1][w]}]
    <3>1. \A m \in 0 .. MaxLen : m # 0 => m \in 1 .. MaxLen
      BY <1>0
    <3> QED
      BY <1>5, <1>6, <3>1, Zenon
  <2> QED
    BY <2>1, <2>2, Zenon
<1>8. Spreads(s)
  BY <1>7, Zenon DEF Spread
<1> HIDE DEF s
<1>9. s[0] = base /\ \A m \in 1 .. MaxLen : s[m] = Further(s[m - 1])
  <2>1. \A m \in 1 .. MaxLen : m \in 0 .. MaxLen /\ m # 0
    BY <1>0
  <2> QED
    BY <1>0, <1>8, <2>1, Zenon
<1>10. \A m \in 0 .. MaxLen : s[m] \in S
  <2> DEFINE T == {m \in Nat : m <= MaxLen => s[m] \in S}
  <2>1. 0 \in T
    BY <1>1, <1>9
  <2>2. ASSUME NEW m \in Nat, m \in T PROVE m + 1 \in T
    <3>1. ASSUME m + 1 <= MaxLen PROVE s[m + 1] \in S
      <4>1. m + 1 \in 1 .. MaxLen /\ (m + 1) - 1 = m /\ m <= MaxLen
        BY <1>0, <3>1
      <4>2. s[m + 1] = Further(s[m])
        BY <1>9, <4>1
      <4>3. s[m] \in S
        BY <2>2, <4>1
      <4> HIDE DEF S, Further
      <4> QED
        BY <1>2, <4>2, <4>3
    <3> QED
      BY <3>1
  <2>3. Nat \subseteq T
    <3> HIDE DEF T
    <3> QED
      BY <2>1, <2>2, Induction
  <2> QED
    BY <1>0, <2>3
<1>11. ASSUME NEW m \in 1 .. MaxLen, NEW w \in Word
       PROVE  s[m][w] = UNION {steps[v] : v \in s[m - 1][w]}
  <2>1. s[m] = Further(s[m - 1])
    BY <1>9
  <2> QED
    BY <2>1, Zenon
<1>12. \A w \in Word : s[0][w] = {w}
  BY <1>9
<1> QED
  BY <1>10, <1>11, <1>12 DEF s

(* The two spreads of the model.                                           *)
LEMMA SpreadsOfEdits ==
    /\ Levenshtein = Spread(Edits) /\ DamerauLevenshtein = Spread(Edits2)
    /\ Edits \in [Word -> SUBSET Word] /\ Edits2 \in [Word -> SUBSET Word]
    /\ \A v, w \in Word : v \in Edits[w] <=> Edit(v, w)
    /\ \A v, w \in Word : v \in Edits2[w] <=> Edit(v, w) \/ Swapped(v, w)
<1>1. Levenshtein = Spread(Edits) /\ DamerauLevenshtein = Spread(Edits2)
  BY Zenon DEF Levenshtein, DamerauLevenshtein, Spread
<1>2. Edits \in [Word -> SUBSET Word] /\ Edits2 \in [Word -> SUBSET Word]
  BY DEF Edits, Edits2
<1>3. \A v, w \in Word : v \in Edits[w] <=> Edit(v, w)
  BY DEF Edits
<1>4. \A v, w \in Word : v \in Edits2[w] <=> Edit(v, w) \/ Swapped(v, w)
  BY DEF Edits2
<1> QED
  BY <1>1, <1>2, <1>3, <1>4

(* A word of the model is a word.                                          *)
LEMMA WordType == Word \subseteq Words /\ \A w \in Word : Len(w) <= MaxLen
  BY WordIsShort DEF Short

(* Words that m simple edits lead to are aligned with m.                   *)
LEMMA LevenshteinAligned ==
    \A m \in 0 .. MaxLen : \A v, w \in Word :
        w \in Levenshtein[m][v] => <<v, w, m>> \in Aligned
<1>0. MaxLen \in Nat
  BY RequestsAssumption
<1>1. /\ \A m \in 0 .. MaxLen : Levenshtein[m] \in [Word -> SUBSET Word]
      /\ \A w \in Word : Levenshtein[0][w] = {w}
      /\ \A m \in 1 .. MaxLen, w \in Word :
            Levenshtein[m][w] = UNION {Edits[v] : v \in Levenshtein[m - 1][w]}
  BY SpreadSteps, SpreadsOfEdits
<1> DEFINE S == {m \in Nat : m <= MaxLen => \A v, w \in Word :
                     w \in Levenshtein[m][v] => <<v, w, m>> \in Aligned}
<1>2. 0 \in S
  BY <1>1, AlignedSame, WordType
<1>3. ASSUME NEW m \in Nat, m \in S PROVE m + 1 \in S
  <2>1. ASSUME m + 1 <= MaxLen, NEW v \in Word, NEW w \in Word,
               w \in Levenshtein[m + 1][v]
        PROVE  <<v, w, m + 1>> \in Aligned
    <3>1. m + 1 \in 1 .. MaxLen /\ (m + 1) - 1 = m /\ m \in 0 .. MaxLen
      BY <1>0, <2>1
    <3>2. Levenshtein[m + 1][v] = UNION {Edits[u] : u \in Levenshtein[m][v]}
      BY <1>1, <3>1
    <3>3. PICK u \in Levenshtein[m][v] : w \in Edits[u]
      BY <2>1, <3>2
    <3>4. u \in Word
      BY <1>1, <3>1, <3>3
    <3>5. <<v, u, m>> \in Aligned
      BY <1>3, <3>1, <3>3, <3>4
    <3>6. Edit(w, u) /\ v \in Words /\ u \in Words /\ w \in Words
      BY <3>3, <3>4, SpreadsOfEdits, WordType
    <3>7. Editable(v, u, m)
      BY <3>5, <3>6, AlignedEdit
    <3> QED
      BY <3>6, <3>7 DEF Editable
  <2> QED
    BY <2>1
<1>4. Nat \subseteq S
  <2> HIDE DEF S
  <2> QED
    BY <1>2, <1>3, Induction
<1> QED
  BY <1>0, <1>4

(* An edit or swap leads on, and so does leaving the word alone.           *)
LEMMA DamerauSteps ==
    /\ \A m \in 0 .. MaxLen : DamerauLevenshtein[m] \in [Word -> SUBSET Word]
    /\ \A w \in Word : DamerauLevenshtein[0][w] = {w}
    /\ \A m \in 1 .. MaxLen, u, v, w \in Word :
          v \in DamerauLevenshtein[m - 1][u] /\ (Edit(w, v) \/ Swapped(w, v)) =>
              w \in DamerauLevenshtein[m][u]
    /\ 1 \in 0 .. MaxLen => \A v, w \in Word :
          w \in DamerauLevenshtein[1][v] => Edit(w, v) \/ Swapped(w, v)
<1>0. MaxLen \in Nat
  BY RequestsAssumption
<1>1. /\ \A m \in 0 .. MaxLen : DamerauLevenshtein[m] \in [Word -> SUBSET Word]
      /\ \A w \in Word : DamerauLevenshtein[0][w] = {w}
      /\ \A m \in 1 .. MaxLen, w \in Word :
            DamerauLevenshtein[m][w] = UNION {Edits2[v] : v \in DamerauLevenshtein[m - 1][w]}
  BY SpreadSteps, SpreadsOfEdits
<1>2. ASSUME NEW m \in 1 .. MaxLen, NEW u \in Word, NEW v \in Word, NEW w \in Word,
             v \in DamerauLevenshtein[m - 1][u], Edit(w, v) \/ Swapped(w, v)
      PROVE  w \in DamerauLevenshtein[m][u]
  <2>1. w \in Edits2[v]
    BY <1>2, SpreadsOfEdits
  <2>2. DamerauLevenshtein[m][u] = UNION {Edits2[t] : t \in DamerauLevenshtein[m - 1][u]}
    BY <1>1
  <2> QED
    BY <1>2, <2>1, <2>2
<1>3. ASSUME 1 \in 0 .. MaxLen, NEW v \in Word, NEW w \in Word,
             w \in DamerauLevenshtein[1][v]
      PROVE  Edit(w, v) \/ Swapped(w, v)
  <2>1. 1 \in 1 .. MaxLen /\ 1 - 1 = 0
    BY <1>0, <1>3
  <2>2. DamerauLevenshtein[1][v] = UNION {Edits2[t] : t \in DamerauLevenshtein[0][v]}
    BY <1>1, <2>1
  <2>3. w \in Edits2[v]
    BY <1>1, <1>3, <2>2
  <2> QED
    BY <2>3, SpreadsOfEdits
<1> QED
  BY <1>1, <1>2, <1>3

(* More edits lead to no fewer words.                                      *)
LEMMA DamerauMore ==
    ASSUME NEW m \in 0 .. MaxLen, NEW l \in m .. MaxLen, NEW v \in Word
    PROVE  DamerauLevenshtein[m][v] \subseteq DamerauLevenshtein[l][v]
<1>0. MaxLen \in Nat
  BY RequestsAssumption
<1> DEFINE S == {z \in Nat : m + z <= MaxLen =>
                     DamerauLevenshtein[m][v] \subseteq DamerauLevenshtein[m + z][v]}
<1>1. 0 \in S
  BY <1>0
<1>2. ASSUME NEW z \in Nat, z \in S PROVE z + 1 \in S
  <2>1. ASSUME m + (z + 1) <= MaxLen, NEW w \in DamerauLevenshtein[m][v]
        PROVE  w \in DamerauLevenshtein[m + (z + 1)][v]
    <3>1. /\ m + (z + 1) \in 1 .. MaxLen /\ (m + (z + 1)) - 1 = m + z
          /\ m + z <= MaxLen /\ m + z \in 0 .. MaxLen
      BY <1>0, <2>1
    <3>2. w \in DamerauLevenshtein[m + z][v]
      BY <1>2, <3>1
    <3>3. w \in Word
      BY <3>1, <3>2, DamerauSteps
    <3>4. Edit(w, w)
      BY <3>3, WordType, SubstitutedLetters DEF Edit
    <3> DEFINE q == m + (z + 1)
    <3>5. q \in 1 .. MaxLen /\ w \in DamerauLevenshtein[q - 1][v]
      BY <3>1, <3>2
    <3> HIDE DEF q
    <3>6. w \in DamerauLevenshtein[q][v]
      BY <3>3, <3>4, <3>5, DamerauSteps
    <3> QED
      BY <3>6 DEF q
  <2> QED
    BY <2>1
<1>3. Nat \subseteq S
  <2> HIDE DEF S
  <2> QED
    BY <1>1, <1>2, Induction
<1>4. l - m \in S /\ m + (l - m) = l
  BY <1>0, <1>3
<1> QED
  BY <1>0, <1>4

-----------------------------------------------------------------------------
(* Paths of edits and swaps.  The words on the way from one word to        *)
(* another need not be longer than the longer of the two; l bounds them.   *)

Step(v, w) == Edit(v, w) \/ Swapped(v, w)

Path(f, v, w, m, l) ==
    /\ f \in [0 .. m -> Short(l)]
    /\ f[0] = v /\ f[m] = w
    /\ \A q \in 1 .. m : Step(f[q], f[q - 1])

Joined(v, w, m, l) == \E f \in [0 .. m -> Short(l)] : Path(f, v, w, m, l)

(* No step leads to the word itself.                                       *)
LEMMA JoinedSelf ==
    ASSUME NEW l \in Nat, NEW w \in Short(l)
    PROVE  Joined(w, w, 0, l)
<1> DEFINE f == [q \in 0 .. 0 |-> w]
<1>1. f \in [0 .. 0 -> Short(l)] /\ f[0] = w /\ 1 .. 0 = {}
  OBVIOUS
<1> HIDE DEF f
<1>2. Path(f, w, w, 0, l)
  BY <1>1 DEF Path
<1> QED
  BY <1>1, <1>2 DEF Joined

(* A step more behind the path.                                            *)
LEMMA JoinedBehind ==
    ASSUME NEW l \in Nat, NEW m \in Nat, NEW v, NEW w, Joined(v, w, m, l),
           NEW u \in Short(l), Step(u, w)
    PROVE  Joined(v, u, m + 1, l)
<1>1. PICK f \in [0 .. m -> Short(l)] : Path(f, v, w, m, l)
  BY DEF Joined
<1> DEFINE g == [q \in 0 .. m + 1 |-> IF q = m + 1 THEN u ELSE f[q]]
<1>2. g \in [0 .. m + 1 -> Short(l)]
  BY <1>1
<1>3. g[m + 1] = u /\ \A q \in 0 .. m : g[q] = f[q]
  OBVIOUS
<1> HIDE DEF g
<1>4. g[0] = v /\ g[m] = w
  BY <1>1, <1>3 DEF Path
<1>5. ASSUME NEW q \in 1 .. m + 1 PROVE Step(g[q], g[q - 1])
  <2>1. CASE q = m + 1
    <3>1. q - 1 = m
      BY <2>1
    <3> QED
      BY <1>3, <1>4, <2>1, <3>1
  <2>2. CASE q # m + 1
    <3>1. q \in 1 .. m /\ q \in 0 .. m /\ q - 1 \in 0 .. m
      BY <2>2
    <3> QED
      BY <1>1, <1>3, <3>1 DEF Path
  <2> QED
    BY <2>1, <2>2
<1>6. Path(g, v, u, m + 1, l)
  BY <1>2, <1>3, <1>4, <1>5 DEF Path
<1> QED
  BY <1>2, <1>6 DEF Joined

(* A step more before the path.                                            *)
LEMMA JoinedBefore ==
    ASSUME NEW l \in Nat, NEW m \in Nat, NEW v, NEW w, Joined(v, w, m, l),
           NEW u \in Short(l), Step(v, u)
    PROVE  Joined(u, w, m + 1, l)
<1>1. PICK f \in [0 .. m -> Short(l)] : Path(f, v, w, m, l)
  BY DEF Joined
<1> DEFINE g == [q \in 0 .. m + 1 |-> IF q = 0 THEN u ELSE f[q - 1]]
<1>2. g \in [0 .. m + 1 -> Short(l)]
  BY <1>1
<1>3. g[0] = u /\ \A q \in 1 .. m + 1 : g[q] = f[q - 1]
  OBVIOUS
<1> HIDE DEF g
<1>4. g[m + 1] = w
  <2>1. m + 1 \in 1 .. m + 1 /\ (m + 1) - 1 = m
    OBVIOUS
  <2> QED
    BY <1>1, <1>3, <2>1 DEF Path
<1>5. ASSUME NEW q \in 1 .. m + 1 PROVE Step(g[q], g[q - 1])
  <2>1. CASE q = 1
    <3>1. q - 1 = 0
      BY <2>1
    <3> QED
      BY <1>1, <1>3, <3>1 DEF Path
  <2>2. CASE q # 1
    <3>1. q - 1 \in 1 .. m /\ q - 1 \in 1 .. m + 1
      BY <2>2
    <3>2. g[q - 1] = f[(q - 1) - 1] /\ g[q] = f[q - 1]
      BY <1>3, <3>1
    <3> QED
      BY <1>1, <3>1, <3>2 DEF Path
  <2> QED
    BY <2>1, <2>2
<1>6. Path(g, u, w, m + 1, l)
  BY <1>2, <1>3, <1>4, <1>5 DEF Path
<1> QED
  BY <1>2, <1>6 DEF Joined

(* The same letter behind all words of a path.                             *)
LEMMA JoinedLonger ==
    ASSUME NEW l \in Nat, NEW m \in Nat, NEW v, NEW w, Joined(v, w, m, l),
           NEW x \in Letters
    PROVE  Joined(Append(v, x), Append(w, x), m, l + 1)
<1>1. PICK f \in [0 .. m -> Short(l)] : Path(f, v, w, m, l)
  BY DEF Joined
<1> DEFINE g == [q \in 0 .. m |-> Append(f[q], x)]
<1>2. ASSUME NEW q \in 0 .. m PROVE f[q] \in Words /\ Append(f[q], x) \in Short(l + 1)
  <2>1. f[q] \in Words /\ Len(f[q]) <= l
    BY <1>1 DEF Short
  <2>2. Append(f[q], x) \in Words /\ Len(Append(f[q], x)) = Len(f[q]) + 1
    BY <2>1, AppendWord
  <2>3. Len(f[q]) \in Nat
    BY <2>1, WordLetters
  <2> QED
    BY <2>1, <2>2, <2>3 DEF Short
<1>3. g \in [0 .. m -> Short(l + 1)]
  BY <1>2
<1>4. \A q \in 0 .. m : g[q] = Append(f[q], x)
  OBVIOUS
<1> HIDE DEF g
<1>5. g[0] = Append(v, x) /\ g[m] = Append(w, x)
  BY <1>1, <1>4 DEF Path
<1>6. ASSUME NEW q \in 1 .. m PROVE Step(g[q], g[q - 1])
  <2>1. q \in 0 .. m /\ q - 1 \in 0 .. m
    OBVIOUS
  <2>2. Step(f[q], f[q - 1])
    BY <1>1 DEF Path
  <2>3. f[q] \in Words /\ f[q - 1] \in Words
    BY <1>2, <2>1
  <2>4. Step(Append(f[q], x), Append(f[q - 1], x))
    BY <2>2, <2>3, EditsAtEnd, SwapsAtEnd DEF Step
  <2> QED
    BY <1>4, <2>1, <2>4
<1>7. Path(g, Append(v, x), Append(w, x), m, l + 1)
  BY <1>3, <1>5, <1>6 DEF Path
<1> QED
  BY <1>3, <1>7 DEF Joined

(* Words on the way may as well be longer.                                 *)
LEMMA JoinedWider ==
    ASSUME NEW l \in Nat, NEW k2 \in Nat, l <= k2, NEW m \in Nat,
           NEW v, NEW w, Joined(v, w, m, l)
    PROVE  Joined(v, w, m, k2)
<1>1. PICK f \in [0 .. m -> Short(l)] : Path(f, v, w, m, l)
  BY DEF Joined
<1>2. Short(l) \subseteq Short(k2)
  BY WordLetters DEF Short
<1>3. f \in [0 .. m -> Short(k2)]
  BY <1>1, <1>2
<1>4. Path(f, v, w, m, k2)
  BY <1>1, <1>3 DEF Path
<1> QED
  BY <1>3, <1>4 DEF Joined

(* A path leads where its number of edits and swaps leads to.              *)
LEMMA JoinedDamerau ==
    ASSUME NEW m \in 0 .. MaxLen, NEW v, NEW w, Joined(v, w, m, MaxLen)
    PROVE  w \in DamerauLevenshtein[m][v]
<1>0. MaxLen \in Nat
  BY RequestsAssumption
<1>1. PICK f \in [0 .. m -> Word] : Path(f, v, w, m, MaxLen)
  BY WordIsShort DEF Joined
<1> DEFINE S == {q \in Nat : q <= m => f[q] \in DamerauLevenshtein[q][v]}
<1>2. 0 \in S
  <2>1. 0 \in 0 .. m /\ f[0] = v
    BY <1>1 DEF Path
  <2>2. v \in Word
    BY <1>1, <2>1
  <2> QED
    BY <2>1, <2>2, DamerauSteps
<1>3. ASSUME NEW q \in Nat, q \in S PROVE q + 1 \in S
  <2>1. ASSUME q + 1 <= m PROVE f[q + 1] \in DamerauLevenshtein[q + 1][v]
    <3> DEFINE z == q + 1
    <3>1. /\ z \in 1 .. MaxLen /\ z \in 1 .. m /\ z - 1 = q /\ q <= m
          /\ q \in 0 .. m /\ z \in 0 .. m /\ 0 \in 0 .. m
      BY <1>0, <2>1
    <3>2. f[q] \in DamerauLevenshtein[q][v]
      BY <1>3, <3>1
    <3> HIDE DEF z
    <3>3. Step(f[z], f[z - 1])
      BY <1>1, <3>1 DEF Path
    <3>4. v \in Word /\ f[q] \in Word /\ f[z] \in Word
      BY <1>1, <3>1 DEF Path
    <3>5. f[z] \in DamerauLevenshtein[z][v]
      BY <3>1, <3>2, <3>3, <3>4, DamerauSteps DEF Step
    <3> QED
      BY <3>5 DEF z
  <2> QED
    BY <2>1
<1>4. Nat \subseteq S
  <2> HIDE DEF S
  <2> QED
    BY <1>2, <1>3, Induction
<1>5. m \in S /\ f[m] = w
  BY <1>1, <1>4 DEF Path
<1> QED
  BY <1>0, <1>5

-----------------------------------------------------------------------------
(* Cells of the table.                                                     *)

MaxOf(p, q) == IF p < q THEN q ELSE p

(* What a cell is to the words v and w that it stands for: a number of     *)
(* edits and swaps that do lead from v to w, no more than any number of    *)
(* simple edits that do, and no more than one for a swap.                  *)
GoodCell(v, w, z) ==
    /\ z \in Nat /\ z <= MaxOf(Len(v), Len(w))
    /\ Joined(v, w, z, MaxOf(Len(v), Len(w)))
    /\ \A m \in Nat : <<v, w, m>> \in Aligned => z <= m
    /\ Swapped(w, v) => z <= 1

(* The first letters of a word.                                            *)
Prefix(w, p) == SubSeq(w, 1, p)

(* A prefix is the one before it and a letter.                             *)
LEMMA Prefixes ==
    ASSUME NEW w \in Words
    PROVE  /\ Prefix(w, 0) = << >> /\ Prefix(w, Len(w)) = w
           /\ \A p \in 0 .. Len(w) : Prefix(w, p) \in Words /\ Len(Prefix(w, p)) = p
           /\ \A p \in 1 .. Len(w) : w[p] \in Letters
           /\ \A p \in 1 .. Len(w) : Prefix(w, p) = Append(Prefix(w, p - 1), w[p])
<1>1. Len(w) \in Nat /\ \A p \in 1 .. Len(w) : w[p] \in Letters
  BY WordLetters
<1>2. ASSUME NEW p \in 0 .. Len(w)
      PROVE  /\ Prefix(w, p) \in Words /\ Len(Prefix(w, p)) = p
             /\ \A q \in 1 .. p : Prefix(w, p)[q] = w[q]
  <2> DEFINE s == SubSeq(w, 1, p)
  <2>1. \A q \in 1 .. p : w[q] \in Letters
    BY <1>1
  <2>2. /\ s \in Seq(Letters)
        /\ Len(s) = IF 1 <= p THEN p - 1 + 1 ELSE 0
        /\ \A q \in 1 .. p - 1 + 1 : s[q] = w[1 + q - 1]
    BY <1>1, <2>1, SubSeqProperties
  <2> HIDE DEF s
  <2>3. Len(s) = p
    BY <1>1, <2>2
  <2>4. ASSUME NEW q \in 1 .. p PROVE s[q] = w[q]
    <3>1. q \in 1 .. p - 1 + 1 /\ 1 + q - 1 = q
      BY <1>1
    <3> QED
      BY <2>2, <3>1
  <2> QED
    BY <2>2, <2>3, <2>4 DEF s, Prefix, Words
<1>3. Prefix(w, 0) = << >>
  <2>1. 0 \in 0 .. Len(w)
    BY <1>1
  <2> QED
    BY <1>2, <2>1, EmptyWord
<1>4. Prefix(w, Len(w)) = w
  <2>1. Len(w) \in 0 .. Len(w)
    BY <1>1
  <2> QED
    BY <1>2, <2>1, SameWord
<1>5. ASSUME NEW p \in 1 .. Len(w)
      PROVE  Prefix(w, p) = Append(Prefix(w, p - 1), w[p])
  <2> DEFINE s == Prefix(w, p)
             r == Prefix(w, p - 1)
             t == Append(r, w[p])
  <2>0. p \in 0 .. Len(w) /\ p - 1 \in 0 .. Len(w)
    BY <1>1
  <2>1. s \in Words /\ Len(s) = p /\ \A q \in 1 .. p : s[q] = w[q]
    BY <1>2, <2>0
  <2>2. r \in Words /\ Len(r) = p - 1 /\ \A q \in 1 .. p - 1 : r[q] = w[q]
    BY <1>2, <2>0
  <2> HIDE DEF r, s
  <2>3. /\ t \in Words /\ Len(t) = (p - 1) + 1
        /\ \A q \in 1 .. p - 1 : t[q] = r[q]
        /\ t[(p - 1) + 1] = w[p]
    BY <1>1, <2>2, AppendWord
  <2> HIDE DEF t
  <2>4. ASSUME NEW q \in 1 .. p PROVE s[q] = t[q]
    <3>1. q \in 1 .. p - 1 \/ (q = p /\ (p - 1) + 1 = p)
      BY <1>1
    <3> QED
      BY <2>1, <2>2, <2>3, <3>1
  <2>5. Len(t) = p
    BY <2>0, <2>3
  <2>6. s = t
    BY <2>1, <2>3, <2>4, <2>5, SameWord
  <2> QED
    BY <2>6 DEF r, s, t
<1> QED
  BY <1>1, <1>2, <1>3, <1>4, <1>5

(* Column 0: all letters are deleted.                                      *)
LEMMA GoodColumn ==
    ASSUME NEW w \in Words
    PROVE  GoodCell(w, << >>, Len(w))
<1> DEFINE S == {l \in Nat : \A v \in Words : Len(v) = l => Joined(v, << >>, l, l)}
<1>1. 0 \in S
  <2>1. << >> \in Short(0) /\ 0 \in Nat
    BY EmptyWord DEF Short
  <2>2. Joined(<< >>, << >>, 0, 0)
    BY <2>1, JoinedSelf
  <2> QED
    BY <2>2, EmptyWord
<1>2. ASSUME NEW l \in Nat, l \in S PROVE l + 1 \in S
  <2>1. ASSUME NEW v \in Words, Len(v) = l + 1 PROVE Joined(v, << >>, l + 1, l + 1)
    <3>0. Len(v) > 0
      BY <2>1
    <3>1. PICK u \in Words, x \in Letters : v = Append(u, x)
      BY <3>0, LastLetter
    <3>2. Len(u) = l
      BY <2>1, <3>1, AppendWord, WordLetters
    <3>3. Joined(u, << >>, l, l)
      BY <1>2, <3>2
    <3>4. Joined(u, << >>, l, l + 1)
      BY <3>3, JoinedWider
    <3>5. v \in Short(l + 1) /\ l + 1 \in Nat
      BY <2>1 DEF Short
    <3>6. Step(u, v)
      BY <3>1, EditsAtEnd DEF Step
    <3> QED
      BY <3>4, <3>5, <3>6, JoinedBefore
  <2> QED
    BY <2>1
<1>3. Nat \subseteq S
  <2> HIDE DEF S
  <2> QED
    BY <1>1, <1>2, Induction
<1>4. Len(w) \in Nat /\ << >> \in Words /\ Len(<< >>) = 0
  BY EmptyWord, WordLetters
<1>5. Joined(w, << >>, Len(w), Len(w))
  BY <1>3, <1>4
<1>6. MaxOf(Len(w), Len(<< >>)) = Len(w)
  BY <1>4 DEF MaxOf
<1>7. \A m \in Nat : <<w, << >>, m>> \in Aligned => Len(w) <= m
  BY <1>4, AlignedLengths
<1>8. ~ Swapped(<< >>, w)
  BY <1>4 DEF Swapped
<1> QED
  BY <1>4, <1>5, <1>6, <1>7, <1>8 DEF GoodCell

(* Row 0: all letters are inserted.                                        *)
LEMMA GoodRow ==
    ASSUME NEW w \in Words
    PROVE  GoodCell(<< >>, w, Len(w))
<1> DEFINE S == {l \in Nat : \A v \in Words : Len(v) = l => Joined(<< >>, v, l, l)}
<1>1. 0 \in S
  <2>1. << >> \in Short(0) /\ 0 \in Nat
    BY EmptyWord DEF Short
  <2>2. Joined(<< >>, << >>, 0, 0)
    BY <2>1, JoinedSelf
  <2> QED
    BY <2>2, EmptyWord
<1>2. ASSUME NEW l \in Nat, l \in S PROVE l + 1 \in S
  <2>1. ASSUME NEW v \in Words, Len(v) = l + 1 PROVE Joined(<< >>, v, l + 1, l + 1)
    <3>0. Len(v) > 0
      BY <2>1
    <3>1. PICK u \in Words, x \in Letters : v = Append(u, x)
      BY <3>0, LastLetter
    <3>2. Len(u) = l
      BY <2>1, <3>1, AppendWord, WordLetters
    <3>3. Joined(<< >>, u, l, l)
      BY <1>2, <3>2
    <3>4. Joined(<< >>, u, l, l + 1)
      BY <3>3, JoinedWider
    <3>5. v \in Short(l + 1) /\ l + 1 \in Nat
      BY <2>1 DEF Short
    <3>6. Step(v, u)
      BY <3>1, EditsAtEnd DEF Step
    <3> QED
      BY <3>4, <3>5, <3>6, JoinedBehind
  <2> QED
    BY <2>1
<1>3. Nat \subseteq S
  <2> HIDE DEF S
  <2> QED
    BY <1>1, <1>2, Induction
<1>4. Len(w) \in Nat /\ << >> \in Words /\ Len(<< >>) = 0
  BY EmptyWord, WordLetters
<1>5. Joined(<< >>, w, Len(w), Len(w))
  BY <1>3, <1>4
<1>6. MaxOf(Len(<< >>), Len(w)) = Len(w)
  BY <1>4 DEF MaxOf
<1>7. \A m \in Nat : <<<< >>, w, m>> \in Aligned => Len(w) <= m
  BY <1>4, AlignedLengths
<1>8. Swapped(w, << >>) => Len(w) = 0
  BY <1>4 DEF Swapped
<1> QED
  BY <1>4, <1>5, <1>6, <1>7, <1>8 DEF GoodCell

(* The cell computed from the three beside it, and from the one two before *)
(* it when the last two letters are swapped.                               *)
Plain(x, y, up, left, diag) == Min3(up + 1, left + 1, diag + Cost(x, y))

(* The least of three is one of them.                                      *)
LEMMA MinOfThree ==
    ASSUME NEW p \in Nat, NEW q \in Nat, NEW r \in Nat
    PROVE  /\ Min3(p, q, r) \in {p, q, r}
           /\ Min3(p, q, r) <= p /\ Min3(p, q, r) <= q /\ Min3(p, q, r) <= r
  BY DEF Min3

(* Without swaps the new cell leads to its word, in no more edits than an  *)
(* alignment has.                                                          *)
LEMMA PlainCell ==
    ASSUME NEW s \in Words, NEW t \in Words, NEW x \in Letters, NEW y \in Letters,
           NEW up, NEW left, NEW diag,
           GoodCell(s, Append(t, y), up), GoodCell(Append(s, x), t, left),
           GoodCell(s, t, diag)
    PROVE  LET v == Append(s, x)
               w == Append(t, y)
               z == Plain(x, y, up, left, diag)
           IN  /\ z \in Nat /\ z <= MaxOf(Len(v), Len(w))
               /\ Joined(v, w, z, MaxOf(Len(v), Len(w)))
               /\ \A m \in Nat : <<v, w, m>> \in Aligned => z <= m
               /\ x = y /\ Swapped(t, s) => z <= 1
<1> DEFINE v == Append(s, x)
           w == Append(t, y)
           l == MaxOf(Len(v), Len(w))
           z == Plain(x, y, up, left, diag)
<1>1. /\ v \in Words /\ Len(v) = Len(s) + 1 /\ w \in Words /\ Len(w) = Len(t) + 1
      /\ Len(s) \in Nat /\ Len(t) \in Nat
  BY AppendWord, WordLetters
<1>2. up \in Nat /\ left \in Nat /\ diag \in Nat
  BY DEF GoodCell
<1>3. Cost(x, y) \in {0, 1} /\ (x = y => Cost(x, y) = 0) /\ (x # y => Cost(x, y) = 1)
  BY DEF Cost
<1>4. /\ z \in {up + 1, left + 1, diag + Cost(x, y)}
      /\ z <= up + 1 /\ z <= left + 1 /\ z <= diag + Cost(x, y) /\ z \in Nat
  <2> DEFINE q == diag + Cost(x, y)
  <2>1. up + 1 \in Nat /\ left + 1 \in Nat /\ q \in Nat
    BY <1>2, <1>3
  <2> HIDE DEF q
  <2>2. /\ Min3(up + 1, left + 1, q) \in {up + 1, left + 1, q}
        /\ Min3(up + 1, left + 1, q) <= up + 1 /\ Min3(up + 1, left + 1, q) <= left + 1
        /\ Min3(up + 1, left + 1, q) <= q
    BY <2>1, MinOfThree
  <2>3. z = Min3(up + 1, left + 1, q)
    BY DEF Plain, q
  <2>4. z \in Nat
    BY <2>1, <2>2, <2>3
  <2> QED
    BY <2>2, <2>3, <2>4 DEF q
<1>5. /\ l \in Nat /\ l = MaxOf(Len(s), Len(t)) + 1
      /\ MaxOf(Len(s), Len(w)) \in Nat /\ MaxOf(Len(s), Len(w)) <= l
      /\ MaxOf(Len(v), Len(t)) \in Nat /\ MaxOf(Len(v), Len(t)) <= l
      /\ MaxOf(Len(s), Len(t)) \in Nat /\ MaxOf(Len(s), Len(t)) <= l
      /\ Len(v) <= l /\ Len(w) <= l
  BY <1>1 DEF MaxOf
<1>6. v \in Short(l) /\ w \in Short(l)
  BY <1>1, <1>5 DEF Short
<1>7. z <= l
  <2>1. diag <= MaxOf(Len(s), Len(t))
    BY DEF GoodCell
  <2> QED
    BY <1>2, <1>3, <1>4, <1>5, <2>1
<1> HIDE DEF z, l
<1>8. Joined(v, w, z, l)
  <2>1. Joined(v, w, up + 1, l)
    <3>1. Joined(s, w, up, MaxOf(Len(s), Len(w)))
      BY DEF GoodCell
    <3> HIDE DEF v, w
    <3>2. Joined(s, w, up, l)
      BY <1>2, <1>5, <3>1, JoinedWider
    <3>3. Step(s, v)
      BY EditsAtEnd DEF Step, v
    <3> QED
      BY <1>2, <1>5, <1>6, <3>2, <3>3, JoinedBefore
  <2>2. Joined(v, w, left + 1, l)
    <3>1. Joined(v, t, left, MaxOf(Len(v), Len(t)))
      BY DEF GoodCell
    <3> HIDE DEF v, w
    <3>2. Joined(v, t, left, l)
      BY <1>2, <1>5, <3>1, JoinedWider
    <3>3. Step(w, t)
      BY EditsAtEnd DEF Step, w
    <3> QED
      BY <1>2, <1>5, <1>6, <3>2, <3>3, JoinedBehind
  <2>3. Joined(v, w, diag + Cost(x, y), l)
    <3>1. Joined(s, t, diag, MaxOf(Len(s), Len(t)))
      BY DEF GoodCell
    <3>2. Joined(v, Append(t, x), diag, l)
      <4> DEFINE q == MaxOf(Len(s), Len(t))
      <4>1. q \in Nat /\ Joined(s, t, diag, q) /\ l = q + 1
        BY <1>5, <3>1
      <4> HIDE DEF q
      <4>2. Joined(Append(s, x), Append(t, x), diag, q + 1)
        BY <1>2, <4>1, JoinedLonger
      <4> QED
        BY <4>1, <4>2
    <3>3. CASE x = y
      BY <1>2, <1>3, <3>2, <3>3
    <3>4. CASE x # y
      <4>1. Step(w, Append(t, x))
        BY EditsAtEnd DEF Step
      <4> HIDE DEF v, w
      <4>2. Joined(v, w, diag + 1, l)
        BY <1>2, <1>5, <1>6, <3>2, <4>1, JoinedBehind
      <4> QED
        BY <1>3, <3>4, <4>2
    <3> QED
      BY <3>3, <3>4
  <2> QED
    BY <1>4, <2>1, <2>2, <2>3
<1>9. ASSUME NEW m \in Nat, <<v, w, m>> \in Aligned PROVE z <= m
  <2>1. Built(v, w, m)
    <3> HIDE DEF v, w
    <3> QED
      BY <1>1, <1>9, AlignedBuilt
  <2>2. v # << >>
    BY <1>1, EmptyWord
  <2>3. CASE m > 0 /\ \E u \in Words, c \in Letters :
                         v = Append(u, c) /\ <<u, w, m - 1>> \in Aligned
    <3>1. PICK u \in Words, c \in Letters : v = Append(u, c) /\ <<u, w, m - 1>> \in Aligned
      BY <2>3
    <3>2. u = s
      BY <3>1, AppendInjective DEF Words
    <3>3. m - 1 \in Nat
      BY <2>3
    <3>4. up <= m - 1
      BY <3>1, <3>2, <3>3 DEF GoodCell
    <3> QED
      BY <1>2, <1>4, <3>3, <3>4
  <2>4. CASE m > 0 /\ \E u \in Words, c \in Letters :
                         w = Append(u, c) /\ <<v, u, m - 1>> \in Aligned
    <3>1. PICK u \in Words, c \in Letters : w = Append(u, c) /\ <<v, u, m - 1>> \in Aligned
      BY <2>4
    <3>2. u = t
      BY <3>1, AppendInjective DEF Words
    <3>3. m - 1 \in Nat
      BY <2>4
    <3>4. left <= m - 1
      BY <3>1, <3>2, <3>3 DEF GoodCell
    <3> QED
      BY <1>2, <1>4, <3>3, <3>4
  <2>5. CASE \E u, u2 \in Words, c, e \in Letters :
                /\ v = Append(u, c) /\ w = Append(u2, e)
                /\ m >= Cost(c, e) /\ <<u, u2, m - Cost(c, e)>> \in Aligned
    <3>1. PICK u \in Words, u2 \in Words, c \in Letters, e \in Letters :
             /\ v = Append(u, c) /\ w = Append(u2, e)
             /\ m >= Cost(c, e) /\ <<u, u2, m - Cost(c, e)>> \in Aligned
      BY <2>5
    <3>2. u = s /\ u2 = t /\ c = x /\ e = y
      BY <3>1, AppendInjective DEF Words
    <3>3. m - Cost(x, y) \in Nat
      BY <1>3, <3>1, <3>2
    <3>4. diag <= m - Cost(x, y)
      BY <3>1, <3>2, <3>3 DEF GoodCell
    <3> QED
      BY <1>2, <1>3, <1>4, <3>3, <3>4
  <2> QED
    BY <2>1, <2>2, <2>3, <2>4, <2>5 DEF Built
<1>10. x = y /\ Swapped(t, s) => z <= 1
  <2>1. Swapped(t, s) => diag <= 1
    BY DEF GoodCell
  <2> QED
    BY <1>2, <1>3, <1>4, <2>1
<1> QED
  BY <1>4, <1>7, <1>8, <1>9, <1>10 DEF z, l

(* With a swap of the last letters, one more than before these two.        *)
LEMMA SwapCell ==
    ASSUME NEW u \in Words, NEW t \in Words, NEW x \in Letters, NEW y \in Letters,
           NEW older, GoodCell(u, t, older)
    PROVE  LET v == Append(Append(u, y), x)
               w == Append(Append(t, x), y)
           IN  /\ older \in Nat /\ older + 1 <= MaxOf(Len(v), Len(w))
               /\ Joined(v, w, older + 1, MaxOf(Len(v), Len(w)))
<1> DEFINE v == Append(Append(u, y), x)
           w == Append(Append(t, x), y)
           l == MaxOf(Len(u), Len(t))
           k2 == MaxOf(Len(v), Len(w))
<1>1. Append(u, y) \in Words /\ Len(Append(u, y)) = Len(u) + 1
  BY AppendWord
<1>2. Append(t, x) \in Words /\ Len(Append(t, x)) = Len(t) + 1
  BY AppendWord
<1>3. v \in Words /\ Len(v) = (Len(u) + 1) + 1
  BY <1>1, AppendWord
<1>4. w \in Words /\ Len(w) = (Len(t) + 1) + 1
  BY <1>2, AppendWord
<1>5. Len(u) \in Nat /\ Len(t) \in Nat
  BY WordLetters
<1>6. older \in Nat /\ older <= l /\ Joined(u, t, older, l)
  BY DEF GoodCell
<1>7. l \in Nat /\ k2 = (l + 1) + 1
  BY <1>3, <1>4, <1>5 DEF MaxOf
<1>8. Joined(v, Append(Append(t, y), x), older, (l + 1) + 1)
  <2> HIDE DEF l
  <2>1. Joined(Append(u, y), Append(t, y), older, l + 1) /\ l + 1 \in Nat
    BY <1>6, <1>7, JoinedLonger
  <2> DEFINE q == l + 1
  <2> HIDE DEF q
  <2>2. Joined(Append(Append(u, y), x), Append(Append(t, y), x), older, q + 1)
    BY <1>6, <2>1, JoinedLonger DEF q
  <2> QED
    BY <2>2 DEF q
<1>9. w \in Short(k2)
  BY <1>3, <1>4, <1>5 DEF Short, MaxOf
<1>10. Step(w, Append(Append(t, y), x))
  BY SwapsAtEnd DEF Step
<1> HIDE DEF v, w, l, k2
<1>11. k2 \in Nat /\ Joined(v, Append(Append(t, y), x), older, k2)
  BY <1>7, <1>8
<1>12. Joined(v, w, older + 1, k2)
  BY <1>6, <1>9, <1>10, <1>11, JoinedBehind
<1>13. older + 1 <= k2
  BY <1>6, <1>7
<1> QED
  BY <1>6, <1>12, <1>13 DEF v, w, k2

(* The cell as the code computes it is good again.  swap says whether the  *)
(* last two letters of the words are the same in the other order.          *)
LEMMA NextCell ==
    ASSUME NEW s \in Words, NEW t \in Words, NEW x \in Letters, NEW y \in Letters,
           NEW up, NEW left, NEW diag, NEW older, NEW swap \in BOOLEAN,
           GoodCell(s, Append(t, y), up), GoodCell(Append(s, x), t, left),
           GoodCell(s, t, diag),
           swap => \E u, u2 \in Words :
                      s = Append(u, y) /\ t = Append(u2, x) /\ GoodCell(u, u2, older),
           (\E u \in Words : s = Append(u, y) /\ t = Append(u, x)) => swap
    PROVE  GoodCell(Append(s, x), Append(t, y),
                    IF swap /\ older + 1 < Plain(x, y, up, left, diag) THEN older + 1
                    ELSE Plain(x, y, up, left, diag))
<1> DEFINE v == Append(s, x)
           w == Append(t, y)
           l == MaxOf(Len(v), Len(w))
           plain == Plain(x, y, up, left, diag)
           z == IF swap /\ older + 1 < plain THEN older + 1 ELSE plain
<1>1. /\ plain \in Nat /\ plain <= l
      /\ Joined(v, w, plain, l)
      /\ \A m \in Nat : <<v, w, m>> \in Aligned => plain <= m
      /\ x = y /\ Swapped(t, s) => plain <= 1
  BY PlainCell
<1> HIDE DEF plain
<1>2. ASSUME swap PROVE older \in Nat /\ older + 1 <= l /\ Joined(v, w, older + 1, l)
  <2>1. PICK u \in Words, u2 \in Words :
                s = Append(u, y) /\ t = Append(u2, x) /\ GoodCell(u, u2, older)
    BY <1>2
  <2> QED
    BY <2>1, SwapCell
<1>3. ASSUME swap, \E u \in Words : s = Append(u, y) /\ t = Append(u, x)
      PROVE  older = 0
  <2>1. PICK u \in Words : s = Append(u, y) /\ t = Append(u, x)
    BY <1>3
  <2>2. PICK p \in Words, p2 \in Words :
                s = Append(p, y) /\ t = Append(p2, x) /\ GoodCell(p, p2, older)
    BY <1>3
  <2>3. p = u /\ p2 = u
    <3>1. Append(p, y) = Append(u, y) /\ Append(p2, x) = Append(u, x)
      BY <2>1, <2>2
    <3>2. p = u
      BY <3>1, AppendInjective DEF Words
    <3>3. p2 = u
      BY <3>1, AppendInjective DEF Words
    <3> QED
      BY <3>2, <3>3
  <2>4. <<u, u, 0>> \in Aligned
    BY AlignedSame
  <2>5. older \in Nat /\ older <= 0
    BY <2>2, <2>3, <2>4 DEF GoodCell
  <2> QED
    BY <2>5
<1>4. z \in Nat /\ z <= plain /\ z <= l /\ Joined(v, w, z, l)
  <2>1. CASE swap /\ older + 1 < plain
    BY <1>1, <1>2, <2>1
  <2>2. CASE ~ (swap /\ older + 1 < plain)
    BY <1>1, <2>2
  <2> QED
    BY <2>1, <2>2
<1>5. ASSUME Swapped(w, v) PROVE z <= 1
  <2>1. CASE x = y /\ Swapped(t, s)
    BY <1>1, <1>4, <2>1
  <2>2. CASE \E u \in Words : t = Append(u, x) /\ s = Append(u, y)
    <3>1. swap /\ older = 0
      BY <1>3, <2>2
    <3> QED
      BY <1>1, <3>1
  <2> QED
    BY <1>5, <2>1, <2>2, SwappedLast
<1>6. ASSUME NEW m \in Nat, <<v, w, m>> \in Aligned PROVE z <= m
  <2> HIDE DEF z
  <2> QED
    BY <1>1, <1>4, <1>6
<1> HIDE DEF z
<1>7. GoodCell(v, w, z)
  BY <1>4, <1>5, <1>6 DEF GoodCell
<1> QED
  BY <1>7 DEF v, w, z, plain

(* What a good cell means for words of the model: a distance.              *)
LEMMA GoodCellIsDistance ==
    ASSUME NEW v \in Word, NEW w \in Word, NEW z, GoodCell(v, w, z)
    PROVE  /\ z \in 0 .. MaxLen
           /\ w \in DamerauLevenshtein[z][v]
           /\ z > 0 => w \notin Levenshtein[z - 1][v]
           /\ \A m \in {0, 1} : m <= MaxLen /\ w \in DamerauLevenshtein[m][v] => z <= m
<1>0. MaxLen \in Nat
  BY RequestsAssumption
<1>1. /\ v \in Words /\ w \in Words /\ Len(v) \in Nat /\ Len(w) \in Nat
      /\ Len(v) <= MaxLen /\ Len(w) <= MaxLen
  BY WordLetters, WordType
<1>2. MaxOf(Len(v), Len(w)) \in Nat /\ MaxOf(Len(v), Len(w)) <= MaxLen
  BY <1>1 DEF MaxOf
<1>3. z \in Nat /\ z <= MaxOf(Len(v), Len(w)) /\ Joined(v, w, z, MaxOf(Len(v), Len(w)))
  BY DEF GoodCell
<1>4. z \in 0 .. MaxLen
  BY <1>0, <1>2, <1>3
<1>5. w \in DamerauLevenshtein[z][v]
  <2>1. Joined(v, w, z, MaxLen)
    BY <1>0, <1>2, <1>3, JoinedWider
  <2> QED
    BY <1>4, <2>1, JoinedDamerau
<1>6. ASSUME z > 0, w \in Levenshtein[z - 1][v] PROVE FALSE
  <2>1. z - 1 \in 0 .. MaxLen /\ z - 1 \in Nat
    BY <1>0, <1>4, <1>6
  <2>2. <<v, w, z - 1>> \in Aligned
    BY <1>6, <2>1, LevenshteinAligned
  <2>3. z <= z - 1
    BY <2>1, <2>2 DEF GoodCell
  <2> QED
    BY <1>3, <2>3
<1>7. ASSUME w \in DamerauLevenshtein[0][v] PROVE z <= 0
  <2>1. w = v
    BY <1>7, DamerauSteps
  <2>2. <<v, w, 0>> \in Aligned
    BY <1>1, <2>1, AlignedSame
  <2> QED
    BY <2>2 DEF GoodCell
<1>8. ASSUME 1 <= MaxLen, w \in DamerauLevenshtein[1][v] PROVE z <= 1
  <2>1. 1 \in 0 .. MaxLen
    BY <1>0, <1>8
  <2>2. Edit(w, v) \/ Swapped(w, v)
    BY <1>8, <2>1, DamerauSteps
  <2>3. CASE Edit(w, v)
    <3>1. <<v, v, 0>> \in Aligned /\ 0 \in Nat
      BY <1>1, AlignedSame
    <3>2. Editable(v, v, 0)
      BY <1>1, <3>1, AlignedEdit
    <3>3. <<v, w, 0 + 1>> \in Aligned
      BY <1>1, <2>3, <3>2 DEF Editable
    <3>4. <<v, w, 1>> \in Aligned
      BY <3>3
    <3> QED
      BY <3>4 DEF GoodCell
  <2>4. CASE Swapped(w, v)
    BY <2>4 DEF GoodCell
  <2> QED
    BY <2>2, <2>3, <2>4
<1> QED
  BY <1>4, <1>5, <1>6, <1>7, <1>8

-----------------------------------------------------------------------------
(* The invariant.                                                          *)

(* The cells written before cell <<i, j>>, and what they are.              *)
TableInv ==
    /\ i \in 1 .. Len(a) + 1 /\ j \in 1 .. MaxOf(Len(b), 1)
    /\ i = Len(a) + 1 => j = 1
    /\ Len(b) = 0 => i = 1
    /\ DOMAIN d = {c \in (0 .. Len(a)) \X (0 .. Len(b)) :
                      c[1] = 0 \/ c[2] = 0 \/ c[1] < i \/ (c[1] = i /\ c[2] < j)}
    /\ \A c \in DOMAIN d : GoodCell(Prefix(a, c[1]), Prefix(b, c[2]), d[c])

(* What is known of the candidates before the k-th: none of those equal to *)
(* the input or one edit or swap away is closer than the best one, and     *)
(* those before it are further away.                                       *)
BestInv ==
    /\ bestDistance \in 0 .. request.maxDistance + 1
    /\ best \in 0 .. k - 1
    /\ best = 0 => bestDistance = request.maxDistance + 1
    /\ best # 0 => bestDistance <= request.maxDistance /\ best \in Within(bestDistance)
    /\ \A m \in {0, 1} : m <= request.maxDistance =>
          \A c \in Within(m) : c < k => bestDistance <= m /\ (c < best => bestDistance < m)

IInv ==
    /\ request \in Requests
    /\ pc \in {"next", "fill", "done"}
    /\ k \in 1 .. n + 1
    /\ pc = "fill" => k <= n /\ TableInv
    /\ pc = "done" => k = n + 1
    /\ BestInv

(* The words and the bound of a request.                                   *)
LEMMA RequestType ==
    ASSUME request \in Requests
    PROVE  /\ a \in Word /\ a \in Words /\ Len(a) \in Nat
           /\ n \in Nat
           /\ request.maxDistance \in 0 .. MaxLen /\ MaxLen \in Nat
           /\ \A c \in 1 .. n : request.candidates[c] \in Word
           /\ k \in 1 .. n => b \in Word /\ b \in Words /\ Len(b) \in Nat
<1>1. /\ request.input \in Word /\ request.maxDistance \in 0 .. MaxLen /\ MaxLen \in Nat
      /\ request.candidates \in Seq(Word)
  BY RequestsAssumption
<1>2. n \in Nat /\ \A c \in 1 .. n : request.candidates[c] \in Word
  BY <1>1, LenProperties, ElementOfSeq DEF n
<1> QED
  BY <1>1, <1>2, WordType, WordLetters DEF a, b

(* The candidates within m edits are candidates.                           *)
LEMMA WithinType == \A m : Within(m) \subseteq 1 .. n
  BY DEF Within

(* Nothing has been looked at in the beginning.                            *)
LEMMA InitInvariant == Init => IInv
<1> SUFFICES ASSUME Init PROVE IInv
  OBVIOUS
<1>1. /\ request \in Requests /\ pc = "next" /\ k = 1 /\ best = 0
      /\ bestDistance = request.maxDistance + 1
  BY DEF Init
<1>2. n \in Nat /\ request.maxDistance \in Nat
  BY <1>1, RequestType
<1>3. BestInv
  <2>1. \A m : \A c \in Within(m) : ~ c < k
    BY <1>1, WithinType
  <2> QED
    BY <1>1, <1>2, <2>1 DEF BestInv
<1> QED
  BY <1>1, <1>2, <1>3 DEF IInv

(* The first row and column of a new table.                                *)
LEMMA BeginCandidateInvariant == IInv /\ BeginCandidate => IInv'
<1> SUFFICES ASSUME IInv, BeginCandidate PROVE IInv'
  OBVIOUS
<1>1. /\ request \in Requests /\ k \in 1 .. n + 1 /\ k <= n
      /\ request' = request /\ k' = k /\ best' = best /\ bestDistance' = bestDistance
      /\ d' = BaseCases /\ i' = 1 /\ j' = 1 /\ pc' = "fill"
  BY DEF IInv, BeginCandidate
<1>2. /\ a \in Words /\ Len(a) \in Nat /\ b \in Words /\ Len(b) \in Nat /\ n \in Nat
  BY <1>1, RequestType
<1>3. a' = a /\ b' = b /\ n' = n
  BY <1>1 DEF a, b, n
<1>4. BestInv'
  <2>1. \A m : Within(m)' = Within(m)
    BY <1>1, <1>3 DEF Within
  <2> QED
    BY <1>1, <2>1 DEF IInv, BestInv
<1> DEFINE Border == ((0 .. Len(a)) \X {0}) \cup ({0} \X (0 .. Len(b)))
           Written == {c \in (0 .. Len(a)) \X (0 .. Len(b)) :
                          c[1] = 0 \/ c[2] = 0 \/ c[1] < 1 \/ (c[1] = 1 /\ c[2] < 1)}
<1>5. Border = Written
  <2>1. ASSUME NEW c \in Border PROVE c \in Written
    BY <1>2, <2>1
  <2>2. ASSUME NEW c \in Written PROVE c \in Border
    <3>1. /\ c \in (0 .. Len(a)) \X (0 .. Len(b)) /\ (c[1] = 0 \/ c[2] = 0)
      BY <1>2
    <3>2. c[1] \in 0 .. Len(a) /\ c[2] \in 0 .. Len(b) /\ c = <<c[1], c[2]>>
      BY <3>1
    <3> QED
      BY <3>1, <3>2
  <2> QED
    BY <2>1, <2>2
<1>6. DOMAIN BaseCases = Border /\ \A c \in Border : BaseCases[c] = c[1] + c[2]
  BY DEF BaseCases
<1>7. ASSUME NEW c \in Border
      PROVE  GoodCell(Prefix(a, c[1]), Prefix(b, c[2]), BaseCases[c])
  <2>1. c \in (0 .. Len(a)) \X {0} \/ c \in {0} \X (0 .. Len(b))
    OBVIOUS
  <2>2. CASE c \in (0 .. Len(a)) \X {0}
    <3>1. c[1] \in 0 .. Len(a) /\ c[2] = 0 /\ c[1] + c[2] = c[1]
      BY <1>2, <2>2
    <3>2. Prefix(a, c[1]) \in Words /\ Len(Prefix(a, c[1])) = c[1] /\ Prefix(b, c[2]) = << >>
      BY <1>2, <3>1, Prefixes
    <3>3. GoodCell(Prefix(a, c[1]), << >>, c[1])
      BY <3>2, GoodColumn
    <3> QED
      BY <1>6, <3>1, <3>2, <3>3
  <2>3. CASE c \in {0} \X (0 .. Len(b))
    <3>1. c[2] \in 0 .. Len(b) /\ c[1] = 0 /\ c[1] + c[2] = c[2]
      BY <1>2, <2>3
    <3>2. Prefix(b, c[2]) \in Words /\ Len(Prefix(b, c[2])) = c[2] /\ Prefix(a, c[1]) = << >>
      BY <1>2, <3>1, Prefixes
    <3>3. GoodCell(<< >>, Prefix(b, c[2]), c[2])
      BY <3>2, GoodRow
    <3> QED
      BY <1>6, <3>1, <3>2, <3>3
  <2> QED
    BY <2>1, <2>2, <2>3
<1> HIDE DEF Border, Written
<1>8. DOMAIN d' = Written
  BY <1>1, <1>5, <1>6
<1>9. \A c \in DOMAIN d' : GoodCell(Prefix(a', c[1]), Prefix(b', c[2]), d'[c])
  BY <1>1, <1>3, <1>6, <1>7
<1>10. /\ i' \in 1 .. Len(a') + 1 /\ j' \in 1 .. MaxOf(Len(b'), 1)
       /\ (i' = Len(a') + 1 => j' = 1) /\ (Len(b') = 0 => i' = 1)
  BY <1>1, <1>2, <1>3 DEF MaxOf
<1>11. TableInv'
  <2>1. DOMAIN d' = {c \in (0 .. Len(a')) \X (0 .. Len(b')) :
                        c[1] = 0 \/ c[2] = 0 \/ c[1] < i' \/ (c[1] = i' /\ c[2] < j')}
    BY <1>1, <1>3, <1>8 DEF Written
  <2> QED
    BY <1>9, <1>10, <2>1 DEF TableInv
<1> QED
  BY <1>1, <1>3, <1>4, <1>11 DEF IInv

(* The cell computed next is good.                                         *)
LEMMA CellIsGood ==
    ASSUME request \in Requests, k \in 1 .. n, TableInv, Filling
    PROVE  /\ i \in 1 .. Len(a) /\ j \in 1 .. Len(b)
           /\ GoodCell(Prefix(a, i), Prefix(b, j), Cell)
<1>1. a \in Words /\ Len(a) \in Nat /\ b \in Words /\ Len(b) \in Nat
  BY RequestType
<1>2. i \in 1 .. Len(a) /\ j \in 1 .. Len(b)
  BY <1>1 DEF TableInv, Filling, MaxOf
<1>3. /\ <<i - 1, j>> \in DOMAIN d /\ <<i, j - 1>> \in DOMAIN d
      /\ <<i - 1, j - 1>> \in DOMAIN d
      /\ i >= 2 /\ j >= 2 => <<i - 2, j - 2>> \in DOMAIN d
  <2> DEFINE Written == {c \in (0 .. Len(a)) \X (0 .. Len(b)) :
                            c[1] = 0 \/ c[2] = 0 \/ c[1] < i \/ (c[1] = i /\ c[2] < j)}
  <2>1. DOMAIN d = Written
    BY DEF TableInv
  <2>2. \A p \in 0 .. Len(a), q \in 0 .. Len(b) :
           (p < i \/ (p = i /\ q < j)) => <<p, q>> \in Written
    OBVIOUS
  <2>3. /\ i - 1 \in 0 .. Len(a) /\ i \in 0 .. Len(a) /\ i - 1 < i
        /\ j - 1 \in 0 .. Len(b) /\ j \in 0 .. Len(b) /\ j - 1 < j
        /\ i >= 2 /\ j >= 2 => i - 2 \in 0 .. Len(a) /\ j - 2 \in 0 .. Len(b) /\ i - 2 < i
    BY <1>1, <1>2
  <2> HIDE DEF Written
  <2> QED
    BY <2>1, <2>2, <2>3
<1>4. \A c \in DOMAIN d : GoodCell(Prefix(a, c[1]), Prefix(b, c[2]), d[c])
  BY DEF TableInv
<1> DEFINE s == Prefix(a, i - 1)
           t == Prefix(b, j - 1)
           x == a[i]
           y == b[j]
           up == d[<<i - 1, j>>]
           left == d[<<i, j - 1>>]
           diag == d[<<i - 1, j - 1>>]
           older == d[<<i - 2, j - 2>>]
<1>5. /\ s \in Words /\ x \in Letters /\ Prefix(a, i) = Append(s, x)
      /\ t \in Words /\ y \in Letters /\ Prefix(b, j) = Append(t, y)
  <2>1. i - 1 \in 0 .. Len(a) /\ j - 1 \in 0 .. Len(b)
    BY <1>1, <1>2
  <2>2. s \in Words /\ x \in Letters /\ Prefix(a, i) = Append(s, x)
    BY <1>1, <1>2, <2>1, Prefixes
  <2>3. t \in Words /\ y \in Letters /\ Prefix(b, j) = Append(t, y)
    BY <1>1, <1>2, <2>1, Prefixes
  <2> QED
    BY <2>2, <2>3
<1>6. /\ GoodCell(s, Append(t, y), up) /\ GoodCell(Append(s, x), t, left)
      /\ GoodCell(s, t, diag)
  <2>1. GoodCell(Prefix(a, i - 1), Prefix(b, j), d[<<i - 1, j>>])
    BY <1>3, <1>4
  <2>2. GoodCell(Prefix(a, i), Prefix(b, j - 1), d[<<i, j - 1>>])
    BY <1>3, <1>4
  <2>3. GoodCell(Prefix(a, i - 1), Prefix(b, j - 1), d[<<i - 1, j - 1>>])
    BY <1>3, <1>4
  <2> QED
    BY <1>5, <2>1, <2>2, <2>3
<1>7. ASSUME Transposed
      PROVE  \E u, u2 \in Words :
                s = Append(u, y) /\ t = Append(u2, x) /\ GoodCell(u, u2, older)
  <2>1. i >= 2 /\ j >= 2 /\ a[i] = b[j - 1] /\ a[i - 1] = b[j]
    BY <1>7 DEF Transposed
  <2>2. /\ i - 1 \in 1 .. Len(a) /\ (i - 1) - 1 = i - 2 /\ i - 2 \in 0 .. Len(a)
        /\ j - 1 \in 1 .. Len(b) /\ (j - 1) - 1 = j - 2 /\ j - 2 \in 0 .. Len(b)
    BY <1>1, <1>2, <2>1
  <2>3. s = Append(Prefix(a, i - 2), a[i - 1]) /\ Prefix(a, i - 2) \in Words
    BY <1>1, <2>2, Prefixes
  <2>4. t = Append(Prefix(b, j - 2), b[j - 1]) /\ Prefix(b, j - 2) \in Words
    BY <1>1, <2>2, Prefixes
  <2>5. GoodCell(Prefix(a, i - 2), Prefix(b, j - 2), older)
    BY <1>3, <1>4, <2>1
  <2>6. a[i - 1] = y /\ b[j - 1] = x
    BY <2>1
  <2> HIDE DEF s, t, x, y, older
  <2> QED
    BY <2>3, <2>4, <2>5, <2>6
<1>8. ASSUME NEW u \in Words, s = Append(u, y), t = Append(u, x)
      PROVE  Transposed
  <2>1. Len(s) = i - 1 /\ Len(t) = j - 1
    BY <1>1, <1>2, Prefixes
  <2>2. Len(s) = Len(u) + 1 /\ Len(t) = Len(u) + 1 /\ Len(u) \in Nat
    BY <1>5, <1>8, AppendWord, WordLetters
  <2>3. i >= 2 /\ j >= 2
    BY <1>2, <2>1, <2>2
  <2>4. /\ i - 1 \in 1 .. Len(a) /\ i - 2 \in 0 .. Len(a) /\ (i - 1) - 1 = i - 2
        /\ j - 1 \in 1 .. Len(b) /\ j - 2 \in 0 .. Len(b) /\ (j - 1) - 1 = j - 2
    BY <1>1, <1>2, <2>3
  <2>5. /\ s = Append(Prefix(a, i - 2), a[i - 1]) /\ Prefix(a, i - 2) \in Words
        /\ a[i - 1] \in Letters
    BY <1>1, <2>4, Prefixes
  <2>6. /\ t = Append(Prefix(b, j - 2), b[j - 1]) /\ Prefix(b, j - 2) \in Words
        /\ b[j - 1] \in Letters
    BY <1>1, <2>4, Prefixes
  <2>7. y = a[i - 1]
    <3>1. Append(u, y) = Append(Prefix(a, i - 2), a[i - 1])
      BY <1>8, <2>5
    <3> HIDE DEF y, s, t
    <3> QED
      BY <1>5, <2>5, <3>1, AppendInjective DEF Words
  <2>8. x = b[j - 1]
    <3>1. Append(u, x) = Append(Prefix(b, j - 2), b[j - 1])
      BY <1>8, <2>6
    <3> HIDE DEF x, s, t
    <3> QED
      BY <1>5, <2>6, <3>1, AppendInjective DEF Words
  <2> QED
    BY <2>3, <2>7, <2>8 DEF Transposed
<1>9. Cell = IF Transposed /\ older + 1 < Plain(x, y, up, left, diag) THEN older + 1
             ELSE Plain(x, y, up, left, diag)
  BY DEF Cell, Plain, Cost
<1>10. Transposed \in BOOLEAN
  BY DEF Transposed
<1> HIDE DEF s, t, x, y, up, left, diag, older
<1> DEFINE swap == Transposed
<1>11. /\ swap \in BOOLEAN
       /\ swap => \E u, u2 \in Words :
                     s = Append(u, y) /\ t = Append(u2, x) /\ GoodCell(u, u2, older)
       /\ (\E u \in Words : s = Append(u, y) /\ t = Append(u, x)) => swap
  BY <1>7, <1>8, <1>10
<1>12. Cell = IF swap /\ older + 1 < Plain(x, y, up, left, diag) THEN older + 1
              ELSE Plain(x, y, up, left, diag)
  BY <1>9
<1> HIDE DEF swap
<1>13. GoodCell(Append(s, x), Append(t, y),
                IF swap /\ older + 1 < Plain(x, y, up, left, diag) THEN older + 1
                ELSE Plain(x, y, up, left, diag))
  BY <1>5, <1>6, <1>11, NextCell
<1> QED
  BY <1>2, <1>5, <1>12, <1>13

(* A cell is written, and the loops go on to the next one.                 *)
LEMMA FillCellInvariant == IInv /\ FillCell => IInv'
<1> SUFFICES ASSUME IInv, FillCell PROVE IInv'
  OBVIOUS
<1>1. /\ request \in Requests /\ k \in 1 .. n + 1 /\ pc = "fill" /\ TableInv /\ k <= n
      /\ request' = request /\ k' = k /\ best' = best /\ bestDistance' = bestDistance
      /\ pc' = pc /\ Filling
  BY DEF IInv, FillCell
<1>2. /\ a \in Words /\ Len(a) \in Nat /\ n \in Nat
  BY <1>1, RequestType
<1>3. k \in 1 .. n /\ b \in Words /\ Len(b) \in Nat
  BY <1>1, <1>2, RequestType
<1>4. a' = a /\ b' = b /\ n' = n
  BY <1>1 DEF a, b, n
<1>5. BestInv'
  <2>1. \A m : Within(m)' = Within(m)
    BY <1>1, <1>4 DEF Within
  <2> QED
    BY <1>1, <2>1 DEF IInv, BestInv
<1>6. /\ i \in 1 .. Len(a) /\ j \in 1 .. Len(b)
      /\ GoodCell(Prefix(a, i), Prefix(b, j), Cell)
  BY <1>1, <1>3, CellIsGood
<1>7. /\ DOMAIN d' = DOMAIN d \cup {<<i, j>>}
      /\ \A c \in DOMAIN d' : d'[c] = IF c = <<i, j>> THEN Cell ELSE d[c]
  BY DEF FillCell
<1>8. /\ j < Len(b) => j' = j + 1 /\ i' = i
      /\ ~ j < Len(b) => j' = 1 /\ i' = i + 1
  BY DEF FillCell
<1>9. /\ i' \in 1 .. Len(a) + 1 /\ j' \in 1 .. MaxOf(Len(b), 1)
      /\ (i' = Len(a) + 1 => j' = 1) /\ (Len(b) = 0 => i' = 1)
  BY <1>2, <1>3, <1>6, <1>8 DEF MaxOf
<1> DEFINE Written == {c \in (0 .. Len(a)) \X (0 .. Len(b)) :
                          c[1] = 0 \/ c[2] = 0 \/ c[1] < i \/ (c[1] = i /\ c[2] < j)}
           Written2 == {c \in (0 .. Len(a)) \X (0 .. Len(b)) :
                          c[1] = 0 \/ c[2] = 0 \/ c[1] < i' \/ (c[1] = i' /\ c[2] < j')}
<1>10. Written \cup {<<i, j>>} = Written2
  <2>1. ASSUME NEW p \in 0 .. Len(a), NEW q \in 0 .. Len(b)
        PROVE  (p = 0 \/ q = 0 \/ p < i' \/ (p = i' /\ q < j')) <=>
                  (p = 0 \/ q = 0 \/ p < i \/ (p = i /\ q < j)) \/ (p = i /\ q = j)
    <3>1. CASE j < Len(b)
      BY <1>2, <1>3, <1>6, <1>8, <3>1
    <3>2. CASE ~ j < Len(b)
      BY <1>2, <1>3, <1>6, <1>8, <3>2
    <3> QED
      BY <3>1, <3>2
  <2>2. i \in 0 .. Len(a) /\ j \in 0 .. Len(b)
    BY <1>2, <1>3, <1>6
  <2>3. ASSUME NEW c \in Written PROVE c \in Written2
    <3>1. c[1] \in 0 .. Len(a) /\ c[2] \in 0 .. Len(b)
      OBVIOUS
    <3> QED
      BY <2>1, <3>1
  <2>4. <<i, j>> \in Written2
    BY <2>1, <2>2
  <2>5. ASSUME NEW c \in Written2 PROVE c \in Written \/ c = <<i, j>>
    <3>1. /\ c[1] \in 0 .. Len(a) /\ c[2] \in 0 .. Len(b) /\ c = <<c[1], c[2]>>
          /\ c \in (0 .. Len(a)) \X (0 .. Len(b))
      OBVIOUS
    <3> QED
      BY <2>1, <3>1
  <2> QED
    BY <2>3, <2>4, <2>5
<1>11. DOMAIN d = Written /\ \A c \in DOMAIN d : GoodCell(Prefix(a, c[1]), Prefix(b, c[2]), d[c])
  BY <1>1 DEF TableInv
<1> HIDE DEF Written, Written2
<1>12. DOMAIN d' = Written2
  BY <1>7, <1>10, <1>11
<1>13. ASSUME NEW c \in DOMAIN d'
       PROVE  GoodCell(Prefix(a', c[1]), Prefix(b', c[2]), d'[c])
  <2>1. CASE c = <<i, j>>
    <3>1. c[1] = i /\ c[2] = j /\ d'[c] = Cell
      BY <1>7, <2>1
    <3> QED
      BY <1>4, <1>6, <3>1
  <2>2. CASE c # <<i, j>>
    <3>1. c \in DOMAIN d /\ d'[c] = d[c]
      BY <1>7, <2>2
    <3> QED
      BY <1>4, <1>11, <3>1
  <2> QED
    BY <2>1, <2>2
<1>14. TableInv'
  <2>1. DOMAIN d' = {c \in (0 .. Len(a')) \X (0 .. Len(b')) :
                        c[1] = 0 \/ c[2] = 0 \/ c[1] < i' \/ (c[1] = i' /\ c[2] < j')}
    BY <1>4, <1>12 DEF Written2
  <2>2. /\ i' \in 1 .. Len(a') + 1 /\ j' \in 1 .. MaxOf(Len(b'), 1)
        /\ (i' = Len(a') + 1 => j' = 1) /\ (Len(b') = 0 => i' = 1)
    BY <1>4, <1>9
  <2> QED
    BY <1>13, <2>1, <2>2 DEF TableInv
<1> QED
  BY <1>1, <1>4, <1>5, <1>14 DEF IInv

(* Every cell of a full table is there and good.                           *)
LEMMA FullTable ==
    ASSUME request \in Requests, k \in 1 .. n, TableInv, ~ Filling
    PROVE  DOMAIN d = (0 .. Len(a)) \X (0 .. Len(b))
<1>1. Len(a) \in Nat /\ Len(b) \in Nat
  BY RequestType
<1>2. i = Len(a) + 1 \/ Len(b) = 0
  BY <1>1 DEF TableInv, Filling
<1> DEFINE All == (0 .. Len(a)) \X (0 .. Len(b))
           Written == {c \in All :
                          c[1] = 0 \/ c[2] = 0 \/ c[1] < i \/ (c[1] = i /\ c[2] < j)}
<1>3. ASSUME NEW c \in All PROVE c \in Written
  <2>1. c[1] \in 0 .. Len(a) /\ c[2] \in 0 .. Len(b)
    OBVIOUS
  <2>2. c[2] = 0 \/ c[1] < i
    BY <1>1, <1>2, <2>1
  <2> QED
    BY <2>2
<1>4. DOMAIN d = Written
  BY DEF TableInv
<1> QED
  BY <1>3, <1>4

(* The candidate's distance is compared with that of the best so far.      *)
LEMMA CompareCandidateInvariant == IInv /\ CompareCandidate => IInv'
<1> SUFFICES ASSUME IInv, CompareCandidate PROVE IInv'
  OBVIOUS
<1>1. /\ request \in Requests /\ k \in 1 .. n + 1 /\ TableInv /\ k <= n /\ ~ Filling
      /\ request' = request /\ k' = k + 1 /\ pc' = "next"
  BY DEF IInv, CompareCandidate
<1>2. /\ a \in Word /\ a \in Words /\ Len(a) \in Nat /\ n \in Nat
      /\ request.maxDistance \in 0 .. MaxLen /\ MaxLen \in Nat
  BY <1>1, RequestType
<1>3. k \in 1 .. n /\ b \in Word /\ b \in Words /\ Len(b) \in Nat
  BY <1>1, <1>2, RequestType
<1>4. a' = a /\ n' = n /\ \A m : Within(m)' = Within(m)
  BY <1>1 DEF a, n, Within
<1>5. GoodCell(a, b, Distance)
  <2>1. <<Len(a), Len(b)>> \in DOMAIN d
    BY <1>1, <1>2, <1>3, FullTable
  <2>2. GoodCell(Prefix(a, Len(a)), Prefix(b, Len(b)), d[<<Len(a), Len(b)>>])
    BY <1>1, <2>1 DEF TableInv
  <2>3. Prefix(a, Len(a)) = a /\ Prefix(b, Len(b)) = b
    BY <1>2, <1>3, Prefixes
  <2> QED
    BY <2>2, <2>3 DEF Distance
<1> DEFINE z == Distance
<1>6. /\ z \in 0 .. MaxLen /\ b \in DamerauLevenshtein[z][a]
      /\ \A m \in {0, 1} : m <= MaxLen /\ b \in DamerauLevenshtein[m][a] => z <= m
  BY <1>2, <1>3, <1>5, GoodCellIsDistance
<1>7. k \in Within(z)
  BY <1>3, <1>6 DEF Within, b
<1>8. ASSUME NEW m \in {0, 1}, m <= request.maxDistance, k \in Within(m)
      PROVE  z <= m
  <2>1. b \in DamerauLevenshtein[m][a]
    BY <1>8 DEF Within, b
  <2> QED
    BY <1>2, <1>6, <1>8, <2>1
<1>9. /\ bestDistance \in 0 .. request.maxDistance + 1 /\ best \in 0 .. k - 1
      /\ best = 0 => bestDistance = request.maxDistance + 1
      /\ best # 0 => bestDistance <= request.maxDistance /\ best \in Within(bestDistance)
      /\ \A m \in {0, 1} : m <= request.maxDistance =>
            \A c \in Within(m) : c < k => bestDistance <= m /\ (c < best => bestDistance < m)
  BY DEF IInv, BestInv
<1>10. /\ IsBetter <=> z <= request.maxDistance /\ z < bestDistance
       /\ IsBetter => best' = k /\ bestDistance' = z
       /\ ~ IsBetter => best' = best /\ bestDistance' = bestDistance
  BY DEF CompareCandidate, IsBetter
<1> HIDE DEF z
<1>11. /\ bestDistance' \in 0 .. request.maxDistance + 1 /\ best' \in 0 .. k' - 1
       /\ best' = 0 => bestDistance' = request.maxDistance + 1
       /\ best' # 0 => bestDistance' <= request.maxDistance /\ best' \in Within(bestDistance')
  BY <1>1, <1>2, <1>3, <1>6, <1>7, <1>9, <1>10
<1>12. ASSUME NEW m \in {0, 1}, m <= request.maxDistance, NEW c \in Within(m), c < k'
       PROVE  bestDistance' <= m /\ (c < best' => bestDistance' < m)
  <2>1. c \in 1 .. n
    BY WithinType
  <2>2. c < k \/ c = k
    BY <1>1, <1>3, <1>12, <2>1
  <2>3. CASE c = k
    <3>1. z <= m
      BY <1>8, <1>12, <2>3
    <3> QED
      BY <1>2, <1>3, <1>6, <1>9, <1>10, <1>12, <2>3, <3>1
  <2>4. CASE c < k
    <3>1. bestDistance <= m /\ (c < best => bestDistance < m)
      BY <1>9, <1>12, <2>4
    <3> QED
      BY <1>2, <1>3, <1>6, <1>9, <1>10, <2>4, <3>1
  <2> QED
    BY <2>2, <2>3, <2>4
<1>13. BestInv'
  BY <1>1, <1>4, <1>11, <1>12 DEF BestInv
<1>14. k' \in 1 .. n' + 1
  BY <1>1, <1>2, <1>4
<1> QED
  BY <1>1, <1>13, <1>14 DEF IInv

(* All candidates have been looked at.                                     *)
LEMMA ReturnInvariant == IInv /\ Return => IInv'
<1> SUFFICES ASSUME IInv, Return PROVE IInv'
  OBVIOUS
<1>1. /\ request' = request /\ k' = k /\ best' = best /\ bestDistance' = bestDistance
      /\ pc' = "done" /\ k > n
  BY DEF Return
<1>2. a' = a /\ n' = n /\ request \in Requests /\ k \in 1 .. n + 1
  BY <1>1 DEF a, n, IInv
<1>3. n \in Nat
  BY <1>2, RequestType
<1>4. BestInv'
  <2>1. \A m : Within(m)' = Within(m)
    BY <1>1, <1>2 DEF Within
  <2> QED
    BY <1>1, <2>1 DEF IInv, BestInv
<1>5. k = n + 1
  BY <1>1, <1>2, <1>3
<1> QED
  BY <1>1, <1>2, <1>4, <1>5 DEF IInv

(* Every step, and none, preserves the invariant.                          *)
LEMMA NextInvariant == IInv /\ [Next]_vars => IInv'
<1>1. ASSUME IInv, UNCHANGED vars PROVE IInv'
  <2>1. /\ request' = request /\ pc' = pc /\ k' = k /\ best' = best
        /\ bestDistance' = bestDistance /\ d' = d /\ i' = i /\ j' = j
    BY <1>1 DEF vars
  <2>2. a' = a /\ b' = b /\ n' = n
    BY <2>1 DEF a, b, n
  <2>3. \A m : Within(m)' = Within(m)
    BY <2>1, <2>2 DEF Within
  <2>4. BestInv' <=> BestInv
    BY <2>1, <2>3 DEF BestInv
  <2>5. TableInv' <=> TableInv
    BY <2>1, <2>2 DEF TableInv
  <2> QED
    BY <1>1, <2>1, <2>2, <2>4, <2>5 DEF IInv
<1> QED
  BY <1>1, BeginCandidateInvariant, FillCellInvariant, CompareCandidateInvariant,
     ReturnInvariant DEF Next

(* In every state the written cells of the table are good, and no          *)
(* candidate already looked at that is the input, or one slip away from    *)
(* it, beats the best one.                                                 *)
THEOREM Invariance == Spec => []IInv
<1>1. Init => IInv
  BY InitInvariant
<1>2. IInv /\ [Next]_vars => IInv'
  BY NextInvariant
<1> QED
  BY <1>1, <1>2, PTL DEF Spec

(* The cells of a full table are distances.                                *)
LEMMA CellsFollow == IInv => CellsAreDistances
<1> SUFFICES ASSUME IInv, pc = "fill", ~ Filling, NEW c \in DOMAIN d
             PROVE  LET v == SubSeq(a, 1, c[1])
                        w == SubSeq(b, 1, c[2])
                    IN  /\ w \in DamerauLevenshtein[d[c]][v]
                        /\ d[c] > 0 => w \notin Levenshtein[d[c] - 1][v]
                        /\ w \in DamerauLevenshtein[1][v] => d[c] <= 1
  BY DEF CellsAreDistances
<1>1. request \in Requests /\ k \in 1 .. n + 1 /\ k <= n /\ TableInv
  BY DEF IInv
<1>2. n \in Nat /\ MaxLen \in Nat
  BY <1>1, RequestType
<1>3. k \in 1 .. n
  BY <1>1, <1>2
<1>4. /\ a \in Word /\ a \in Words /\ Len(a) \in Nat
      /\ b \in Word /\ b \in Words /\ Len(b) \in Nat
  BY <1>1, <1>3, RequestType
<1>5. c[1] \in 0 .. Len(a) /\ c[2] \in 0 .. Len(b)
  <2>1. DOMAIN d = (0 .. Len(a)) \X (0 .. Len(b))
    BY <1>1, <1>3, FullTable
  <2> QED
    BY <2>1
<1> DEFINE v == Prefix(a, c[1])
           w == Prefix(b, c[2])
<1>6. v \in Word /\ w \in Word
  <2>1. v \in Words /\ Len(v) = c[1] /\ w \in Words /\ Len(w) = c[2]
    BY <1>4, <1>5, Prefixes
  <2>2. Len(a) <= MaxLen /\ Len(b) <= MaxLen
    BY <1>4, WordType
  <2>3. Len(v) <= MaxLen /\ Len(w) <= MaxLen
    BY <1>2, <1>4, <1>5, <2>1, <2>2
  <2> QED
    BY <2>1, <2>3, WordIsShort DEF Short
<1>7. GoodCell(v, w, d[c])
  BY <1>1 DEF TableInv
<1> HIDE DEF v, w
<1>8. /\ d[c] \in 0 .. MaxLen
      /\ w \in DamerauLevenshtein[d[c]][v]
      /\ d[c] > 0 => w \notin Levenshtein[d[c] - 1][v]
      /\ \A m \in {0, 1} : m <= MaxLen /\ w \in DamerauLevenshtein[m][v] => d[c] <= m
  BY <1>6, <1>7, GoodCellIsDistance
<1>9. w \in DamerauLevenshtein[1][v] => d[c] <= 1
  BY <1>2, <1>8
<1>10. v = SubSeq(a, 1, c[1]) /\ w = SubSeq(b, 1, c[2])
  BY DEF v, w, Prefix
<1> QED
  BY <1>8, <1>9, <1>10

(* Every cell of a full table is a distance of two prefixes: that many     *)
(* edits and swaps do turn one into the other, no fewer simple edits do,   *)
(* and a single edit or swap is seen as one.                               *)
THEOREM TablesHoldDistances == Spec => []CellsAreDistances
<1>1. IInv => CellsAreDistances
  BY CellsFollow
<1> QED
  BY <1>1, Invariance, PTL

(* The best of all candidates is what the property says.                   *)
LEMMA SuggestionFollows == IInv => SuggestsFirstOfTheClosest
<1> SUFFICES ASSUME IInv, pc = "done"
             PROVE  /\ best # 0 => best \in Within(request.maxDistance)
                    /\ \A m \in {0, 1} :
                          m <= request.maxDistance /\ Within(m) # {}
                             /\ (m = 1 => Within(0) = {}) =>
                                best \in Within(m) /\ \A c \in Within(m) : best <= c
  BY DEF SuggestsFirstOfTheClosest
<1>1. request \in Requests /\ k = n + 1 /\ BestInv
  BY DEF IInv
<1>2. /\ a \in Word /\ n \in Nat /\ request.maxDistance \in 0 .. MaxLen /\ MaxLen \in Nat
  BY <1>1, RequestType
<1>3. /\ bestDistance \in 0 .. request.maxDistance + 1 /\ best \in 0 .. n
      /\ best # 0 => bestDistance <= request.maxDistance /\ best \in Within(bestDistance)
      /\ best = 0 => bestDistance = request.maxDistance + 1
      /\ \A m \in {0, 1} : m <= request.maxDistance =>
            \A c \in Within(m) : c < k => bestDistance <= m /\ (c < best => bestDistance < m)
  BY <1>1, <1>2 DEF BestInv
<1>4. ASSUME NEW p \in 0 .. MaxLen, NEW q \in p .. MaxLen PROVE Within(p) \subseteq Within(q)
  BY <1>2, DamerauMore DEF Within
<1>5. best # 0 => best \in Within(request.maxDistance)
  <2> SUFFICES ASSUME best # 0 PROVE best \in Within(request.maxDistance)
    OBVIOUS
  <2>1. bestDistance \in 0 .. MaxLen /\ request.maxDistance \in bestDistance .. MaxLen
    BY <1>2, <1>3
  <2> QED
    BY <1>3, <1>4, <2>1
<1>6. ASSUME NEW m \in {0, 1}, m <= request.maxDistance, NEW c \in Within(m),
             m = 1 => Within(0) = {}
      PROVE  best \in Within(m) /\ best <= c
  <2>1. c \in 1 .. n /\ c < k
    BY <1>1, <1>2, WithinType
  <2>2. bestDistance <= m /\ (c < best => bestDistance < m)
    BY <1>3, <1>6, <2>1
  <2>3. best # 0
    BY <1>2, <1>3, <1>6, <2>2
  <2>4. bestDistance \in 0 .. MaxLen /\ m \in bestDistance .. MaxLen
    BY <1>2, <1>3, <1>6, <2>2
  <2>5. best \in Within(m)
    BY <1>3, <1>4, <2>3, <2>4
  <2>6. ~ c < best
    <3> SUFFICES ASSUME c < best PROVE FALSE
      OBVIOUS
    <3>1. m = 1 /\ bestDistance = 0
      BY <2>2, <2>4
    <3> QED
      BY <1>3, <1>6, <2>3, <3>1
  <2>7. best <= c
    BY <1>2, <1>3, <2>1, <2>6
  <2> QED
    BY <2>5, <2>7
<1> QED
  BY <1>5, <1>6

(* What is suggested is within the bound, and a word one slip away from a  *)
(* candidate gets the first such candidate, unless it is itself one.       *)
THEOREM SuggestionIsTheFirstClosest == Spec => []SuggestsFirstOfTheClosest
<1>1. IInv => SuggestsFirstOfTheClosest
  BY SuggestionFollows
<1> QED
  BY <1>1, Invariance, PTL
=============================================================================
