------------------------------ MODULE Suggest ------------------------------
(***************************************************************************)
(* SuggestClosest of src/suggest.c: the "did you mean" of the parser and   *)
(* the code generator.  The table of each candidate is filled cell by      *)
(* cell; a cell not yet written is not in the table's domain.              *)
(*                                                                         *)
(* Words are sequences of letters.  Words up to MaxLen letters, and bounds *)
(* up to MaxLen, are the ones the distances of the properties are defined  *)
(* on: no two such words are further apart.                                *)
(***************************************************************************)
EXTENDS Integers, Sequences, FiniteSets

CONSTANTS Letters, MaxLen,
          Requests   \* what is asked: an input, candidates and a bound

Word == UNION {[1 .. n -> Letters] : n \in 0 .. MaxLen}

ASSUME RequestsAssumption ==
    /\ MaxLen \in Nat
    /\ \A r \in Requests :
          /\ r.input \in Word /\ r.maxDistance \in 0 .. MaxLen
          /\ r.candidates \in Seq(Word)

VARIABLES request,       \* input, candidates, maxDistance
          pc,            \* "next", "fill", "done"
          k,             \* the candidate looked at
          d,             \* its table, as far as written
          i, j,          \* the cell to write next
          best,          \* the best candidate so far, 0 for NULL
          bestDistance   \* one more than maxDistance, then that of best

vars == <<request, pc, k, d, i, j, best, bestDistance>>

a == request.input
b == request.candidates[k]
n == Len(request.candidates)

Init ==
    /\ request \in Requests
    /\ pc = "next"
    /\ k = 1
    /\ d = << >>
    /\ i = 1 /\ j = 1
    /\ best = 0
    /\ bestDistance = request.maxDistance + 1

Min3(x, y, z) == IF x <= y /\ x <= z THEN x ELSE IF y <= z THEN y ELSE z

(* Column and row 0: the distance to the empty word.                       *)
BaseCases ==
    [c \in ((0 .. Len(a)) \X {0}) \cup ({0} \X (0 .. Len(b))) |-> c[1] + c[2]]

BeginCandidate ==
    /\ pc = "next" /\ k <= n
    /\ d' = BaseCases
    /\ i' = 1 /\ j' = 1
    /\ pc' = "fill"
    /\ UNCHANGED <<request, k, best, bestDistance>>

(* Broken: the letters swapped are not the ones at the ends.               *)
TransposedOneSided == i >= 2 /\ j >= 2 /\ a[i] = b[j - 1]

Transposed == i >= 2 /\ j >= 2 /\ a[i] = b[j - 1] /\ a[i - 1] = b[j]

Cell ==
    LET cost == IF a[i] = b[j] THEN 0 ELSE 1
        plain == Min3(d[<<i - 1, j>>] + 1, d[<<i, j - 1>>] + 1, d[<<i - 1, j - 1>>] + cost)
    IN  IF Transposed /\ d[<<i - 2, j - 2>>] + 1 < plain
        THEN d[<<i - 2, j - 2>>] + 1 ELSE plain

(* The two nested loops over the cells.                                    *)
Filling == i <= Len(a) /\ Len(b) > 0

FillCell ==
    /\ pc = "fill" /\ Filling
    /\ d' = [c \in DOMAIN d \cup {<<i, j>>} |-> IF c = <<i, j>> THEN Cell ELSE d[c]]
    /\ IF j < Len(b) THEN j' = j + 1 /\ i' = i ELSE j' = 1 /\ i' = i + 1
    /\ UNCHANGED <<request, pc, k, best, bestDistance>>

Distance == d[<<Len(a), Len(b)>>]

(* Broken: of equally close candidates the last one wins.                  *)
IsBetterOrEqual == Distance <= request.maxDistance /\ Distance <= bestDistance

IsBetter == Distance <= request.maxDistance /\ Distance < bestDistance

CompareCandidate ==
    /\ pc = "fill" /\ ~ Filling
    /\ IF IsBetter THEN best' = k /\ bestDistance' = Distance
                   ELSE UNCHANGED <<best, bestDistance>>
    /\ k' = k + 1
    /\ d' = << >>
    /\ pc' = "next"
    /\ UNCHANGED <<request, i, j>>

Return ==
    /\ pc = "next" /\ k > n
    /\ pc' = "done"
    /\ UNCHANGED <<request, k, d, i, j, best, bestDistance>>

Next == BeginCandidate \/ FillCell \/ CompareCandidate \/ Return

Spec == Init /\ [][Next]_vars

-----------------------------------------------------------------------------
(* Distances by counting edits, defined without a table.                   *)

Without(w, p) == SubSeq(w, 1, p - 1) \o SubSeq(w, p + 1, Len(w))

Substituted(v, w) ==
    Len(v) = Len(w) /\ Cardinality({p \in 1 .. Len(v) : v[p] # w[p]}) <= 1
Inserted(v, w) == Len(w) = Len(v) + 1 /\ \E p \in 1 .. Len(w) : Without(w, p) = v
Swapped(v, w) ==
    /\ Len(v) = Len(w)
    /\ \E p \in 1 .. Len(v) - 1 :
          w = [v EXCEPT ![p] = v[p + 1], ![p + 1] = v[p]]

Edit(v, w) == Substituted(v, w) \/ Inserted(v, w) \/ Inserted(w, v)

(* The words an edit leads to, without and with swaps of neighbours.       *)
Edits  == [w \in Word |-> {v \in Word : Edit(v, w)}]
Edits2 == [w \in Word |-> {v \in Word : Edit(v, w) \/ Swapped(v, w)}]

(* The words that m edits lead to.                                         *)
Levenshtein ==
    LET within[m \in 0 .. MaxLen] ==
            IF m = 0 THEN [w \in Word |-> {w}]
            ELSE [w \in Word |-> UNION {Edits[v] : v \in within[m - 1][w]}]
    IN  within
DamerauLevenshtein ==
    LET within[m \in 0 .. MaxLen] ==
            IF m = 0 THEN [w \in Word |-> {w}]
            ELSE [w \in Word |-> UNION {Edits2[v] : v \in within[m - 1][w]}]
    IN  within

(* The candidates within m edits of the input.                             *)
Within(m) == {c \in 1 .. n : request.candidates[c] \in DamerauLevenshtein[m][a]}

-----------------------------------------------------------------------------

(* Every cell of a full table is a distance of two prefixes: that many     *)
(* edits do turn one into the other, it is no more than without swaps, and *)
(* a single edit, a swap included, is seen as one.                         *)
CellsAreDistances ==
    pc = "fill" /\ ~ Filling =>
        \A c \in DOMAIN d :
            LET v == SubSeq(a, 1, c[1])
                w == SubSeq(b, 1, c[2])
            IN  /\ w \in DamerauLevenshtein[d[c]][v]
                /\ d[c] > 0 => w \notin Levenshtein[d[c] - 1][v]
                /\ w \in DamerauLevenshtein[1][v] => d[c] <= 1

(* What is suggested is within the bound, and a word one slip away from a  *)
(* candidate gets the first such candidate, unless it is itself one.       *)
SuggestsFirstOfTheClosest ==
    pc = "done" =>
        /\ best # 0 => best \in Within(request.maxDistance)
        /\ \A m \in {0, 1} :
              m <= request.maxDistance /\ Within(m) # {} /\ (m = 1 => Within(0) = {}) =>
                  best \in Within(m) /\ \A c \in Within(m) : best <= c

(* What suggest.h:7-10 says: the candidate closest by Damerau-Levenshtein  *)
(* distance, provided that distance is within the bound.                   *)
ClosestByDamerauLevenshtein ==
    pc = "done" =>
        \A m \in 0 .. request.maxDistance :
            Within(m) # {} => best # 0 /\ best \in Within(m)
=============================================================================
