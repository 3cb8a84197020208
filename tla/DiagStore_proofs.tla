-------------------------- MODULE DiagStore_proofs -------------------------
(***************************************************************************)
(* Every invariant of DiagStore holds for every max, every initial         *)
(* capacity and any number of pushes.  Then Position, the place in the     *)
(* text a stored diagnostic is printed with, for every text and span.      *)
(***************************************************************************)
EXTENDS DiagStore, Position, Facts, FiniteSetTheorems, SequenceTheorems

(* The properties of the run are inductive together, but for the report,   *)
(* which is right because the store is when it is made.                    *)
IInv ==
    /\ TypeOK
    /\ StoredIsPrefix
    /\ CountersExact
    /\ CapacityWithinMax
    /\ HeapOwnedByEntries
    /\ ReportAccountsForAll

-----------------------------------------------------------------------------
(* Lemmas.                                                                 *)

(* The positions of a severity in a sequence of entries.                   *)
Of(s, severity) == {i \in 1 .. Len(s) : s[i].severity = severity}

(* There are finitely many of them.                                        *)
LEMMA OfFinite ==
    ASSUME NEW s \in Seq(Entry), NEW severity
    PROVE  IsFiniteSet(Of(s, severity)) /\ Cardinality(Of(s, severity)) \in Nat
<1>1. IsFiniteSet(1 .. Len(s))
  BY FS_Interval
<1>2. IsFiniteSet(Of(s, severity))
  BY <1>1, FS_Subset DEF Of
<1> QED
  BY <1>2, FS_CardinalityType

(* Appending an entry adds one position to its severity.                   *)
LEMMA OfAppend ==
    ASSUME NEW s \in Seq(Entry), NEW e \in Entry, NEW severity
    PROVE  Cardinality(Of(Append(s, e), severity)) =
             Cardinality(Of(s, severity)) + (IF e.severity = severity THEN 1 ELSE 0)
<1>1. IsFiniteSet(Of(s, severity)) /\ Cardinality(Of(s, severity)) \in Nat
  BY OfFinite
<1>2. CASE e.severity = severity
  <2>1. Of(Append(s, e), severity) = Of(s, severity) \cup {Len(s) + 1}
    BY <1>2 DEF Of
  <2>2. Len(s) + 1 \notin Of(s, severity)
    BY DEF Of
  <2> QED
    BY <1>1, <1>2, <2>1, <2>2, FS_AddElement, ZenonT(60)
<1>3. CASE e.severity # severity
  <2>1. Of(Append(s, e), severity) = Of(s, severity)
    BY <1>3 DEF Of
  <2> QED
    BY <1>1, <1>3, <2>1
<1> QED
  BY <1>2, <1>3

(* A prefix has no more entries of a severity than the whole.              *)
LEMMA OfPrefix ==
    ASSUME NEW s \in Seq(Entry), NEW p \in Seq(Entry), NEW severity,
           Len(p) <= Len(s), \A i \in 1 .. Len(p) : p[i] = s[i]
    PROVE  Cardinality(Of(p, severity)) <= Cardinality(Of(s, severity))
<1>1. Of(p, severity) \subseteq Of(s, severity)
  BY DEF Of
<1> QED
  BY <1>1, OfFinite, FS_Subset

-----------------------------------------------------------------------------

(* The first state.                                                        *)
LEMMA InitIInv == Init => IInv
<1> SUFFICES ASSUME Init PROVE IInv
  OBVIOUS
<1>1. PICK max \in Maxes : diags = DiagsInit(max)
  BY DEF Init
<1>2. /\ diags \in Stores(Entry, Maxes) /\ max \in Nat
      /\ diags.entries = << >> /\ diags.cap = 0 /\ diags.max = max
      /\ diags.nerrs = 0 /\ diags.nwarnings = 0
  BY <1>1, MaxesAssumption, DiagsInitType DEF DiagsInit
<1>3. TypeOK
  BY <1>2 DEF Init, TypeOK, Stores, NoReport
<1>4. StoredIsPrefix /\ CapacityWithinMax /\ HeapOwnedByEntries /\ ReportAccountsForAll
  BY <1>2 DEF Init, StoredIsPrefix, CapacityWithinMax, HeapOwnedByEntries,
              ReportAccountsForAll
<1>5. \A severity : PushedOf(severity) = {}
  BY DEF Init, PushedOf
<1>6. CountersExact
  BY <1>2, <1>5, FS_EmptySet DEF CountersExact
<1> QED
  BY <1>3, <1>4, <1>6 DEF IInv

(* A push.                                                                 *)
LEMMA PushIInv ==
    ASSUME IInv, NEW entry \in Entry, Push(entry)
    PROVE  IInv'
<1> DEFINE slot == Len(pushed) + 1
<1>1. /\ diags \in Stores(Entry, Maxes) /\ Maxes \subseteq Nat
      /\ pushed \in Seq(Entry) /\ diags.entries \in Seq(Entry)
      /\ diags.max \in Nat /\ diags.cap \in Nat
      /\ phase = "open"
  BY MaxesAssumption DEF IInv, TypeOK, Push, Stores
<1>2. /\ diags' = DiagsPushImpl(diags, entry)
      /\ pushed' = Append(pushed, entry)
      /\ phase' = "open" /\ report' = report
  BY <1>1 DEF Push
<1>3. /\ diags' \in Stores(Entry, Maxes)
      /\ diags'.max = diags.max
      /\ diags'.nerrs = diags.nerrs + (IF entry.severity = "warning" THEN 0 ELSE 1)
      /\ diags'.nwarnings = diags.nwarnings + (IF entry.severity = "warning" THEN 1 ELSE 0)
  <2>1. /\ DiagsPushImpl(diags, entry) \in Stores(Entry, Maxes)
        /\ DiagsPushImpl(diags, entry).max = diags.max
        /\ DiagsPushImpl(diags, entry).nerrs =
             diags.nerrs + (IF entry.severity = "warning" THEN 0 ELSE 1)
        /\ DiagsPushImpl(diags, entry).nwarnings =
             diags.nwarnings + (IF entry.severity = "warning" THEN 1 ELSE 0)
    BY <1>1, DiagsPushType, ZenonT(60)
  <2> QED
    BY <1>2, <2>1, Zenon
<1>4. IF AtCapacity(diags)
      THEN diags'.entries = diags.entries /\ diags'.cap = diags.cap
      ELSE /\ diags'.entries = Append(diags.entries, entry)
           /\ diags'.cap = IF Len(diags.entries) = diags.cap THEN GrownCap(diags)
                                                             ELSE diags.cap
  BY <1>1, <1>2, DiagsPushEntries
<1>5. TypeOK'
  BY <1>1, <1>2, <1>3 DEF IInv, TypeOK, Stores
<1>6. /\ Len(diags.entries) = IF diags.max > 0 /\ diags.max < Len(pushed)
                              THEN diags.max ELSE Len(pushed)
      /\ \A i \in 1 .. Len(diags.entries) : diags.entries[i] = pushed[i]
  BY <1>1 DEF IInv, StoredIsPrefix
<1>7. StoredIsPrefix'
  <2>1. CASE AtCapacity(diags)
    BY <1>1, <1>2, <1>3, <1>4, <1>6, <2>1 DEF StoredIsPrefix, AtCapacity
  <2>2. CASE ~ AtCapacity(diags)
    <3>1. Len(diags.entries) = Len(pushed)
      BY <1>1, <1>6, <2>2 DEF AtCapacity
    <3>2. diags.max > 0 => Len(pushed) < diags.max
      BY <1>1, <3>1, <2>2 DEF AtCapacity
    <3> QED
      BY <1>1, <1>2, <1>3, <1>4, <1>6, <2>2, <3>1, <3>2, SMTT(30) DEF StoredIsPrefix
  <2> QED
    BY <2>1, <2>2
<1>8. CapacityWithinMax'
  <2>1. Len(diags.entries) <= diags.cap /\ (diags.max > 0 => diags.cap <= diags.max)
    BY DEF IInv, CapacityWithinMax
  <2>2. CASE AtCapacity(diags)
    BY <1>3, <1>4, <2>1, <2>2 DEF CapacityWithinMax
  <2>3. CASE ~ AtCapacity(diags) /\ Len(diags.entries) # diags.cap
    BY <1>1, <1>3, <1>4, <2>1, <2>3 DEF CapacityWithinMax
  <2>4. CASE ~ AtCapacity(diags) /\ Len(diags.entries) = diags.cap
    <3>1. /\ GrownCap(diags) \in Nat /\ GrownCap(diags) > diags.cap
          /\ diags.max > 0 => GrownCap(diags) <= diags.max
      BY <1>1, <2>4, GrownCapFits
    <3> QED
      BY <1>1, <1>3, <1>4, <2>4, <3>1 DEF CapacityWithinMax
  <2> QED
    BY <2>2, <2>3, <2>4
<1>9. CountersExact'
  <2>1. \A severity : PushedOf(severity) = Of(pushed, severity)
                      /\ PushedOf(severity)' = Of(Append(pushed, entry), severity)
    BY <1>2 DEF PushedOf, Of
  <2>2. \A severity : Cardinality(PushedOf(severity)') =
                        Cardinality(PushedOf(severity))
                        + (IF entry.severity = severity THEN 1 ELSE 0)
    BY <1>1, <2>1, OfAppend
  <2>3. \A severity : Cardinality(PushedOf(severity)) \in Nat
    BY <1>1, <2>1, OfFinite
  <2>4. entry.severity \in {"warning", "error"}
    BY DEF Entry, Severity
  <2> QED
    BY <1>3, <2>2, <2>3, <2>4 DEF IInv, CountersExact
<1>10. HeapOwnedByEntries'
  <2>1. heap = {Message(i) : i \in 1 .. Len(diags.entries)}
               \cup {Help(i) : i \in {j \in 1 .. Len(diags.entries) : diags.entries[j].help}}
    BY DEF IInv, HeapOwnedByEntries
  <2>2. CASE AtCapacity(diags)
    BY <1>4, <2>1, <2>2 DEF Push, HeapOwnedByEntries
  <2>3. CASE ~ AtCapacity(diags)
    <3>1. Len(diags.entries) = Len(pushed)
      BY <1>1, <1>6, <2>3 DEF AtCapacity
    <3>2. /\ 1 .. Len(diags'.entries) = 1 .. Len(diags.entries) \cup {slot}
          /\ slot \notin 1 .. Len(diags.entries)
      BY <1>1, <1>4, <2>3, <3>1
    <3>3. /\ \A i \in 1 .. Len(diags.entries) : diags'.entries[i] = diags.entries[i]
          /\ diags'.entries[slot] = entry
      BY <1>1, <1>4, <2>3, <3>1
    <3>4. heap' = heap \cup {Message(slot)} \cup (IF entry.help THEN {Help(slot)} ELSE {})
      BY <2>3 DEF Push
    <3>5. entry.help \in BOOLEAN
      BY DEF Entry
    <3>6. {j \in 1 .. Len(diags'.entries) : diags'.entries[j].help} =
            {j \in 1 .. Len(diags.entries) : diags.entries[j].help}
            \cup (IF entry.help THEN {slot} ELSE {})
      BY <3>2, <3>3, <3>5
    <3> HIDE DEF slot
    <3> QED
      BY <2>1, <3>2, <3>4, <3>6 DEF HeapOwnedByEntries
  <2> QED
    BY <2>2, <2>3
<1>11. ReportAccountsForAll'
  BY <1>2 DEF ReportAccountsForAll
<1> QED
  BY <1>5, <1>7, <1>8, <1>9, <1>10, <1>11 DEF IInv

(* The report of a store.                                                  *)
LEMMA ReportIInv ==
    ASSUME IInv, Report
    PROVE  IInv'
<1>1. /\ diags.entries \in Seq(Entry) /\ pushed \in Seq(Entry)
      /\ diags.nerrs \in Nat /\ diags.nwarnings \in Nat
      /\ diags.max \in Nat
      /\ phase = "open" /\ phase' = "reported"
      /\ diags' = diags /\ heap' = heap /\ pushed' = pushed
      /\ report' = DiagsReportAll(diags)
  BY MaxesAssumption DEF IInv, TypeOK, Report
<1>2. \A severity : /\ StoredCount(diags, severity) = Cardinality(Of(diags.entries, severity))
                    /\ PushedOf(severity) = Of(pushed, severity)
  BY DEF StoredCount, Of, PushedOf
<1>3. /\ Len(diags.entries) <= Len(pushed)
      /\ \A i \in 1 .. Len(diags.entries) : diags.entries[i] = pushed[i]
  BY <1>1 DEF IInv, StoredIsPrefix
<1>4. \A severity : /\ StoredCount(diags, severity) \in Nat
                    /\ StoredCount(diags, severity) <= Cardinality(PushedOf(severity))
                    /\ Cardinality(PushedOf(severity)) \in Nat
  BY <1>1, <1>2, <1>3, OfPrefix, OfFinite
<1>5. /\ diags.nerrs = Cardinality(PushedOf("error"))
      /\ diags.nwarnings = Cardinality(PushedOf("warning"))
  BY DEF IInv, CountersExact
<1>6. /\ Suppressed(diags.nerrs, StoredCount(diags, "error")) \in Nat
      /\ Suppressed(diags.nwarnings, StoredCount(diags, "warning")) \in Nat
      /\ StoredCount(diags, "error") + Suppressed(diags.nerrs, StoredCount(diags, "error"))
           = diags.nerrs
      /\ StoredCount(diags, "warning")
           + Suppressed(diags.nwarnings, StoredCount(diags, "warning")) = diags.nwarnings
  BY <1>1, <1>4, <1>5 DEF Suppressed
<1>7. /\ report'.printed = diags.entries
      /\ report'.suppressedErrs = Suppressed(diags.nerrs, StoredCount(diags, "error"))
      /\ report'.suppressedWarnings =
           Suppressed(diags.nwarnings, StoredCount(diags, "warning"))
      /\ report' \in [printed : Seq(Entry), suppressedErrs : Nat, suppressedWarnings : Nat]
  BY <1>1, <1>6 DEF DiagsReportAll
<1>8. TypeOK'
  BY <1>1, <1>7 DEF IInv, TypeOK
<1>9. ReportAccountsForAll'
  <2>1. \A severity : /\ PushedOf(severity)' = PushedOf(severity)
                      /\ {i \in 1 .. Len(report'.printed) :
                            report'.printed[i].severity = severity}
                           = Of(diags.entries, severity)
    BY <1>1, <1>7 DEF PushedOf, Of
  <2> QED
    BY <1>2, <1>5, <1>6, <1>7, <2>1 DEF ReportAccountsForAll, Severity
<1>10. (StoredIsPrefix /\ CountersExact /\ CapacityWithinMax /\ HeapOwnedByEntries)'
  BY <1>1 DEF IInv, StoredIsPrefix, CountersExact, CapacityWithinMax,
              HeapOwnedByEntries, PushedOf
<1> QED
  BY <1>8, <1>9, <1>10 DEF IInv

(* The end of a store.                                                     *)
LEMMA DiagsFreeIInv ==
    ASSUME IInv, DiagsFree
    PROVE  IInv'
<1>1. /\ diags \in Stores(Entry, Maxes)
      /\ diags.max \in Nat
      /\ phase = "reported" /\ phase' = "freed"
      /\ diags' = [diags EXCEPT !.entries = << >>, !.cap = 0]
      /\ pushed' = pushed /\ report' = report
  BY MaxesAssumption DEF IInv, TypeOK, DiagsFree, Stores
<1>2. /\ diags' \in Stores(Entry, Maxes)
      /\ diags'.entries = << >> /\ diags'.cap = 0 /\ diags'.max = diags.max
      /\ diags'.nerrs = diags.nerrs /\ diags'.nwarnings = diags.nwarnings
  <2>1. << >> \in Seq(Entry)
    OBVIOUS
  <2> QED
    BY <1>1, <2>1 DEF Stores
<1>3. TypeOK'
  BY <1>1, <1>2 DEF IInv, TypeOK, Stores
<1>4. heap' = {}
  BY DEF IInv, HeapOwnedByEntries, DiagsFree
<1>5. (StoredIsPrefix /\ CapacityWithinMax /\ HeapOwnedByEntries)'
  BY <1>1, <1>2, <1>4 DEF StoredIsPrefix, CapacityWithinMax, HeapOwnedByEntries
<1>6. (CountersExact /\ ReportAccountsForAll)'
  BY <1>1, <1>2 DEF IInv, CountersExact, ReportAccountsForAll, PushedOf
<1> QED
  BY <1>3, <1>5, <1>6 DEF IInv

(* Steps that leave the store alone.                                       *)
LEMMA IdleIInv ==
    ASSUME IInv, UNCHANGED <<diags, heap, report, pushed>>,
           phase' = phase \/ (phase = "open" /\ phase' = "exited")
    PROVE  IInv'
BY DEF IInv, TypeOK, StoredIsPrefix, CountersExact, CapacityWithinMax,
       HeapOwnedByEntries, ReportAccountsForAll, PushedOf

-----------------------------------------------------------------------------

(* The invariant of the store, whatever its max and whatever is pushed.    *)
THEOREM Invariance == Spec => []IInv
<1>1. Init => IInv
  BY InitIInv
<1>2. IInv /\ [Next]_vars => IInv'
  <2> SUFFICES ASSUME IInv, [Next]_vars PROVE IInv'
    OBVIOUS
  <2>1. ASSUME NEW entry \in Entry, Push(entry) PROVE IInv'
    BY <2>1, PushIInv
  <2>2. CASE OutOfMemory
    BY <2>2, IdleIInv DEF OutOfMemory
  <2>3. CASE Report
    BY <2>3, ReportIInv
  <2>4. CASE DiagsFree
    BY <2>4, DiagsFreeIInv
  <2>5. CASE UNCHANGED vars
    BY <2>5, IdleIInv DEF vars
  <2> QED
    BY <2>1, <2>2, <2>3, <2>4, <2>5 DEF Next
<1> QED
  BY <1>1, <1>2, PTL DEF Spec

(* Type correctness.                                                       *)
THEOREM TypeCorrect == Spec => []TypeOK
<1>1. IInv => TypeOK
  BY DEF IInv
<1> QED
  BY <1>1, Invariance, PTL

(* A full store keeps the first max diagnostics, in order.                 *)
THEOREM KeepsPrefix == Spec => []StoredIsPrefix
<1>1. IInv => StoredIsPrefix
  BY DEF IInv
<1> QED
  BY <1>1, Invariance, PTL

(* nerrs and nwarnings count every push, dropped ones included.            *)
THEOREM CountsAll == Spec => []CountersExact
<1>1. IInv => CountersExact
  BY DEF IInv
<1> QED
  BY <1>1, Invariance, PTL

(* entries[] is never overrun and its growth stays within max.             *)
THEOREM StaysWithinCapacity == Spec => []CapacityWithinMax
<1>1. IInv => CapacityWithinMax
  BY DEF IInv
<1> QED
  BY <1>1, Invariance, PTL

(* Every diagnostic is printed or counted as suppressed, exactly once.     *)
THEOREM ReportIsComplete == Spec => []ReportAccountsForAll
<1>1. IInv => ReportAccountsForAll
  BY DEF IInv
<1> QED
  BY <1>1, Invariance, PTL

(* The store leaks no block and holds none twice.                          *)
THEOREM OwnsItsBlocks == Spec => []HeapOwnedByEntries
<1>1. IInv => HeapOwnedByEntries
  BY DEF IInv
<1> QED
  BY <1>1, Invariance, PTL

-----------------------------------------------------------------------------
(* Where a diagnostic points to: Position, for every text and span.        *)

(* The index and the two ends of the line stay within the text.            *)
PlaceTypes ==
    /\ text \in Seq(Characters)
    /\ start \in 0 .. Len(text) /\ end \in start .. Len(text)
    /\ pc \in {"position", "lineStart", "lineEnd", "width", "print", "done"}
    /\ idx \in 0 .. start /\ (pc # "position" => idx = start)
    /\ line \in Nat \ {0} /\ col \in 1 .. idx + 1
    /\ lineStart \in 0 .. start /\ lineEnd \in start .. Len(text)
    /\ n \in Nat \ {0} /\ gutterWidth \in Nat \ {0}

(* What is before the beginning of a line, and within one.                 *)
Newlines(t, offset) == Cardinality({p \in 0 .. offset - 1 : t[p + 1] = Newline})
BeginsLine(t, offset) == offset = 0 \/ t[(offset - 1) + 1] = Newline
NoNewline(t, from, to) == \A p \in from .. to - 1 : t[p + 1] # Newline

(* What has been counted, and how far FindSourceLine has come.             *)
PlaceFound ==
    /\ line = 1 + Newlines(text, idx)
    /\ BeginsLine(text, idx - (col - 1)) /\ NoNewline(text, idx - (col - 1), idx)
    /\ NoNewline(text, lineStart, start) /\ NoNewline(text, start, lineEnd)
    /\ pc \in {"lineEnd", "width", "print", "done"} => BeginsLine(text, lineStart)
    /\ pc \in {"width", "print", "done"} => lineEnd = Len(text) \/ text[lineEnd + 1] = Newline

(* The line number is what is left of it and as many digits as were cut.   *)
Measures(m, left, width) ==
    /\ left * PowerOfTen[width - 1] <= m
    /\ m < (left + 1) * PowerOfTen[width - 1]

Measured ==
    /\ pc \in {"position", "lineStart", "lineEnd"} => gutterWidth = 1
    /\ pc \in {"width", "print", "done"} => Measures(line, n, gutterWidth)
    /\ pc \in {"print", "done"} => n < 10

Printed ==
    pc = "done" =>
        /\ sourceRow = Number(gutterWidth, line) \o Bar
                       \o SubSeq(text, lineStart + 1, StringEnd)
        /\ caretRow = Cells(gutterWidth, "blank") \o Bar
                      \o Cells(col - 1, "blank") \o Cells(Carets, "caret")

PlaceInv == PlaceTypes /\ PlaceFound /\ Measured /\ Printed

(* The newlines in front of an offset can be counted.                      *)
LEMMA NewlinesCounted ==
    ASSUME NEW t, NEW offset \in Nat
    PROVE  /\ Newlines(t, offset) \in Nat
           /\ Newlines(t, 0) = 0
           /\ Newlines(t, offset + 1) =
                 Newlines(t, offset) + (IF t[offset + 1] = Newline THEN 1 ELSE 0)
<1> DEFINE Found(o) == {p \in 0 .. o - 1 : t[p + 1] = Newline}
<1>1. IsFiniteSet(Found(offset))
  <2>1. IsFiniteSet(0 .. offset - 1)
    BY FS_Interval
  <2>2. Found(offset) \in SUBSET (0 .. offset - 1)
    OBVIOUS
  <2> HIDE DEF Found
  <2> QED
    BY <2>1, <2>2, FS_Subset
<1>2. Cardinality(Found(offset)) \in Nat
  BY <1>1, FS_CardinalityType
<1>3. Found(0) = {}
  OBVIOUS
<1>4. offset \notin Found(offset)
  OBVIOUS
<1>5. Found(offset + 1) = IF t[offset + 1] = Newline THEN Found(offset) \cup {offset}
                          ELSE Found(offset)
  <2>1. 0 .. (offset + 1) - 1 = (0 .. offset - 1) \cup {offset}
    OBVIOUS
  <2> QED
    BY <2>1
<1> HIDE DEF Found
<1>6. Cardinality(Found(offset + 1)) =
         Cardinality(Found(offset)) + (IF t[offset + 1] = Newline THEN 1 ELSE 0)
  <2>1. Cardinality(Found(offset) \cup {offset}) = Cardinality(Found(offset)) + 1
    BY <1>1, <1>4, FS_AddElement
  <2> QED
    BY <1>2, <1>5, <2>1
<1>7. Cardinality(Found(0)) = 0
  BY <1>3, FS_EmptySet
<1> QED
  BY <1>2, <1>6, <1>7 DEF Newlines, Found

(* Powers of ten.  They are defined by recursion over all numbers; that    *)
(* there is such a function takes those that go up to a bound.             *)
Powers(bound) ==
    {f \in [0 .. bound -> Nat \ {0}] : f[0] = 1 /\ \A k \in 1 .. bound : f[k] = 10 * f[k - 1]}

LEMMA PowersExist == \A bound \in Nat : \E f : f \in Powers(bound)
<1> SUFFICES ASSUME NEW bound \in Nat PROVE \E f : f \in Powers(bound)
  OBVIOUS
<1> DEFINE S == Nat \ {0}
           step == [x \in (0 .. bound) \X S |-> 10 * x[2]]
<1>1. 1 \in S /\ 0 \in Int /\ bound \in Int /\ 0 <= bound
  OBVIOUS
<1>2. step \in [(0 .. bound) \X S -> S]
  OBVIOUS
<1> HIDE DEF step
<1>3. PICK f \in [0 .. bound -> S] : Recursion(f, 1, step, 0, bound)
  BY <1>1, <1>2, RecursionExists
<1>4. ASSUME NEW k \in 1 .. bound PROVE f[k] = 10 * f[k - 1]
  <2>1. <<k, f[k - 1]>> \in (0 .. bound) \X S /\ k \in 0 + 1 .. bound
    OBVIOUS
  <2>2. f[k] = step[<<k, f[k - 1]>>]
    BY <1>3, <2>1 DEF Recursion
  <2> QED
    BY <2>1, <2>2 DEF step
<1> QED
  BY <1>3, <1>4 DEF Powers, Recursion

(* As far as two of them go they are the same.                             *)
LEMMA PowersAgree ==
    ASSUME NEW bound \in Nat, NEW f \in Powers(bound + 1), NEW g \in Powers(bound)
    PROVE  f[bound] = g[bound]
<1>1. StepsAlike(f, g, 0, bound)
  BY DEF StepsAlike, Powers
<1>2. Alike(f, g, 0, bound)
  BY <1>1, RecursionAgrees
<1> QED
  BY <1>2 DEF Alike

LEMMA PowerOfTenRecursion ==
    /\ PowerOfTen[0] = 1
    /\ \A k \in Nat : PowerOfTen[k] \in Nat \ {0} /\ PowerOfTen[k + 1] = 10 * PowerOfTen[k]
<1> DEFINE UpTo(m) == CHOOSE f : f \in Powers(m)
           all == [k \in Nat |-> UpTo(k)[k]]
           IsPower(f) == f = [k \in Nat |-> IF k = 0 THEN 1 ELSE 10 * f[k - 1]]
<1>1. ASSUME NEW k \in Nat PROVE UpTo(k) \in Powers(k)
  BY PowersExist
<1> HIDE DEF UpTo
<1>2. \A k \in Nat : all[k] = UpTo(k)[k]
  OBVIOUS
<1>3. ASSUME NEW k \in Nat PROVE all[k] \in Nat \ {0}
  BY <1>1, <1>2 DEF Powers
<1>4. ASSUME NEW k \in Nat PROVE all[k] = IF k = 0 THEN 1 ELSE 10 * all[k - 1]
  <2>1. CASE k = 0
    BY <1>1, <1>2, <2>1 DEF Powers
  <2>2. CASE k # 0
    <3> DEFINE below == k - 1
    <3>1. below \in Nat /\ below + 1 = k
      BY <2>2
    <3>2. UpTo(k) \in Powers(below + 1) /\ UpTo(below) \in Powers(below)
      BY <1>1, <3>1
    <3>3. UpTo(k)[below] = UpTo(below)[below]
      BY <3>1, <3>2, PowersAgree
    <3>4. UpTo(k)[k] = 10 * UpTo(k)[below]
      BY <1>1, <2>2 DEF Powers
    <3> HIDE DEF all
    <3>5. all[k] = 10 * all[below]
      BY <1>2, <3>1, <3>3, <3>4
    <3> QED
      BY <2>2, <3>5
  <2> QED
    BY <2>1, <2>2
<1>5. IsPower(all)
  <2>1. all = [k \in Nat |-> all[k]]
    OBVIOUS
  <2> HIDE DEF all
  <2> QED
    BY <1>4, <2>1
<1> HIDE DEF all
<1>6. PowerOfTen = CHOOSE f : IsPower(f)
  BY DEF PowerOfTen
<1>7. IsPower(PowerOfTen)
  <2> HIDE DEF IsPower
  <2> QED
    BY <1>5, <1>6, Zenon
<1>8. ASSUME NEW k \in Nat
      PROVE  PowerOfTen[k] = IF k = 0 THEN 1 ELSE 10 * PowerOfTen[k - 1]
  BY <1>7, Zenon
<1> HIDE DEF IsPower
<1>9. PowerOfTen[0] = 1
  BY <1>8
<1>10. ASSUME NEW k \in Nat PROVE PowerOfTen[k + 1] = 10 * PowerOfTen[k]
  <2>1. k + 1 \in Nat /\ k + 1 # 0 /\ (k + 1) - 1 = k
    OBVIOUS
  <2> QED
    BY <1>8, <2>1
<1> DEFINE S == {k \in Nat : PowerOfTen[k] \in Nat \ {0}}
<1>11. Nat \subseteq S
  <2>1. 0 \in S
    BY <1>9
  <2>2. \A k \in Nat : k \in S => k + 1 \in S
    BY <1>10
  <2> HIDE DEF S
  <2> QED
    BY <2>1, <2>2, Induction
<1> QED
  BY <1>9, <1>10, <1>11

(* A power of ten is more than its exponent, and a greater one greater.    *)
LEMMA PowersGrow ==
    ASSUME NEW k \in Nat, NEW j \in Nat
    PROVE  PowerOfTen[k] > k /\ PowerOfTen[k] <= PowerOfTen[k + j]
<1> DEFINE S == {m \in Nat : PowerOfTen[m] > m}
           T == {m \in Nat : PowerOfTen[k] <= PowerOfTen[k + m]}
<1>1. Nat \subseteq S
  <2>1. 0 \in S
    BY PowerOfTenRecursion
  <2>2. \A m \in Nat : m \in S => m + 1 \in S
    BY PowerOfTenRecursion
  <2> HIDE DEF S
  <2> QED
    BY <2>1, <2>2, Induction
<1>2. Nat \subseteq T
  <2>1. 0 \in T
    BY PowerOfTenRecursion
  <2>2. ASSUME NEW m \in Nat, m \in T PROVE m + 1 \in T
    <3>1. PowerOfTen[(k + m) + 1] = 10 * PowerOfTen[k + m] /\ PowerOfTen[k + m] \in Nat
      BY PowerOfTenRecursion
    <3>2. PowerOfTen[k] \in Nat /\ k + (m + 1) = (k + m) + 1
      BY PowerOfTenRecursion
    <3> QED
      BY <2>2, <3>1, <3>2
  <2> HIDE DEF T
  <2> QED
    BY <2>1, <2>2, Induction
<1> QED
  BY <1>1, <1>2

(* Cutting a digit off and widening by one measures the same number.       *)
LEMMA OneDigitMore ==
    ASSUME NEW m \in Nat, NEW left \in Nat \ {0}, NEW width \in Nat \ {0},
           left >= 10, Measures(m, left, width)
    PROVE  left \div 10 \in Nat \ {0} /\ Measures(m, left \div 10, width + 1)
<1> DEFINE power == PowerOfTen[width - 1]
           d == left \div 10
<1>1. /\ power \in Nat \ {0} /\ PowerOfTen[(width + 1) - 1] = 10 * power
      /\ left * power <= m /\ m < (left + 1) * power
  <2>1. width - 1 \in Nat /\ (width + 1) - 1 = (width - 1) + 1
    OBVIOUS
  <2> QED
    BY <2>1, PowerOfTenRecursion DEF Measures
<1>2. d \in Nat \ {0} /\ 10 * d <= left /\ left + 1 <= 10 * (d + 1)
  OBVIOUS
<1> HIDE DEF power, d
<1>3. ASSUME NEW a \in Nat, NEW b \in Nat, a <= b PROVE a * power <= b * power
  <2> DEFINE e == b - a
  <2>1. e \in Nat /\ b = a + e
    BY <1>3
  <2> HIDE DEF e
  <2>2. (a + e) * power = a * power + e * power /\ e * power >= 0
    BY <1>1, <2>1
  <2> QED
    BY <1>1, <2>1, <2>2
<1>4. (10 * d) * power <= left * power
  BY <1>2, <1>3
<1>5. (left + 1) * power <= (10 * (d + 1)) * power
  BY <1>2, <1>3
<1>6. (10 * d) * power = d * (10 * power) /\ (10 * (d + 1)) * power = (d + 1) * (10 * power)
  BY <1>1, <1>2
<1>7. d * (10 * power) <= m /\ m < (d + 1) * (10 * power)
  <2>1. /\ (10 * d) * power \in Int /\ left * power \in Int
        /\ (left + 1) * power \in Int /\ (10 * (d + 1)) * power \in Int
    BY <1>1, <1>2
  <2> QED
    BY <1>1, <1>4, <1>5, <1>6, <2>1
<1>8. Measures(m, d, width + 1)
  BY <1>1, <1>7 DEF Measures
<1> QED
  BY <1>2, <1>8 DEF d

(* The loop begins with the whole number.                                  *)
LEMMA NothingCut ==
    ASSUME NEW m \in Nat
    PROVE  Measures(m, m, 1)
BY PowerOfTenRecursion DEF Measures

(* Nothing has been counted in the beginning.                              *)
LEMMA PlaceInit ==
    ASSUME PositionInit
    PROVE  PlaceInv
<1>1. text \in Seq(Characters) /\ Len(text) \in Nat
  BY TextsAssumption, LenProperties DEF PositionInit
<1>2. PlaceTypes
  BY <1>1 DEF PositionInit, PlaceTypes
<1>3. PlaceFound
  <2>1. Newlines(text, 0) = 0
    BY NewlinesCounted
  <2> QED
    BY <1>1, <2>1 DEF PositionInit, PlaceFound, BeginsLine, NoNewline
<1>4. Measured /\ Printed
  BY DEF PositionInit, Measured, Printed
<1> QED
  BY <1>2, <1>3, <1>4 DEF PlaceInv

(* Every turn of the loops keeps what they have found.                     *)
LEMMA PlaceNext == PlaceInv /\ [PositionNext]_positionVars => PlaceInv'
<1> SUFFICES ASSUME PlaceInv, [PositionNext]_positionVars PROVE PlaceInv'
  OBVIOUS
<1>1. PlaceTypes /\ PlaceFound /\ Measured /\ Len(text) \in Nat
  BY LenProperties DEF PlaceInv, PlaceTypes
<1>2. /\ Newlines(text, idx) \in Nat
      /\ Newlines(text, idx + 1) =
            Newlines(text, idx) + (IF At(idx) = Newline THEN 1 ELSE 0)
  <2>1. idx \in Nat
    BY <1>1 DEF PlaceTypes
  <2> QED
    BY <2>1, NewlinesCounted DEF At
<1>3. ASSUME pc = "width", n >= 10
      PROVE  n \div 10 \in Nat \ {0} /\ Measures(line, n \div 10, gutterWidth + 1)
  <2>1. Measures(line, n, gutterWidth)
    BY <1>1, <1>3 DEF Measured
  <2> QED
    BY <1>1, <1>3, <2>1, OneDigitMore DEF PlaceTypes
<1>4. CASE CountNewline
  <2>1. PlaceTypes'
    BY <1>1, <1>4 DEF CountNewline, PlaceTypes, found, printed
  <2>2. text' = text /\ idx' = idx + 1 /\ line' = line + 1 /\ At(idx) = Newline
    BY <1>4 DEF CountNewline
  <2>3. line' = 1 + Newlines(text', idx')
    BY <1>1, <1>2, <2>2 DEF PlaceFound, At
  <2>4. PlaceFound'
    BY <1>1, <1>4, <2>3 DEF CountNewline, PlaceTypes, PlaceFound, BeginsLine, NoNewline, At,
       found, printed
  <2>5. Measured'
    BY <1>1, <1>4 DEF CountNewline, PlaceTypes, Measured, found, printed
  <2>6. Printed'
    BY <1>1, <1>4 DEF CountNewline, PlaceTypes, Printed
  <2> QED
    BY <2>1, <2>4, <2>5, <2>6 DEF PlaceInv
<1>5. CASE CountColumn
  <2>1. PlaceTypes'
    BY <1>1, <1>5 DEF CountColumn, PlaceTypes, found, printed
  <2>2. text' = text /\ idx' = idx + 1 /\ line' = line /\ At(idx) # Newline
    BY <1>5 DEF CountColumn
  <2>3. line' = 1 + Newlines(text', idx')
    BY <1>1, <1>2, <2>2 DEF PlaceFound, At
  <2>4. PlaceFound'
    BY <1>1, <1>5, <2>3 DEF CountColumn, PlaceTypes, PlaceFound, BeginsLine, NoNewline, At,
       found, printed
  <2>5. Measured'
    BY <1>1, <1>5 DEF CountColumn, PlaceTypes, Measured, found, printed
  <2>6. Printed'
    BY <1>1, <1>5 DEF CountColumn, PlaceTypes, Printed
  <2> QED
    BY <2>1, <2>4, <2>5, <2>6 DEF PlaceInv
<1>6. CASE EndPosition
  <2>1. PlaceTypes'
    BY <1>1, <1>6 DEF EndPosition, PlaceTypes, found, printed
  <2>2. text' = text /\ idx' = idx /\ line' = line
    BY <1>6 DEF EndPosition, found
  <2>3. line' = 1 + Newlines(text', idx')
    BY <1>1, <2>2 DEF PlaceFound
  <2>4. PlaceFound'
    BY <1>1, <1>6, <2>3 DEF EndPosition, PlaceTypes, PlaceFound, BeginsLine, NoNewline, At,
       found, printed
  <2>5. Measured'
    BY <1>1, <1>6 DEF EndPosition, PlaceTypes, Measured, found, printed
  <2>6. Printed'
    BY <1>1, <1>6 DEF EndPosition, PlaceTypes, Printed
  <2> QED
    BY <2>1, <2>4, <2>5, <2>6 DEF PlaceInv
<1>7. CASE MoveLineStart
  <2>1. PlaceTypes'
    BY <1>1, <1>7 DEF MoveLineStart, PlaceTypes, found, printed
  <2>2. text' = text /\ idx' = idx /\ line' = line
    BY <1>7 DEF MoveLineStart, found
  <2>3. line' = 1 + Newlines(text', idx')
    BY <1>1, <2>2 DEF PlaceFound
  <2>4. PlaceFound'
    BY <1>1, <1>7, <2>3 DEF MoveLineStart, PlaceTypes, PlaceFound, BeginsLine, NoNewline, At,
       found, printed
  <2>5. Measured'
    BY <1>1, <1>7 DEF MoveLineStart, PlaceTypes, Measured, found, printed
  <2>6. Printed'
    BY <1>1, <1>7 DEF MoveLineStart, PlaceTypes, Printed
  <2> QED
    BY <2>1, <2>4, <2>5, <2>6 DEF PlaceInv
<1>8. CASE MoveLineEnd
  <2>1. PlaceTypes'
    BY <1>1, <1>8 DEF MoveLineEnd, PlaceTypes, found, printed
  <2>2. text' = text /\ idx' = idx /\ line' = line
    BY <1>8 DEF MoveLineEnd, found
  <2>3. line' = 1 + Newlines(text', idx')
    BY <1>1, <2>2 DEF PlaceFound
  <2>4. PlaceFound'
    <3>1. CASE lineEnd < Len(text) /\ At(lineEnd) # Newline
      <4>1. lineEnd' = lineEnd + 1 /\ pc' = pc /\ pc = "lineEnd"
        BY <1>8, <3>1 DEF MoveLineEnd
      <4>2. NoNewline(text, start, lineEnd + 1)
        BY <1>1, <3>1 DEF PlaceTypes, PlaceFound, NoNewline, At
      <4> QED
        BY <1>1, <1>8, <2>3, <4>1, <4>2 DEF MoveLineEnd, PlaceFound, BeginsLine, NoNewline
    <3>2. CASE ~ (lineEnd < Len(text) /\ At(lineEnd) # Newline)
      <4>1. lineEnd' = lineEnd /\ pc' = "width" /\ pc = "lineEnd"
        BY <1>8, <3>2 DEF MoveLineEnd
      <4>2. lineEnd = Len(text) \/ text[lineEnd + 1] = Newline
        BY <1>1, <3>2 DEF PlaceTypes, At
      <4> QED
        BY <1>1, <1>8, <2>3, <4>1, <4>2 DEF MoveLineEnd, PlaceFound, BeginsLine, NoNewline
    <3> QED
      BY <3>1, <3>2
  <2>5. Measured'
    <3>1. Measures(line, line, 1)
      BY <1>1, NothingCut DEF PlaceTypes
    <3> QED
      BY <1>1, <1>8, <3>1 DEF MoveLineEnd, PlaceTypes, Measured
  <2>6. Printed'
    BY <1>1, <1>8 DEF MoveLineEnd, PlaceTypes, Printed
  <2> QED
    BY <2>1, <2>4, <2>5, <2>6 DEF PlaceInv
<1>9. CASE WidenGutter
  <2>1. PlaceTypes'
    BY <1>1, <1>9, <1>3 DEF WidenGutter, PlaceTypes, found, printed
  <2>2. text' = text /\ idx' = idx /\ line' = line
    BY <1>9 DEF WidenGutter, found
  <2>3. line' = 1 + Newlines(text', idx')
    BY <1>1, <2>2 DEF PlaceFound
  <2>4. PlaceFound'
    BY <1>1, <1>9, <2>3 DEF WidenGutter, PlaceTypes, PlaceFound, BeginsLine, NoNewline, At,
       found, printed
  <2>5. Measured'
    BY <1>1, <1>3, <1>9 DEF WidenGutter, PlaceTypes, Measured, found
  <2>6. Printed'
    BY <1>1, <1>9 DEF WidenGutter, PlaceTypes, Printed
  <2> QED
    BY <2>1, <2>4, <2>5, <2>6 DEF PlaceInv
<1>10. CASE PrintPositioned
  <2>1. PlaceTypes'
    BY <1>1, <1>10 DEF PrintPositioned, PlaceTypes, found, printed
  <2>2. text' = text /\ idx' = idx /\ line' = line
    BY <1>10 DEF PrintPositioned, found
  <2>3. line' = 1 + Newlines(text', idx')
    BY <1>1, <2>2 DEF PlaceFound
  <2>4. PlaceFound'
    BY <1>1, <1>10, <2>3 DEF PrintPositioned, PlaceTypes, PlaceFound, BeginsLine, NoNewline, At,
       found, printed
  <2>5. Measured'
    BY <1>1, <1>10 DEF PrintPositioned, PlaceTypes, Measured, found, printed
  <2>6. Printed'
    BY <1>10 DEF PrintPositioned, Printed, Carets, SpanLength, Number, StringEnd, Limit, At, found
  <2> QED
    BY <2>1, <2>4, <2>5, <2>6 DEF PlaceInv
<1>11. CASE UNCHANGED positionVars
  <2>1. PlaceTypes'
    BY <1>1, <1>11 DEF positionVars, PlaceTypes, found, printed
  <2>2. text' = text /\ idx' = idx /\ line' = line
    BY <1>11 DEF positionVars, found
  <2>3. line' = 1 + Newlines(text', idx')
    BY <1>1, <2>2 DEF PlaceFound
  <2>4. PlaceFound'
    BY <1>1, <1>11, <2>3 DEF positionVars, PlaceTypes, PlaceFound, BeginsLine, NoNewline, At,
       found, printed
  <2>5. Measured'
    BY <1>1, <1>11 DEF positionVars, Measured, found, printed
  <2>6. Printed'
    BY <1>11 DEF positionVars, PlaceInv, Printed, Carets, SpanLength, StringEnd, Limit, At,
       found, printed
  <2> QED
    BY <2>1, <2>4, <2>5, <2>6 DEF PlaceInv
<1> QED
  BY <1>4, <1>5, <1>6, <1>7, <1>8, <1>9, <1>10, <1>11 DEF PositionNext

(* What the loops have found when both have ended.                         *)
LEMMA LinesAgree ==
    ASSUME PlaceTypes, PlaceFound, pc \in {"print", "done"}
    PROVE  /\ line = 1 + NewlinesBefore(start)
           /\ line = 1 + NewlinesBefore(lineStart)
           /\ col = 1 + start - lineStart
           /\ \A p \in lineStart .. lineEnd - 1 : At(p) # Newline
           /\ lineEnd = Len(text) \/ At(lineEnd) = Newline
<1>1. /\ start \in Nat /\ idx = start /\ lineStart \in 0 .. start /\ lineEnd \in Int
      /\ col \in 1 .. start + 1
  BY LenProperties DEF PlaceTypes
<1> DEFINE begin == start - (col - 1)
<1>2. /\ begin \in 0 .. start
      /\ BeginsLine(text, begin) /\ NoNewline(text, begin, start)
      /\ BeginsLine(text, lineStart) /\ NoNewline(text, lineStart, start) /\ NoNewline(text,
         start, lineEnd)
  BY <1>1 DEF PlaceFound
<1> HIDE DEF begin
<1>3. begin = lineStart
  <2>1. ~ begin < lineStart
    BY <1>1, <1>2 DEF BeginsLine, NoNewline
  <2>2. ~ lineStart < begin
    BY <1>1, <1>2 DEF BeginsLine, NoNewline
  <2> QED
    BY <1>1, <1>2, <2>1, <2>2
<1>4. col = 1 + start - lineStart
  BY <1>1, <1>3 DEF begin
<1>5. NewlinesBefore(start) = NewlinesBefore(lineStart)
  <2>1. {p \in 0 .. start - 1 : At(p) = Newline} = {p \in 0 .. lineStart - 1 :
     At(p) = Newline}
    BY <1>1, <1>2 DEF NoNewline, At
  <2> QED
    BY <2>1 DEF NewlinesBefore
<1>6. \A p \in lineStart .. lineEnd - 1 : At(p) # Newline
  BY <1>1, <1>2 DEF NoNewline, At
<1>7. line = 1 + NewlinesBefore(start)
  BY <1>1 DEF PlaceFound, Newlines, NewlinesBefore, At
<1>8. lineEnd = Len(text) \/ At(lineEnd) = Newline
  BY DEF PlaceFound, At
<1> QED
  BY <1>4, <1>5, <1>6, <1>7, <1>8

(* However the lines of the text lie, counting from its beginning and      *)
(* looking around the offset find the same line.                           *)
THEOREM LocatesTheLine == PositionSpec => []LocatesOneLine
<1>1. PlaceInv => LocatesOneLine
  BY LinesAgree DEF PlaceInv, LocatesOneLine
<1>2. PositionInit => PlaceInv
  BY PlaceInit
<1> QED
  BY <1>1, <1>2, PlaceNext, PTL DEF PositionSpec

-----------------------------------------------------------------------------
(* What printf writes.                                                     *)

(* The number has as many digits as the loop has counted.                  *)
LEMMA DigitsMeasured ==
    ASSUME NEW m \in Nat \ {0}, NEW left \in Nat \ {0}, NEW width \in Nat \ {0},
           left < 10, Measures(m, left, width)
    PROVE  Digits(m) = width
<1> DEFINE IsDigits(k) == m < PowerOfTen[k] /\ PowerOfTen[k - 1] <= m
           power == PowerOfTen[width - 1]
<1>1. /\ power \in Nat \ {0} /\ PowerOfTen[width] = 10 * power
      /\ left * power <= m /\ m < (left + 1) * power
  <2>1. width - 1 \in Nat /\ (width - 1) + 1 = width
    OBVIOUS
  <2> QED
    BY <2>1, PowerOfTenRecursion DEF Measures
<1>2. power <= left * power /\ (left + 1) * power <= 10 * power
  <2> HIDE DEF power
  <2>1. left \in 1 .. 9
    OBVIOUS
  <2>2. left \in {1, 2, 3, 4, 5, 6, 7, 8, 9}
    BY <2>1
  <2> QED
    BY <1>1, <2>2
<1>3. IsDigits(width)
  <2>1. left * power \in Int /\ (left + 1) * power \in Int
    BY <1>1
  <2> HIDE DEF power
  <2>2. power <= m /\ m < 10 * power
    BY <1>1, <1>2, <2>1
  <2> QED
    BY <1>1, <2>2 DEF power
<1>4. width \in 1 .. m
  <2> DEFINE below == width - 1
  <2>1. below \in Nat /\ 0 \in Nat
    OBVIOUS
  <2>2. PowerOfTen[below] > below /\ PowerOfTen[below] \in Nat
    BY <2>1, PowersGrow, PowerOfTenRecursion
  <2> QED
    BY <1>3, <2>2
<1>5. ASSUME NEW k \in 1 .. m, IsDigits(k) PROVE k = width
  <2>1. ASSUME NEW a \in Nat, NEW b \in Nat, a < b, m < PowerOfTen[a], PowerOfTen[b - 1] <= m
        PROVE  FALSE
    <3> DEFINE j == (b - 1) - a
    <3>1. j \in Nat /\ a + j = b - 1
      BY <2>1
    <3> HIDE DEF j
    <3>2. PowerOfTen[a] <= PowerOfTen[a + j]
      BY <3>1, PowersGrow
    <3>3. PowerOfTen[a] <= PowerOfTen[b - 1]
      BY <3>1, <3>2
    <3>4. PowerOfTen[a] \in Nat /\ PowerOfTen[b - 1] \in Nat
      BY <3>1, PowerOfTenRecursion
    <3> QED
      BY <2>1, <3>3, <3>4
  <2>2. ~ k < width
    BY <1>3, <1>5, <2>1
  <2>3. ~ width < k
    BY <1>3, <1>5, <2>1
  <2> QED
    BY <2>2, <2>3
<1>6. Digits(m) = CHOOSE k \in 1 .. m : IsDigits(k)
  BY DEF Digits
<1> HIDE DEF IsDigits
<1> QED
  BY <1>3, <1>4, <1>5, <1>6

(* A string ends somewhere, with no NUL before.                            *)
LEMMA StringEnds ==
    ASSUME PlaceTypes
    PROVE  /\ Limit \in lineEnd .. Len(text) /\ StringEnd \in lineStart .. Limit
           /\ StringEnd = Limit \/ At(StringEnd) = Nul
<1>1. /\ lineStart \in Nat /\ lineEnd \in Nat /\ Len(text) \in Nat /\ MaxInt \in Nat
      /\ lineStart <= lineEnd /\ lineEnd <= Len(text)
  BY TextsAssumption, LenProperties DEF PlaceTypes
<1>2. Limit \in lineEnd .. Len(text)
  BY <1>1 DEF Limit
<1> DEFINE limit == Limit
           Ends(e) == limit = e \/ At(e) = Nul
           All == {e \in lineStart .. limit : Ends(e)}
<1>3. limit \in All /\ All \in SUBSET Nat
  BY <1>1, <1>2
<1> HIDE DEF Ends, limit
<1>4. PICK e \in All : \A f \in All : e <= f
  BY <1>3, LeastNumber
<1>5. ASSUME NEW p \in lineStart .. e - 1 PROVE At(p) # Nul
  <2>1. p \in lineStart .. limit /\ ~ e <= p
    BY <1>1, <1>3, <1>4
  <2>2. ~ Ends(p)
    BY <1>4, <2>1
  <2> QED
    BY <2>2 DEF Ends
<1>6. /\ StringEnd \in lineStart .. limit
      /\ StringEnd = limit \/ At(StringEnd) = Nul
  <2>1. e \in lineStart .. limit /\ (e = limit \/ At(e) = Nul)
    BY <1>4 DEF Ends
  <2> QED
    BY <1>5, <2>1 DEF StringEnd, limit
<1> QED
  BY <1>2, <1>6 DEF limit

-----------------------------------------------------------------------------
(* The two rows.                                                           *)

Printable == Characters \cup Layout

(* Cells alike.                                                            *)
LEMMA CellsRow ==
    ASSUME NEW m \in Nat, NEW what \in Printable
    PROVE  /\ Cells(m, what) \in Seq(Printable) /\ Len(Cells(m, what)) = m
           /\ \A c \in 1 .. m : Cells(m, what)[c] = what
<1>1. Cells(m, what) \in [1 .. m -> Printable]
  BY DEF Cells
<1>2. Cells(m, what) \in Seq(Printable)
  BY <1>1, IsASeq
<1>3. Len(Cells(m, what)) = m
  <2>1. DOMAIN Cells(m, what) = 1 .. m
    BY <1>1
  <2> QED
    BY <1>2, <2>1, LenProperties
<1> QED
  BY <1>2, <1>3 DEF Cells

(* Two rows and their lengths, and what one row of both is.                *)
Rows(r, t, m, l) ==
    /\ r \in Seq(Printable) /\ t \in Seq(Printable)
    /\ m \in Nat /\ l \in Nat /\ Len(r) = m /\ Len(t) = l

OneRow(r, t, m, l, row) ==
    /\ row \in Seq(Printable) /\ Len(row) = m + l
    /\ \A c \in 1 .. m : row[c] = r[c]
    /\ \A c \in 1 .. l : row[m + c] = t[c]

(* One behind the other they are that.                                     *)
LEMMA RowsInRow ==
    ASSUME NEW r, NEW t, NEW m, NEW l, Rows(r, t, m, l)
    PROVE  OneRow(r, t, m, l, r \o t)
<1> DEFINE row == r \o t
<1>0. /\ r \in Seq(Printable) /\ t \in Seq(Printable)
      /\ m \in Nat /\ l \in Nat /\ Len(r) = m /\ Len(t) = l
  BY DEF Rows
<1>1. /\ r \o t \in Seq(Printable) /\ Len(r \o t) = Len(r) + Len(t)
      /\ \A c \in 1 .. Len(r) + Len(t) :
            (r \o t)[c] = IF c <= Len(r) THEN r[c] ELSE t[c - Len(r)]
  BY <1>0, ConcatProperties
<1>2. /\ row \in Seq(Printable) /\ Len(row) = m + l
      /\ \A c \in 1 .. m + l : row[c] = IF c <= m THEN r[c] ELSE t[c - m]
  BY <1>0, <1>1
<1> HIDE DEF row
<1>3. ASSUME NEW c \in 1 .. l PROVE row[m + c] = t[c]
  <2>1. m + c \in 1 .. m + l /\ ~ m + c <= m /\ (m + c) - m = c
    BY <1>0
  <2> QED
    BY <1>2, <2>1
<1>4. ASSUME NEW c \in 1 .. m PROVE row[c] = r[c]
  BY <1>0, <1>2
<1>5. OneRow(r, t, m, l, row)
  BY <1>2, <1>3, <1>4 DEF OneRow
<1> QED
  BY <1>5 DEF row

(* The bar of the gutter.                                                  *)
LEMMA BarRow ==
    /\ Bar \in Seq(Printable) /\ Len(Bar) = 3
    /\ \A c \in 1 .. 3 : Bar[c] \in {"blank", "bar"} /\ (Bar[c] = "bar" <=> c = 2)
<1>1. "blank" \in Printable /\ "bar" \in Printable
  BY DEF Printable, Layout
<1>2. Bar = <<"blank", "bar", "blank">>
  BY DEF Bar
<1>3. Bar \in Seq(Printable) /\ Len(Bar) = 3
  BY <1>1, <1>2
<1>4. Bar[1] = "blank" /\ Bar[2] = "bar" /\ Bar[3] = "blank"
  BY <1>2
<1> QED
  BY <1>3, <1>4

(* A gutter of width g: blanks and digits, then the bar.                   *)
Gutter(row, g) ==
    /\ row \in Seq(Printable) /\ Len(row) = g + 3
    /\ \A c \in 1 .. g + 3 :
          row[c] \in {"blank", "digit", "bar"} /\ (row[c] = "bar" <=> c = g + 2)

LEMMA GutterCells ==
    ASSUME NEW g \in Nat, NEW number \in Seq(Printable), Len(number) = g,
           \A c \in 1 .. g : number[c] \in {"blank", "digit"}
    PROVE  Gutter(number \o Bar, g)
<1> DEFINE row == number \o Bar
<1>1. Rows(number, Bar, g, 3)
  BY BarRow DEF Rows
<1>2. OneRow(number, Bar, g, 3, row)
  BY <1>1, RowsInRow, Zenon
<1> HIDE DEF row
<1>3. ASSUME NEW c \in 1 .. g + 3
      PROVE  row[c] \in {"blank", "digit", "bar"} /\ (row[c] = "bar" <=> c = g + 2)
  <2>1. CASE c \in 1 .. g
    <3>1. row[c] = number[c] /\ number[c] \in {"blank", "digit"} /\ c # g + 2
      BY <1>2, <2>1 DEF OneRow
    <3> QED
      BY <3>1
  <2>2. CASE c \notin 1 .. g
    <3>1. c - g \in 1 .. 3 /\ g + (c - g) = c /\ (c - g = 2 <=> c = g + 2)
      BY <2>2
    <3>2. row[c] = Bar[c - g]
      BY <1>2, <3>1 DEF OneRow
    <3> QED
      BY <3>1, <3>2, BarRow
  <2> QED
    BY <2>1, <2>2
<1>4. Gutter(row, g)
  BY <1>2, <1>3 DEF OneRow, Gutter
<1> QED
  BY <1>4 DEF row

(* The row with the carets: they are at its end and nowhere else in it.    *)
CaretsBehind(row, before, z) ==
    /\ row \in Seq(Printable) /\ Len(row) = before + z
    /\ \A c \in 1 .. before + z : row[c] \in Layout /\ (row[c] = "caret" <=> c > before)

LEMMA CaretCells ==
    ASSUME NEW g \in Nat, NEW q \in Nat, NEW z \in Nat, NEW row,
           row = Cells(g, "blank") \o Bar \o Cells(q, "blank") \o Cells(z, "caret")
    PROVE  CaretsBehind(row, g + 3 + q, z)
<1> DEFINE blanks == Cells(g, "blank")
           indent == Cells(q, "blank")
           carets == Cells(z, "caret")
           margin == blanks \o Bar
           before == margin \o indent
           x == g + 3
           y == x + q
<1>0. "blank" \in Printable /\ "caret" \in Printable /\ "blank" # "caret"
  BY DEF Printable, Layout
<1>1. /\ blanks \in Seq(Printable) /\ Len(blanks) = g
      /\ \A c \in 1 .. g : blanks[c] = "blank"
  BY <1>0, CellsRow
<1>2. /\ indent \in Seq(Printable) /\ Len(indent) = q
      /\ \A c \in 1 .. q : indent[c] = "blank"
  BY <1>0, CellsRow
<1>3. /\ carets \in Seq(Printable) /\ Len(carets) = z
      /\ \A c \in 1 .. z : carets[c] = "caret"
  BY <1>0, CellsRow
<1>4. row = before \o carets /\ margin = blanks \o Bar /\ before = margin \o indent
  OBVIOUS
<1>5. x \in Nat /\ y \in Nat /\ x = g + 3 /\ y = x + q
  OBVIOUS
<1> HIDE DEF blanks, indent, carets, margin, before, x, y
<1>6. Gutter(margin, g)
  <2>1. \A c \in 1 .. g : blanks[c] \in {"blank", "digit"}
    BY <1>1
  <2>2. Gutter(blanks \o Bar, g)
    BY <1>1, <2>1, GutterCells
  <2> QED
    BY <1>4, <2>2, Zenon
<1>7. OneRow(margin, indent, x, q, before)
  <2>1. Rows(margin, indent, x, q)
    BY <1>2, <1>5, <1>6 DEF Rows, Gutter
  <2> QED
    BY <1>4, <2>1, RowsInRow, Zenon
<1>8. ASSUME NEW c \in 1 .. y PROVE before[c] \in Layout /\ before[c] # "caret"
  <2>1. CASE c \in 1 .. x
    <3>1. before[c] = margin[c] /\ margin[c] \in {"blank", "digit", "bar"}
      BY <1>5, <1>6, <1>7, <2>1 DEF OneRow, Gutter
    <3> QED
      BY <3>1 DEF Layout
  <2>2. CASE c \notin 1 .. x
    <3>1. c - x \in 1 .. q /\ x + (c - x) = c
      BY <1>5, <2>2
    <3>2. before[c] = indent[c - x]
      BY <1>7, <3>1 DEF OneRow
    <3> QED
      BY <1>2, <3>1, <3>2 DEF Layout
  <2> QED
    BY <2>1, <2>2
<1>9. OneRow(before, carets, y, z, row)
  <2>1. Rows(before, carets, y, z)
    BY <1>3, <1>5, <1>7 DEF Rows, OneRow
  <2> QED
    BY <1>4, <2>1, RowsInRow, Zenon
<1>10. ASSUME NEW c \in 1 .. y + z
       PROVE  row[c] \in Layout /\ (row[c] = "caret" <=> c > y)
  <2>1. CASE c \in 1 .. y
    <3>1. ~ c > y /\ row[c] = before[c]
      BY <1>5, <1>9, <2>1 DEF OneRow
    <3> QED
      BY <1>8, <2>1, <3>1
  <2>2. CASE c \notin 1 .. y
    <3>1. c - y \in 1 .. z /\ y + (c - y) = c /\ c > y
      BY <1>5, <2>2
    <3>2. row[c] = carets[c - y]
      BY <1>9, <3>1 DEF OneRow
    <3> QED
      BY <1>3, <3>1, <3>2 DEF Layout
  <2> QED
    BY <2>1, <2>2
<1>11. CaretsBehind(row, y, z)
  BY <1>5, <1>9, <1>10 DEF CaretsBehind, OneRow
<1> QED
  BY <1>11 DEF x, y

(* The row with the source line, behind its gutter.                        *)
SourceBehind(row, g, s) ==
    /\ row \in Seq(Printable) /\ Len(row) = g + 3 + Len(s)
    /\ \A c \in 1 .. g + 3 : row[c] \in Layout /\ (row[c] = "bar" <=> c = g + 2)
    /\ \A p \in 1 .. Len(s) : row[g + 3 + p] = s[p]

LEMMA SourceCells ==
    ASSUME NEW m \in Nat, NEW g \in Nat, Digits(m) = g, NEW s \in Seq(Characters), NEW row,
           row = Number(g, m) \o Bar \o s
    PROVE  SourceBehind(row, g, s)
<1> DEFINE padding == Cells(0, "blank")
           digits == Cells(g, "digit")
           number == Number(g, m)
           margin == number \o Bar
           x == g + 3
<1>2. number = padding \o digits
  <2>1. Number(g, m) = Cells(IF g > g THEN g - g ELSE 0, "blank") \o Cells(g, "digit")
    BY Zenon DEF Number
  <2>2. (IF g > g THEN g - g ELSE 0) = 0
    OBVIOUS
  <2> QED
    BY <2>1, <2>2, Zenon
<1>3. row = margin \o s /\ margin = number \o Bar /\ x = g + 3 /\ x \in Nat
  OBVIOUS
<1>4. "blank" \in Printable /\ "digit" \in Printable
  BY DEF Printable, Layout
<1>5. /\ padding \in Seq(Printable) /\ Len(padding) = 0
      /\ digits \in Seq(Printable) /\ Len(digits) = g
      /\ \A c \in 1 .. g : digits[c] = "digit"
  BY <1>4, CellsRow
<1> HIDE DEF padding, digits, number, margin
<1>6. OneRow(padding, digits, 0, g, number)
  <2>1. Rows(padding, digits, 0, g)
    BY <1>5 DEF Rows
  <2> QED
    BY <1>2, <2>1, RowsInRow, Zenon
<1>7. /\ number \in Seq(Printable) /\ Len(number) = g
      /\ \A c \in 1 .. g : number[c] \in {"blank", "digit"}
  <2>1. ASSUME NEW c \in 1 .. g PROVE number[c] = "digit"
    <3>1. number[0 + c] = digits[c] /\ 0 + c = c
      BY <1>6 DEF OneRow
    <3> QED
      BY <1>5, <3>1
  <2>2. number \in Seq(Printable) /\ Len(number) = 0 + g
    BY <1>6 DEF OneRow
  <2> QED
    BY <2>1, <2>2
<1>8. Gutter(margin, g)
  <2>1. Gutter(number \o Bar, g)
    BY <1>7, GutterCells
  <2> QED
    BY <1>3, <2>1, Zenon
<1>9. s \in Seq(Printable) /\ Len(s) \in Nat
  <2>1. Characters \subseteq Printable
    BY DEF Printable
  <2> QED
    BY <2>1, LenProperties
<1> HIDE DEF x
<1>10. OneRow(margin, s, x, Len(s), row)
  <2>1. Rows(margin, s, x, Len(s))
    BY <1>3, <1>8, <1>9 DEF Rows, Gutter
  <2> QED
    BY <1>3, <2>1, RowsInRow, Zenon
<1>11. ASSUME NEW c \in 1 .. x PROVE row[c] \in Layout /\ (row[c] = "bar" <=> c = g + 2)
  <2>1. row[c] = margin[c]
    BY <1>10 DEF OneRow
  <2>2. margin[c] \in {"blank", "digit", "bar"} /\ (margin[c] = "bar" <=> c = g + 2)
    BY <1>3, <1>8 DEF Gutter
  <2> QED
    BY <2>1, <2>2 DEF Layout
<1>12. SourceBehind(row, x - 3, s)
  <2>1. x - 3 = g /\ g + 3 = x
    BY <1>3
  <2> QED
    BY <1>10, <1>11, <2>1 DEF SourceBehind, OneRow
<1> QED
  BY <1>3, <1>12

-----------------------------------------------------------------------------
(* The screen.                                                             *)

IsColumns(f, row, m) ==
    f = [c \in 0 .. m |-> IF c = 0 THEN 0 ELSE Behind(f[c - 1], row[c])]

(* However the terminal goes on behind a character, there are columns for  *)
(* every cell of a row.                                                    *)
LEMMA ColumnsRecursion ==
    ASSUME NEW row \in Seq(Printable)
    PROVE  /\ Columns(row)[0] = 0
           /\ \A c \in 1 .. Len(row) : Columns(row)[c] = Behind(Columns(row)[c - 1], row[c])
<1> DEFINE S == {m \in Nat : \E f : IsColumns(f, row, m)}
<1>1. 0 \in S
  <2> DEFINE f == [c \in 0 .. 0 |-> 0]
  <2>1. IsColumns(f, row, 0)
    <3>1. f = [c \in 0 .. 0 |-> IF c = 0 THEN 0 ELSE Behind(f[c - 1], row[c])]
      <4>1. \A c \in 0 .. 0 : c = 0
        OBVIOUS
      <4> QED
        BY <4>1
    <3> HIDE DEF f
    <3> QED
      BY <3>1 DEF IsColumns
  <2> QED
    BY <2>1
<1>2. ASSUME NEW m \in Nat, m \in S PROVE m + 1 \in S
  <2>1. PICK f : IsColumns(f, row, m)
    BY <1>2
  <2> DEFINE next == m + 1
             last == Behind(f[m], row[next])
             g == [c \in 0 .. next |-> IF c <= m THEN f[c] ELSE last]
  <2>2. ASSUME NEW c \in 0 .. m PROVE f[c] = IF c = 0 THEN 0 ELSE Behind(f[c - 1], row[c])
    <3> HIDE DEF g
    <3> DEFINE h == [d \in 0 .. m |-> IF d = 0 THEN 0 ELSE Behind(f[d - 1], row[d])]
    <3>1. f = h
      BY <2>1, Zenon DEF IsColumns
    <3>2. h[c] = IF c = 0 THEN 0 ELSE Behind(f[c - 1], row[c])
      OBVIOUS
    <3> HIDE DEF h
    <3> QED
      BY <3>1, <3>2, Zenon
  <2>3. next \in Nat /\ next = m + 1
    OBVIOUS
  <2> HIDE DEF last, next
  <2>4. ASSUME NEW c \in 0 .. next PROVE g[c] = IF c = 0 THEN 0 ELSE Behind(g[c - 1], row[c])
    <3>1. CASE c = 0
      BY <2>2, <2>3, <3>1
    <3>2. CASE c # 0 /\ c <= m
      <4>1. c \in 0 .. m /\ c - 1 \in 0 .. next /\ c - 1 <= m
        BY <2>3, <3>2
      <4>2. g[c] = f[c] /\ g[c - 1] = f[c - 1]
        BY <3>2, <4>1
      <4> HIDE DEF g
      <4> QED
        BY <2>2, <3>2, <4>1, <4>2
    <3>3. CASE c = next
      <4>1. c - 1 = m /\ m \in 0 .. next /\ ~ c <= m /\ c # 0
        BY <2>3, <3>3
      <4>2. g[c] = last /\ g[c - 1] = f[m]
        BY <3>3, <4>1
      <4> HIDE DEF g
      <4> QED
        BY <3>3, <4>1, <4>2 DEF last
    <3> QED
      BY <2>3, <3>1, <3>2, <3>3
  <2>5. g = [c \in 0 .. next |-> g[c]]
    OBVIOUS
  <2> HIDE DEF g
  <2>6. IsColumns(g, row, next)
    BY <2>4, <2>5 DEF IsColumns
  <2> QED
    BY <2>3, <2>6
<1> HIDE DEF S
<1>3. Nat \subseteq S
  BY <1>1, <1>2, Induction
<1> DEFINE length == Len(row)
           columns == Columns(row)
<1>4. length \in Nat
  BY LenProperties
<1>5. columns = CHOOSE f : IsColumns(f, row, length)
  BY DEF Columns, IsColumns
<1>6. \E f : IsColumns(f, row, length)
  <2>1. length \in S
    BY <1>3, <1>4
  <2> QED
    BY <2>1 DEF S
<1> HIDE DEF columns, length
<1>7. IsColumns(columns, row, length)
  BY <1>5, <1>6, Zenon
<1>8. ASSUME NEW c \in 0 .. length
      PROVE  columns[c] = IF c = 0 THEN 0 ELSE Behind(columns[c - 1], row[c])
  <2> DEFINE h == [d \in 0 .. length |->
                      IF d = 0 THEN 0 ELSE Behind(columns[d - 1], row[d])]
  <2>1. columns = h
    BY <1>7, Zenon DEF IsColumns
  <2>2. h[c] = IF c = 0 THEN 0 ELSE Behind(columns[c - 1], row[c])
    OBVIOUS
  <2> HIDE DEF h
  <2> QED
    BY <2>1, <2>2, Zenon
<1>9. columns[0] = 0
  BY <1>4, <1>8
<1>10. ASSUME NEW c \in 1 .. length PROVE columns[c] = Behind(columns[c - 1], row[c])
  BY <1>4, <1>8
<1> QED
  BY <1>9, <1>10 DEF columns, length

(* Plain cells take one column each.                                       *)
LEMMA PlainColumns ==
    ASSUME NEW row \in Seq(Printable), NEW m \in Nat, m <= Len(row),
           \A c \in 1 .. m : row[c] \in Plain \cup Layout
    PROVE  Columns(row)[m] = m
<1> DEFINE columns == Columns(row)
           S == {c \in Nat : c <= m => columns[c] = c}
<1>1. 0 \in S
  BY ColumnsRecursion
<1>2. ASSUME NEW c \in Nat, c \in S PROVE c + 1 \in S
  <2> SUFFICES ASSUME c + 1 <= m PROVE columns[c + 1] = c + 1
    OBVIOUS
  <2>1. c + 1 \in 1 .. Len(row) /\ c + 1 \in 1 .. m /\ (c + 1) - 1 = c /\ columns[c] = c
    BY <1>2, LenProperties
  <2>2. columns[c + 1] = Behind(columns[(c + 1) - 1], row[c + 1])
    BY <2>1, ColumnsRecursion
  <2>3. row[c + 1] \in Plain \cup Layout
    BY <2>1
  <2> HIDE DEF columns
  <2>4. columns[c + 1] = Behind(c, row[c + 1])
    BY <2>1, <2>2
  <2> QED
    BY <2>3, <2>4 DEF Behind
<1> HIDE DEF S
<1>3. m \in S
  BY <1>1, <1>2, Induction
<1> QED
  BY <1>3 DEF S

(* The carets stand in the columns behind the gutter and the blanks.       *)
LEMMA CaretsInColumns ==
    ASSUME NEW before \in Nat, NEW z \in Nat, CaretsBehind(caretRow, before, z)
    PROVE  CaretColumns = before .. before + z - 1
<1>1. /\ caretRow \in Seq(Printable) /\ Len(caretRow) = before + z
      /\ \A c \in 1 .. before + z :
            caretRow[c] \in Layout /\ (caretRow[c] = "caret" <=> c > before)
  BY DEF CaretsBehind
<1>2. DOMAIN caretRow = 1 .. before + z
  BY <1>1
<1>3. ASSUME NEW c \in 0 .. before + z PROVE Columns(caretRow)[c] = c
  BY <1>1, PlainColumns
<1> DEFINE Carrying == {d \in DOMAIN caretRow : caretRow[d] = "caret"}
<1>4. ASSUME NEW c \in Carrying PROVE Columns(caretRow)[c - 1] \in before .. before + z - 1
  <2>1. c \in 1 .. before + z /\ c > before /\ c - 1 \in 0 .. before + z
    BY <1>1, <1>2
  <2>2. Columns(caretRow)[c - 1] = c - 1
    BY <1>3, <2>1
  <2> QED
    BY <2>1, <2>2
<1>5. ASSUME NEW x \in before .. before + z - 1
      PROVE  \E c \in Carrying : x = Columns(caretRow)[c - 1]
  <2> DEFINE c == x + 1
  <2>1. c \in 1 .. before + z /\ c > before /\ c - 1 = x /\ x \in 0 .. before + z
    OBVIOUS
  <2> HIDE DEF c
  <2>2. c \in Carrying
    BY <1>1, <1>2, <2>1
  <2>3. Columns(caretRow)[c - 1] = x
    BY <1>3, <2>1
  <2> QED
    BY <2>2, <2>3
<1>6. CaretColumns = {Columns(caretRow)[c - 1] : c \in Carrying}
  BY DEF CaretColumns
<1> HIDE DEF Carrying
<1> QED
  BY <1>4, <1>5, <1>6

(* What the printed rows show.                                             *)
LEMMA RowsAgree ==
    ASSUME PlaceInv, pc = "done"
    PROVE  /\ CaretColumns # {}
           /\ lineEnd - lineStart <= MaxInt =>
                 \A c \in DOMAIN sourceRow : sourceRow[c] # Newline
           /\ \A p \in lineStart .. lineEnd :
                 (\A q \in lineStart .. p - 1 : At(q) \in Plain) =>
                    /\ \A q \in lineStart .. p - 1 : sourceRow[TextCell(q)] = At(q)
                    /\ Columns(sourceRow)[TextCell(p) - 1] \in CaretColumns
                          <=> p \in start .. end - 1 \/ p = start
<1> DEFINE g == gutterWidth
           blanks == col - 1
           z == Carets
           stop == StringEnd
           s == SubSeq(text, lineStart + 1, stop)
<1>1. /\ text \in Seq(Characters) /\ Len(text) \in Nat
      /\ start \in 0 .. Len(text) /\ end \in start .. Len(text)
      /\ lineStart \in 0 .. start /\ lineEnd \in start .. Len(text)
      /\ line \in Nat \ {0} /\ g \in Nat
  BY LenProperties DEF PlaceInv, PlaceTypes
<1>2. /\ col = 1 + start - lineStart
      /\ \A p \in lineStart .. lineEnd - 1 : At(p) # Newline
  BY LinesAgree DEF PlaceInv
<1>3. Digits(line) = g
  BY DigitsMeasured DEF PlaceInv, PlaceTypes, Measured
<1>4. /\ Limit \in lineEnd .. Len(text) /\ stop \in lineStart .. Limit
      /\ stop = Limit \/ At(stop) = Nul
  BY StringEnds DEF PlaceInv
<1>5. Newline \in Characters /\ Nul \notin Plain /\ Characters \cap Layout = {}
  BY TextsAssumption
<1>6. /\ sourceRow = Number(g, line) \o Bar \o s
      /\ caretRow = Cells(g, "blank") \o Bar \o Cells(blanks, "blank") \o Cells(z, "caret")
  BY DEF PlaceInv, Printed
<1> HIDE DEF stop
<1>7. /\ s \in Seq(Characters) /\ Len(s) = stop - lineStart
      /\ \A p \in 1 .. stop - lineStart : s[p] = text[lineStart + p]
  <2>1. /\ s \in Seq(Characters)
        /\ Len(s) = IF lineStart + 1 <= stop THEN stop - (lineStart + 1) + 1 ELSE 0
        /\ \A p \in 1 .. stop - (lineStart + 1) + 1 : s[p] = text[(lineStart + 1) + p - 1]
    BY <1>1, <1>4, SubSeqProperties
  <2> HIDE DEF s
  <2> QED
    BY <1>1, <1>4, <2>1
<1>8. blanks \in Nat /\ blanks = start - lineStart
  BY <1>1, <1>2
<1>9. z \in Nat \ {0} /\ z = IF start = end THEN 1 ELSE end - start
  BY <1>1 DEF Carets, SpanLength
<1> HIDE DEF s, blanks, z, g
<1>10. /\ sourceRow \in Seq(Printable) /\ Len(sourceRow) = g + 3 + (stop - lineStart)
       /\ \A c \in 1 .. g + 3 : sourceRow[c] \in Layout /\ (sourceRow[c] = "bar" <=> c = g + 2)
       /\ \A p \in 1 .. stop - lineStart : sourceRow[g + 3 + p] = text[lineStart + p]
  <2>1. SourceBehind(sourceRow, g, s)
    BY <1>1, <1>3, <1>6, <1>7, SourceCells
  <2> QED
    BY <1>7, <2>1 DEF SourceBehind
<1> DEFINE size == g + 3 + (stop - lineStart)
           before == g + 3 + blanks
<1>11. /\ DOMAIN sourceRow = 1 .. size /\ size \in Nat /\ size >= g + 3 /\ before \in Nat
       /\ size = g + 3 + (stop - lineStart) /\ before = g + 3 + blanks
  BY <1>1, <1>4, <1>8, <1>10
<1>12. CaretColumns = before .. before + z - 1
  <2>1. CaretsBehind(caretRow, g + 3 + blanks, z)
    <3> DEFINE r == caretRow
    <3>1. r = Cells(g, "blank") \o Bar \o Cells(blanks, "blank") \o Cells(z, "caret")
      BY <1>6
    <3> HIDE DEF r
    <3>2. g \in Nat /\ z \in Nat
      BY <1>1, <1>9
    <3>3. CaretsBehind(r, g + 3 + blanks, z)
      BY <1>8, <3>1, <3>2, CaretCells, Zenon
    <3> QED
      BY <3>3 DEF r
  <2> QED
    BY <1>9, <1>11, <2>1, CaretsInColumns
<1> HIDE DEF size, before
<1>13. ASSUME NEW c \in 1 .. size
       PROVE  IF c <= g + 3 THEN sourceRow[c] \in Layout
              ELSE /\ c - (g + 3) \in 1 .. stop - lineStart
                   /\ sourceRow[c] = At(lineStart + (c - (g + 3)) - 1)
  <2>1. CASE c <= g + 3
    BY <1>10, <2>1
  <2>2. CASE ~ c <= g + 3
    <3> DEFINE p == c - (g + 3)
    <3>1. /\ p \in 1 .. stop - lineStart /\ c = g + 3 + p
          /\ (lineStart + p - 1) + 1 = lineStart + p
      BY <1>1, <1>4, <1>11, <2>2
    <3> HIDE DEF p
    <3>2. sourceRow[g + 3 + p] = text[lineStart + p]
      BY <1>10, <3>1
    <3>3. sourceRow[c] = At(lineStart + p - 1)
      BY <3>1, <3>2 DEF At
    <3> QED
      BY <2>2, <3>1, <3>3 DEF p
  <2> QED
    BY <2>1, <2>2
<1>14. CaretColumns # {}
  <2>1. before \in before .. before + z - 1
    BY <1>9, <1>11
  <2> QED
    BY <1>12, <2>1
<1>15. ASSUME lineEnd - lineStart <= MaxInt, NEW c \in DOMAIN sourceRow
       PROVE  sourceRow[c] # Newline
  <2>1. CASE c <= g + 3
    <3>1. sourceRow[c] \in Layout
      BY <1>11, <1>13, <2>1
    <3> QED
      BY <1>5, <3>1
  <2>2. CASE ~ c <= g + 3
    <3> DEFINE p == lineStart + (c - (g + 3)) - 1
    <3>0. c \in 1 .. size
      BY <1>11
    <3>1. c - (g + 3) \in 1 .. stop - lineStart /\ sourceRow[c] = At(p)
      BY <1>13, <2>2, <3>0
    <3>2. stop <= lineEnd
      BY <1>1, <1>4, <1>15 DEF Limit
    <3> DEFINE i == c - (g + 3)
    <3>3. i \in 1 .. stop - lineStart /\ p = lineStart + i - 1
      BY <3>1
    <3> HIDE DEF i, p
    <3>4. p \in lineStart .. lineEnd - 1
      BY <1>1, <1>4, <3>2, <3>3
    <3> QED
      BY <1>2, <3>1, <3>4
  <2> QED
    BY <2>1, <2>2
<1>16. (CHOOSE c \in DOMAIN sourceRow : sourceRow[c] = "bar") = g + 2
  <2>1. g + 2 \in DOMAIN sourceRow /\ sourceRow[g + 2] = "bar"
    BY <1>1, <1>10, <1>11
  <2>2. ASSUME NEW c \in DOMAIN sourceRow, sourceRow[c] = "bar" PROVE c = g + 2
    <3>1. CASE c <= g + 3
      BY <1>1, <1>10, <1>11, <2>2, <3>1
    <3>2. CASE ~ c <= g + 3
      <4> DEFINE p == lineStart + (c - (g + 3)) - 1
      <4>0. c \in 1 .. size
        BY <1>11
      <4>1. c - (g + 3) \in 1 .. stop - lineStart /\ sourceRow[c] = At(p)
        BY <1>13, <3>2, <4>0
      <4> DEFINE i == c - (g + 3)
      <4>2. i \in 1 .. stop - lineStart /\ p = lineStart + i - 1
        BY <4>1
      <4> HIDE DEF i, p
      <4>3. p + 1 \in 1 .. Len(text)
        BY <1>1, <1>4, <4>2
      <4>4. At(p) \in Characters
        BY <1>1, <4>3 DEF At
      <4> QED
        BY <1>5, <2>2, <4>1, <4>4 DEF Layout
    <3> QED
      BY <3>1, <3>2
  <2> QED
    BY <2>1, <2>2
<1>17. ASSUME NEW p \in Int PROVE TextCell(p) = g + 4 + (p - lineStart)
  <2>1. TextCell(p) = (g + 2) + 2 + (p - lineStart)
    BY <1>16 DEF TextCell
  <2> QED
    BY <1>1, <1>11, <2>1
<1>18. ASSUME NEW p \in lineStart .. lineEnd, \A q \in lineStart .. p - 1 : At(q) \in Plain
       PROVE  /\ \A q \in lineStart .. p - 1 : sourceRow[TextCell(q)] = At(q)
              /\ Columns(sourceRow)[TextCell(p) - 1] \in CaretColumns
                    <=> p \in start .. end - 1 \/ p = start
  <2>1. p <= stop
    <3> SUFFICES ASSUME stop < p PROVE FALSE
      BY <1>1, <1>4
    <3>1. stop \in lineStart .. p - 1 /\ stop # Limit
      BY <1>1, <1>4
    <3>2. At(stop) = Nul /\ At(stop) \in Plain
      BY <1>4, <1>18, <3>1
    <3> QED
      BY <1>5, <3>2
  <2>2. ASSUME NEW q \in lineStart .. p - 1 PROVE sourceRow[TextCell(q)] = At(q)
    <3> DEFINE i == q - lineStart + 1
    <3>1. /\ i \in 1 .. stop - lineStart /\ lineStart + i = q + 1
          /\ TextCell(q) = g + 3 + i
      BY <1>1, <1>4, <1>17, <2>1
    <3> HIDE DEF i
    <3>2. sourceRow[g + 3 + i] = text[lineStart + i]
      BY <1>10, <3>1
    <3> QED
      BY <3>1, <3>2 DEF At
  <2> DEFINE m == g + 3 + (p - lineStart)
  <2>3. m \in Nat /\ m <= Len(sourceRow) /\ TextCell(p) - 1 = m /\ m <= size
    <3>1. p \in Int /\ p - lineStart \in Nat /\ p - lineStart <= stop - lineStart
      BY <1>1, <1>4, <2>1
    <3>2. TextCell(p) = g + 4 + (p - lineStart)
      BY <1>17, <3>1
    <3>3. m \in Nat /\ m <= Len(sourceRow) /\ m <= size
      BY <1>1, <1>4, <1>10, <1>11, <3>1
    <3> QED
      BY <1>1, <3>1, <3>2, <3>3
  <2>4. ASSUME NEW c \in 1 .. m PROVE sourceRow[c] \in Plain \cup Layout
    <3>1. CASE c <= g + 3
      BY <1>10, <1>1, <3>1
    <3>2. CASE ~ c <= g + 3
      <4> DEFINE q == lineStart + (c - (g + 3)) - 1
      <4>1. c \in 1 .. size
        BY <1>11, <2>3
      <4>2. sourceRow[c] = At(q)
        BY <1>13, <3>2, <4>1
      <4>3. q \in lineStart .. p - 1
        BY <1>1, <3>2
      <4> HIDE DEF q, m
      <4> QED
        BY <1>18, <4>2, <4>3
    <3> QED
      BY <3>1, <3>2
  <2>5. m \in before .. before + z - 1 <=> p \in start .. end - 1 \/ p = start
    <3>1. m \in before .. before + z - 1 <=> p \in start .. start + z - 1
      BY <1>1, <1>8, <1>9, <1>11
    <3>2. p \in start .. start + z - 1 <=> p \in start .. end - 1 \/ p = start
      BY <1>1, <1>9
    <3> QED
      BY <3>1, <3>2
  <2> HIDE DEF m
  <2>6. Columns(sourceRow)[m] = m
    BY <1>10, <2>3, <2>4, PlainColumns
  <2>7. Columns(sourceRow)[TextCell(p) - 1] \in CaretColumns
           <=> p \in start .. end - 1 \/ p = start
    BY <1>12, <2>3, <2>5, <2>6
  <2> QED
    BY <2>2, <2>7
<1> QED
  BY <1>14, <1>15, <1>18

(* For every text and span, on a line with a number of any length, as far  *)
(* as the line is plain: the carets are where the terminal shows the       *)
(* characters of the span, and nowhere else; and there are always some.    *)
THEOREM CaretsStandUnderTheSpan == PositionSpec => []CaretsUnderSpan
<1>1. PlaceInv => CaretsUnderSpan
  BY RowsAgree DEF CaretsUnderSpan
<1>2. PositionInit => PlaceInv
  BY PlaceInit
<1> QED
  BY <1>1, <1>2, PlaceNext, PTL DEF PositionSpec
=============================================================================
