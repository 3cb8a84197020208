------------------------------- MODULE Diags -------------------------------
(***************************************************************************)
(* The batch diagnostics of src/diagnostic.c as a data type: the Diags     *)
(* struct is a record, each function that changes it an operator from the  *)
(* record before the call to the record after it.  The lexer and the       *)
(* parser push into such a record; DiagStore is the machine of one store.  *)
(*                                                                         *)
(* An entry is a record with at least a field "severity"; what else it     *)
(* carries (span, help) is the business of whoever pushes it.  The text of *)
(* messages is left out.                                                   *)
(***************************************************************************)
EXTENDS Naturals, Sequences, FiniteSets

CONSTANT DIAGS_INITIAL_CAP  \* first capacity of entries[] (8 in the source)

ASSUME InitialCapAssumption == DIAGS_INITIAL_CAP \in Nat \ {0}

Severity == {"warning", "error"}

(* len, the number of stored entries, is Len(entries); max = 0 means the   *)
(* store is unlimited.                                                     *)
DiagsInit(max) ==
    [entries |-> << >>, cap |-> 0, max |-> max, nerrs |-> 0, nwarnings |-> 0]

(* Broken: the drop is decided by the stored errors, not by all entries.   *)
AtCapacityByErrors(diags) ==
    diags.max > 0 /\ Cardinality({i \in 1 .. Len(diags.entries) :
                                    diags.entries[i].severity = "error"}) >= diags.max

AtCapacity(diags) == diags.max > 0 /\ Len(diags.entries) >= diags.max

(* Both counters count every push, dropped ones included.                  *)
Counted(diags, severity) ==
    IF severity = "warning" THEN [diags EXCEPT !.nwarnings = @ + 1]
                            ELSE [diags EXCEPT !.nerrs = @ + 1]

(* Broken: the doubling is not cut at max.                                 *)
GrownCapUncut(diags) == IF diags.cap = 0 THEN DIAGS_INITIAL_CAP ELSE diags.cap * 2

GrownCap(diags) ==
    LET doubled == IF diags.cap = 0 THEN DIAGS_INITIAL_CAP ELSE diags.cap * 2
    IN  IF diags.max > 0 /\ doubled > diags.max THEN diags.max ELSE doubled

Stored(diags, entry) ==
    [diags EXCEPT !.cap     = IF Len(diags.entries) = @ THEN GrownCap(diags) ELSE @,
                  !.entries = Append(@, entry)]

(* Broken: a dropped diagnostic is not counted.                            *)
DiagsPushImplUncounted(diags, entry) ==
    IF AtCapacity(diags) THEN diags
                         ELSE Stored(Counted(diags, entry.severity), entry)

DiagsPushImpl(diags, entry) ==
    IF AtCapacity(diags) THEN Counted(diags, entry.severity)
                         ELSE Stored(Counted(diags, entry.severity), entry)

StoredCount(diags, severity) ==
    Cardinality({i \in 1 .. Len(diags.entries) : diags.entries[i].severity = severity})

(* The "N further errors suppressed" line is only printed when more were   *)
(* counted than stored; 0 stands for no such line.  (Broken: the           *)
(* subtraction is the wrong way round.)                                    *)
SuppressedSwapped(counted, stored) == IF counted > stored THEN stored - counted ELSE 0

Suppressed(counted, stored) == IF counted > stored THEN counted - stored ELSE 0

(* Broken: each counter is compared with the mixed number of entries.      *)
DiagsReportAllMixed(diags) ==
    [printed            |-> diags.entries,
     suppressedErrs     |-> Suppressed(diags.nerrs, Len(diags.entries)),
     suppressedWarnings |-> Suppressed(diags.nwarnings, Len(diags.entries))]

DiagsReportAll(diags) ==
    [printed            |-> diags.entries,
     suppressedErrs     |-> Suppressed(diags.nerrs, StoredCount(diags, "error")),
     suppressedWarnings |-> Suppressed(diags.nwarnings, StoredCount(diags, "warning"))]
=============================================================================
