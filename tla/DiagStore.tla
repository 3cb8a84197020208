----------------------------- MODULE DiagStore -----------------------------
(***************************************************************************)
(* One Diags store from DiagsInit to DiagsFree, with the heap blocks it    *)
(* owns.  A stage pushes errors and warnings in any order, the store is    *)
(* reported once and then freed (src/main.c); any allocation may fail, and *)
(* Error then ends the process.                                            *)
(*                                                                         *)
(* The n-th push is named n: <<"help", n>> is the block HelpMessage made   *)
(* for it, <<"message", n>> the block its formatted text is copied into.   *)
(***************************************************************************)
EXTENDS Diags

CONSTANTS Maxes,      \* the values of max the store is created with
          Spans,      \* the spans diagnostics are pushed for
          MaxPushes   \* bound: pushes of one behaviour

ASSUME MaxesAssumption == Maxes \subseteq Nat

VARIABLES diags,   \* the store
          phase,   \* "open", "reported", "freed", or "exited" (out of memory)
          heap,    \* live help and message blocks
          report,  \* what DiagsReportAll wrote to stderr
          pushed   \* history: every diagnostic pushed, dropped ones included

vars == <<diags, phase, heap, report, pushed>>

Entry == [severity : Severity, span : Spans, help : BOOLEAN]

NoReport == [printed |-> << >>, suppressedErrs |-> 0, suppressedWarnings |-> 0]

Help(n) == <<"help", n>>
Message(n) == <<"message", n>>

Init ==
    /\ \E max \in Maxes : diags = DiagsInit(max)
    /\ phase = "open"
    /\ heap = {}
    /\ report = NoReport
    /\ pushed = << >>

(* Broken: the help of a dropped diagnostic is not freed.                  *)
PushLeaking(entry) ==
    LET n == Len(pushed) + 1 IN
    /\ phase = "open"
    /\ Len(pushed) < MaxPushes
    /\ diags' = DiagsPushImpl(diags, entry)
    /\ heap' = heap \cup (IF AtCapacity(diags) THEN {} ELSE {Message(n)})
                    \cup (IF entry.help THEN {Help(n)} ELSE {})
    /\ pushed' = Append(pushed, entry)
    /\ UNCHANGED <<phase, report>>

(* The caller's HelpMessage has allocated the help block; ownership passes *)
(* to the store, which keeps it with the entry or frees it on the spot.    *)
Push(entry) ==
    LET n == Len(pushed) + 1 IN
    /\ phase = "open"
    /\ Len(pushed) < MaxPushes
    /\ diags' = DiagsPushImpl(diags, entry)
    /\ heap' = IF AtCapacity(diags) THEN heap
               ELSE heap \cup {Message(n)} \cup (IF entry.help THEN {Help(n)} ELSE {})
    /\ pushed' = Append(pushed, entry)
    /\ UNCHANGED <<phase, report>>

(* An allocation of HelpMessage or of the store returns NULL: Error ends   *)
(* the process, nothing reads its memory again.                            *)
OutOfMemory ==
    /\ phase = "open"
    /\ phase' = "exited"
    /\ UNCHANGED <<diags, heap, report, pushed>>

Report ==
    /\ phase = "open"
    /\ report' = DiagsReportAll(diags)
    /\ phase' = "reported"
    /\ UNCHANGED <<diags, heap, pushed>>

(* Frees message and help of every stored entry, then entries[] itself;    *)
(* the counters stay.                                                      *)
DiagsFree ==
    LET owners == 1 .. Len(diags.entries) IN
    /\ phase = "reported"
    /\ heap' = heap \ ({Message(i) : i \in owners} \cup {Help(i) : i \in owners})
    /\ diags' = [diags EXCEPT !.entries = << >>, !.cap = 0]
    /\ phase' = "freed"
    /\ UNCHANGED <<report, pushed>>

Next ==
    \/ \E entry \in Entry : Push(entry)
    \/ OutOfMemory
    \/ Report
    \/ DiagsFree

Spec == Init /\ [][Next]_vars

-----------------------------------------------------------------------------

PushedOf(severity) == {i \in 1 .. Len(pushed) : pushed[i].severity = severity}

(* The store and its history are well formed.                              *)
TypeOK ==
    /\ diags \in [entries : Seq(Entry), cap : Nat, max : Maxes,
                  nerrs : Nat, nwarnings : Nat]
    /\ phase \in {"open", "reported", "freed", "exited"}
    /\ pushed \in Seq(Entry)
    /\ report \in [printed : Seq(Entry), suppressedErrs : Nat, suppressedWarnings : Nat]

(* The cap only ever cuts the tail: until the store is freed it holds the  *)
(* first max diagnostics pushed, in push order, whatever mix of severities *)
(* they are (all of them when max is 0).                                   *)
StoredIsPrefix ==
    phase # "freed" =>
        /\ Len(diags.entries) =
             IF diags.max > 0 /\ diags.max < Len(pushed) THEN diags.max ELSE Len(pushed)
        /\ \A i \in 1 .. Len(diags.entries) : diags.entries[i] = pushed[i]

(* nerrs and nwarnings are the pushes of each severity, dropped ones too:  *)
(* main.c decides to abort from nerrs, so an error that did not fit in the *)
(* store must still stop the pipeline and a warning never may.             *)
CountersExact ==
    /\ diags.nerrs = Cardinality(PushedOf("error"))
    /\ diags.nwarnings = Cardinality(PushedOf("warning"))

(* entries[] is never written past its allocation, and the doubling is cut *)
(* at max, so the allocation never exceeds it.                             *)
CapacityWithinMax ==
    /\ Len(diags.entries) <= diags.cap
    /\ diags.max > 0 => diags.cap <= diags.max

(* The report accounts for every diagnostic of either severity exactly     *)
(* once: it is printed in full or counted in that severity's "further ...  *)
(* suppressed" line.                                                       *)
ReportAccountsForAll ==
    phase \in {"reported", "freed"} =>
        \A severity \in Severity :
            Cardinality({i \in 1 .. Len(report.printed) : report.printed[i].severity = severity})
              + (IF severity = "error" THEN report.suppressedErrs ELSE report.suppressedWarnings)
            = Cardinality(PushedOf(severity))

(* The store owns exactly the message of every stored entry and the help   *)
(* of those that have one: a dropped diagnostic leaks no help, a stored    *)
(* one keeps its own until DiagsFree, which leaves nothing behind.         *)
HeapOwnedByEntries ==
    heap = {Message(i) : i \in 1 .. Len(diags.entries)}
           \cup {Help(i) : i \in {j \in 1 .. Len(diags.entries) : diags.entries[j].help}}
=============================================================================
