----------------------------- MODULE Compiler -----------------------------
(***************************************************************************)
(* What running the compiler may do to the files of a directory: the       *)
(* abstract specification of main.c.  A run refuses the text, fails,       *)
(* succeeds or is killed.  Only a run that was asked to compile and        *)
(* accepts the text touches a file, only the output, and only a whole      *)
(* image becomes executable or is called a success.                        *)
(*                                                                         *)
(* A file is its content and whether it is executable.  Contents are       *)
(* "absent", "empty", "text" (the program), "other", "partial" (the        *)
(* beginning of an image) and "image" (all of it).                         *)
(***************************************************************************)

CONSTANTS Paths,  \* names of files
          Input   \* the name of the source file

Request == [furthest : {"tokenize", "parse", "compile"}, output : Paths]

Verdict == {"lexer", "parser", "codegen", "accepted"}

VARIABLES disk,     \* the files
          verdict,  \* the first stage that objects to "text"
          request,  \* what the run was asked
          result    \* "idle", "working", "writing", then how it ended

vars == <<disk, verdict, request, result>>

(* What the stages say of a content.  An image begins with a byte that     *)
(* begins no token; an empty text has no entry statement.                  *)
VerdictOn(content) ==
    CASE content = "text"  -> verdict
      [] content = "empty" -> "codegen"
      [] OTHER             -> "lexer"

(* The stages that run when the compiler stops after the furthest one.     *)
StagesUpTo(furthest) ==
    CASE furthest = "tokenize" -> {"lexer"}
      [] furthest = "parse"    -> {"lexer", "parser"}
      [] furthest = "compile"  -> {"lexer", "parser", "codegen"}

Objects == VerdictOn(disk[Input].content) \in StagesUpTo(request.furthest)

Ended == {"succeeded", "refused", "failed", "killed"}

File == [content : {"absent", "empty", "text", "other", "partial", "image"},
         executable : BOOLEAN]

Init ==
    /\ disk \in [Paths -> File]
    /\ verdict \in Verdict
    /\ request \in Request
    /\ result = "idle"

Begin ==
    /\ result = "idle"
    /\ result' = "working"
    /\ UNCHANGED <<disk, verdict, request>>

Refuse ==
    /\ result = "working" /\ Objects
    /\ result' = "refused"
    /\ UNCHANGED <<disk, verdict, request>>

OpenOutput ==
    /\ result = "working" /\ ~ Objects /\ request.furthest = "compile"
    /\ disk' = [disk EXCEPT ![request.output].content = "empty"]
    /\ result' = "writing"
    /\ UNCHANGED <<verdict, request>>

Writes == \E content \in {"empty", "partial", "image"} :
              disk' = [disk EXCEPT ![request.output].content = content]

Write ==
    /\ result = "writing"
    /\ Writes
    /\ UNCHANGED <<verdict, request, result>>

MakeExecutable ==
    /\ result = "writing" /\ disk[request.output].content = "image"
    /\ disk' = [disk EXCEPT ![request.output].executable = TRUE]
    /\ UNCHANGED <<verdict, request, result>>

Delivered == disk[request.output] = [content |-> "image", executable |-> TRUE]

Succeed ==
    /\ \/ result = "working" /\ ~ Objects /\ request.furthest # "compile"
       \/ result = "writing" /\ Delivered
    /\ result' = "succeeded"
    /\ UNCHANGED <<disk, verdict, request>>

(* A failure leaves the files alone until the output has been opened.      *)
Fail ==
    /\ \/ result \in {"idle", "working"} /\ UNCHANGED disk
       \/ result = "writing" /\ (Writes \/ UNCHANGED disk)
    /\ result' = "failed"
    /\ UNCHANGED <<verdict, request>>

Killed ==
    /\ result \notin Ended
    /\ result' = "killed"
    /\ UNCHANGED <<disk, verdict, request>>

RunAgain ==
    /\ result \in Ended
    /\ request' \in Request
    /\ result' = "idle"
    /\ UNCHANGED <<disk, verdict>>

Next ==
    \/ Begin \/ Refuse \/ OpenOutput \/ Write \/ MakeExecutable \/ Succeed
    \/ Fail \/ Killed \/ RunAgain

Spec == Init /\ [][Next]_vars
=============================================================================
