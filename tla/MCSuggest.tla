----------------------------- MODULE MCSuggest -----------------------------
(* All words of up to three letters over three as input, against every     *)
(* such word alone and against pairs of a few, with bounds that cut and    *)
(* bounds that do not.                                                     *)
EXTENDS Suggest

MCLetters == {"a", "b", "c"}

MCFew == {<<"a", "b", "c">>, <<"b", "a">>, <<"c">>, <<"b", "c", "a">>}

MCRequests ==
    [input : Word, candidates : {<<w>> : w \in Word} \cup (MCFew \X MCFew),
     maxDistance : {1, 2}]
=============================================================================
