----------------------------- MODULE EventText ------------------------------
(***************************************************************************)
(* The text of an event, as cJSON prints it, over the characters that      *)
(* matter to ChunkReader: an object that holds an object (the parameters)  *)
(* that holds one string.                                                  *)
(***************************************************************************)
EXTENDS SequencesExt

\* Quotes and backslashes are escaped; all other characters stand for "x".
print_string_ptr(s) ==
    <<"\"">>
      \o FlattenSeq([i \in DOMAIN s |->
             IF s[i] \in {"\"", "\\"} THEN <<"\\", s[i]>> ELSE <<s[i]>>])
      \o <<"\"">>

print_object(body) == <<"{">> \o body \o <<"}">>

cJSON_Print(s) == print_object(print_object(print_string_ptr(s)))
=============================================================================
