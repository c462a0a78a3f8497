--------------------------- MODULE MCChunkReader ----------------------------
(* ChunkReader on the strings that could make it lose its place. *)
EXTENDS ChunkReader, EventText

\* A brace or a quote, alone or after a brace, a quote or a backslash.
Strings == {<<>>, <<"{">>, <<"}">>, <<"\"">>}
             \cup {<<c, d>> : c \in {"}", "\"", "\\"}, d \in {"{", "}", "\""}}

PlainEvents == {cJSON_Print(s) : s \in Strings}

\* A string may also end in a backslash.
BackslashEvents == {cJSON_Print(<<"x">>), cJSON_Print(<<"x", "\\">>)}

\* The texts of PlainEvents are what the theorems about the reader assume; the
\* one that ends in a backslash is not.
ASSUME PlainEventsAreFramed ==
    /\ \A e \in PlainEvents : IsFramed(e)
    /\ ~IsFramed(cJSON_Print(<<"x", "\\">>))
=============================================================================
