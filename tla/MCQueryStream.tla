--------------------------- MODULE MCQueryStream ---------------------------
(* A small instance of QueryStream. *)
EXTENDS QueryStream

\* One character of every class that findSemicolon or the Lexer tells apart.
MCChars == {"quote", ";", "-", "word", "stray", "blank"}
=============================================================================
