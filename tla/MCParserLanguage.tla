--------------------------- MODULE MCParserLanguage ---------------------------
(* Every input of up to MaxTokens tokens.                                  *)
EXTENDS ParserLanguage
===============================================================================
