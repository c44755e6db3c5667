---------------------------------- MODULE Jobs ----------------------------------
(***************************************************************************)
(* What the scraper does for one product at a time: it refreshes the offers *)
(* of a list (CartRefresh) and finds the printing of a product             *)
(* (PrintingMatch).  The two share no state.                               *)
(***************************************************************************)
EXTENDS CartRefresh

CONSTANTS
    Printing, Token, Title, Exact, FrontFace, Similar, SetName, Named, Containing,
    TokenSimilar, Offered, Catalogue, MaxMatches \* of PrintingMatch

VARIABLES tables, cardCaches, tokenCaches, product, filed, matches

M == INSTANCE PrintingMatch WITH
       Product <- Offered, rows <- tables, cards <- cardCaches, tokens <- tokenCaches

ASSUME TitlesAssumption == M!MatchAssumption

matchVars == <<tables, cardCaches, tokenCaches, product, filed, matches>>

-----------------------------------------------------------------------------
\* A product is filed under its card and the printing it names (match).
FindsThePrinting == M!FindsThePrinting
=============================================================================
