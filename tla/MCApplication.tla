---------------------------- MODULE MCApplication ----------------------------
(***************************************************************************)
(* Two categories, one of them checked by default; two translations, and   *)
(* settings written by another hand.                                       *)
(***************************************************************************)
EXTENDS Application, TLC

CONSTANTS cache, trash   \* model values

MCRules == {cache, trash}
MCDefaults == {cache}
MCTranslations == {"uk", "de"}
MCSpelled == ("UA" :> "uk") @@ ("tlh" :> "system")
=============================================================================
