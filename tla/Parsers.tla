------------------------------ MODULE Parsers ------------------------------
(***************************************************************************)
(* Everything that reads text or bytes from outside: the languages of      *)
(* Languages and the buffers of Decoders.  They share no state and are     *)
(* called one at a time.                                                   *)
(***************************************************************************)
EXTENDS Decoders, Languages

vars == <<decoderVars, languageVars>>

Init == DecoderInit /\ LanguageInit

Next ==
  \/ step = "choose" /\ DecoderNext /\ UNCHANGED languageVars
  \/ DecoderInit /\ LanguageNext /\ UNCHANGED decoderVars

Spec == Init /\ [][Next]_vars

=============================================================================
