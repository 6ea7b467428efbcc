-------------------------- MODULE MCRequestHandler --------------------------
(***************************************************************************)
(* Slashes, dots and spaces, plain and escaped, with the words that make a *)
(* command, an unknown command and a file with a type.                     *)
(***************************************************************************)
EXTENDS RequestHandler

MCCharacter == {"/", ".", "SP", "%", "+", "-", "r", "d", "b", "g", "e", "t", "i", "f", "0", "2", "x"}
MCPlain == {<<"/">>, <<".">>, <<"r", "d", "b">>, <<"g", "e", "t">>, <<"g", "i", "f">>}
MCEscaped == {"/", ".", "SP", "%", "+"}
MCBroken == {<<"%">>, <<"%", "g", "f">>, <<"%", "2", "g">>, <<"%", "-", "2">>, <<"%", "0", "x">>}
=============================================================================
