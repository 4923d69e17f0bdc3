----------------------------- MODULE MCKeyboard -----------------------------
(***************************************************************************)
(* A buffer of five bytes; a command, a file and a directory to complete,  *)
(* or two commands.                                                         *)
(***************************************************************************)
EXTENDS Keyboard
CONSTANTS a, b
MCCommands == {<<a, a>>}
MCNoNames == {}
MCFiles == {<<a, a>>}
MCDirs == {<<b>>}
MCLetters == {a, b, Space, Slash}
MCTabCommands == {<<a, a>>, <<a, b>>}
=============================================================================
