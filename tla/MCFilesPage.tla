---------------------------- MODULE MCFilesPage ----------------------------
(* Two instances of one directory below the root; a file name that occurs  *)
(* in both directories and another to rename it to.                        *)
EXTENDS FilesPage
MCDirs == {<<>>, <<"d">>}
MCComposeFile == <<"f">>
MCFiles == {<<"f">>, <<"g">>, <<"d", "f">>}
=============================================================================
