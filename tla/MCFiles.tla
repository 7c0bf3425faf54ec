------------------------------ MODULE MCFiles ------------------------------
(* Names of two characters and one, in two directories: one has a label    *)
(* and a file of the same name and a subdirectory, the other a deleted     *)
(* entry before a file and a name that fills its field.                    *)
EXTENDS Files

MCChars == {"A", "B", "C", "D", "a", "b", "c", "d", "0", "1", ".", ":", "/", ZERO, SPACE, DELETED, SUBDIR, LABEL}

Entry(filename, ext, attribute, size) ==
  [filename |-> filename, ext |-> <<ext>>, attribute |-> attribute, size |-> size]
End == Entry(<<ZERO, ZERO>>, ZERO, ZERO, 0)

MCDisks ==
  { << Entry(<<"A", SPACE>>, SPACE, LABEL, 0), Entry(<<"A", SPACE>>, SPACE, SPACE, 2),
       Entry(<<"D", SPACE>>, SPACE, SUBDIR, 0), End >>,
    << Entry(<<"A", "B">>, "C", SPACE, 1), Entry(<<DELETED, SPACE>>, SPACE, SPACE, 2),
       Entry(<<"D", SPACE>>, "B", SPACE, 2), End >> }

(* "0:/a", "0:/d/", "0:/d/a", "0:/d.b", "0:/abc.c", "0://a", "1:/a", "a"   *)
(* and one that is too long.                                               *)
MCPaths ==
  LET on(drive, name) == <<drive, ":", "/">> \o name
  IN  { on("0", <<"a">>), on("0", <<"d", "/">>), on("0", <<"d", "/", "a">>),
        on("0", <<"d", ".", "b">>), on("0", <<"a", "b", "c", ".", "c">>),
        on("0", <<"/", "a">>), on("1", <<"a">>), <<"a">>,
        on("0", <<"a", "a", "a", "a", "a", "a", "a", "a">>) }
=============================================================================
