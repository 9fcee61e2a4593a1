------------------------------ MODULE MCVpTools ------------------------------
(***************************************************************************)
(* Archives: contiguous files; files that overlap and leave a gap; one     *)
(* packed file among others, in nested directories; files all too small;   *)
(* one cut short.  And every list of up to five records over two file      *)
(* names, one directory name and "..", cut off before the files begin.     *)
(***************************************************************************)
EXTENDS VpTools

CONSTANTS reader, d1, d2, s1, s2
MCDecoders == <<d1, d2>>
MCSavers == <<s1, s2>>

record(name, offset, size, stubbed) ==
    [name |-> name, offset |-> offset, size |-> size, stubbed |-> stubbed]
file(name, offset, size) == record(name, offset, size, FALSE)
packed(name, offset, size) == record(name, offset, size, TRUE)
directory(name) == record(name, 0, 0, FALSE)
end == directory(ParentDir)

Readable ==
    { [length |-> 30, records |-> <<directory("data"), file("a", 14, 4), end, file("a", 1, 4),
                                    file("b", 5, 4), file("c", 9, 5)>>],
      [length |-> 20, records |-> <<file("a", 1, 9), file("b", 1, 4), file("c", 13, 4)>>],
      [length |-> 20, records |-> <<directory("data"), directory("maps"), packed("a", 5, 4),
                                    end, file("a", 1, 4), end, file("a", 9, 4)>>],
      [length |-> 20, records |-> <<file("a", 1, 1), file("b", 2, 3), file("c", 5, 2),
                                    file("d", 7, 4)>>],
      [length |-> 10, records |-> <<file("a", 1, 4), file("b", 5, 4), file("c", 9, 4)>>] }

Indexes ==
    UNION {[1 .. n -> {file("a", 9, 4), file("b", 5, 4), directory("a"), end}] : n \in 0 .. 5}

MCArchives == Readable \union {[length |-> 1, records |-> r] : r \in Indexes}
=============================================================================
