---------------------------- MODULE MCFileSystem ----------------------------
(* Instances of FileSystem for TLC.                                        *)
EXTENDS FileSystemCache

CONSTANTS r1, r2, kb, fa, fb

\* Two connections and the keyboard, one file of one byte and one of two.
TwoSizes == (fa :> 1) @@ (fb :> 2)
\* All files have the same size.
OneSize == (fa :> 1)
Sym == Permutations({r1, r2})
=============================================================================
