----------------------------- MODULE MCContent ------------------------------
(* Every source of two sections of up to three characters, and of three  *)
(* sections of up to two characters that are no control characters.        *)
EXTENDS Content, SequencesExt

MCSources == BoundedSeq(BoundedSeq(Chars, 3), 2)
             \cup BoundedSeq(BoundedSeq({"visible", "blank"}, 2), 3)
MCInputs == {NoArtifact}
=============================================================================
