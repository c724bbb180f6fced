----------------------------- MODULE MCFileChannel -----------------------------
(* Instances of FileChannel for TLC.                                           *)
EXTENDS FileChannel

===============================================================================
