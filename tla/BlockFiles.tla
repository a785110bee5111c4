------------------------------- MODULE BlockFiles -------------------------------
(***************************************************************************)
(* The two formats of a file of blocks, and the drivers that append to it: *)
(* blocks of one size (DBDriverFixedBlocks) and blocks that each follow    *)
(* their own size (DBDriverChainedBlocks).                                 *)
(*                                                                         *)
(* A file is absent, bare (created, without a header), whole, or broken    *)
(* (it ends within a block, or within a size).  A driver knows how many    *)
(* blocks there are only from its own opening and its own writes.  What it *)
(* writes waits in a buffer until its next seek: late.                     *)
(***************************************************************************)
EXTENDS Naturals, Sequences

CONSTANT Torn   \* the contents of a block that was cut short

NoFile == [is |-> "absent", blocks |-> <<>>]
Closed == [opened |-> FALSE, count |-> 0, late |-> FALSE]

FilesOf(B) ==
  [is : {"absent", "bare", "whole", "broken"}, blocks : Seq(B \cup {Torn})]
Drivers == [opened : BOOLEAN, count : Nat, late : BOOLEAN]

(* create: refused if the file exists; the header is flushed. *)
CanCreate(f, d) == ~d.opened /\ f.is = "absent"
Created == [is |-> "whole", blocks |-> <<>>]
NewDriver == [opened |-> TRUE, count |-> 0, late |-> FALSE]

(* open(ReadWrite) creates a file that is missing, before its header is    *)
(* missed.                                                                 *)
CanOpen(f, d) == ~d.opened /\ f.is = "whole"
Touched(f) == IF f.is = "absent" THEN [f EXCEPT !.is = "bare"] ELSE f

(* mutant: the blocks are not counted. *)
OpenDriverUncounted(f) == NewDriver

OpenDriver(f) == [opened |-> TRUE, count |-> Len(f.blocks), late |-> FALSE]

(* mutant: the last block is written over. *)
WrittenOverLast(f, d, b) ==
  IF f.blocks = <<>> THEN [f EXCEPT !.blocks = <<b>>]
  ELSE [f EXCEPT !.blocks[Len(f.blocks)] = b]

(* A block is written behind the last one that the driver knows of.        *)
Written(f, d, b) ==
  [f EXCEPT !.blocks =
     [i \in 1..(IF d.count < Len(f.blocks) THEN Len(f.blocks) ELSE d.count + 1) |->
        IF i = d.count + 1 THEN b ELSE f.blocks[i]]]
AfterWrite(d) == [d EXCEPT !.count = d.count + 1, !.late = TRUE]

(* writeNote: the last block is changed. *)
Noted(f, d, b) == [f EXCEPT !.blocks[d.count] = b]

(* What a stop of the program, or of the machine, leaves of a file whose   *)
(* last write appended a block: the block, nothing of it, or a part.  A    *)
(* part of a block breaks a file of fixed blocks; a part of a size breaks  *)
(* a file of chained blocks, a part of the data is taken for the block.    *)
AfterAppend(f, d, fixed) ==
  IF ~d.late THEN {f}
  ELSE LET before == SubSeq(f.blocks, 1, Len(f.blocks) - 1)
       IN  {f, [f EXCEPT !.blocks = before], [is |-> "broken", blocks |-> before]}
           \cup (IF fixed THEN {} ELSE {[f EXCEPT !.blocks = Append(before, Torn)]})

(* The same where the last write changed a number in the last block, from  *)
(* `old': the size of the file stays.                                      *)
AfterNote(f, d, old) ==
  IF ~d.late THEN {f} ELSE {f, [f EXCEPT !.blocks[d.count] = old]}
=============================================================================
