---------------------------- MODULE PieceStore -----------------------------
(***************************************************************************)
(* What the disk goroutine works on: the file of a transfer                *)
(* (disk/file_handler.go) and the block managers that hash a piece from    *)
(* the buffers that pass through memory (piece_manager.go,                 *)
(* block_manager.go).                                                      *)
(*                                                                         *)
(* The bytes of a block are abstracted to what a piece hash can tell       *)
(* apart: "good" is what the file should hold, "bad" is anything else, and *)
(* "none" is no bytes at all.  A store is a record of                      *)
(*   file    what the file holds at the offset of each block               *)
(*   buffer  BlockManager.buffers: blocks registered and not yet hashed    *)
(*   hashed  BlockManager.hashed: what entered the piece hash per block;   *)
(*           lastHashedBlock is the length of its prefix that is not none  *)
(***************************************************************************)
EXTENDS PiecePicker

Bytes    == {"good", "bad"}
Contents == Bytes \union {"none"}

Stores == [file   : [Blocks -> Contents],
           buffer : [Blocks -> Contents],
           hashed : [Blocks -> Contents]]

Nothing == [b \in Blocks |-> "none"]

EmptyStore == [file |-> Nothing, buffer |-> Nothing, hashed |-> Nothing]

\* b lies after c in the file.
BlockFollows(b, c) == c[1] < b[1] \/ (c[1] = b[1] /\ c[2] < b[2])

\* lastHashedBlock + 1 = b: every earlier block of the piece has been hashed,
\* and b has not.
IsNextToHash(st, b) ==
  /\ st.hashed[b] = "none"
  /\ \A c \in BlocksOf(b[1]) : c[2] < b[2] => st.hashed[c] # "none"

\* The run of registered blocks that starts at b.
RunFrom(buffer, b) ==
  {c \in BlocksOf(b[1]) :
     /\ b[2] <= c[2]
     /\ \A d \in BlocksOf(b[1]) : b[2] <= d[2] /\ d[2] <= c[2] => buffer[d] # "none"}

\* BlockManager.RegisterBlock: keep the buffer; if it is the next one to hash,
\* hash the run it completes.  A block that was hashed before is only kept.
RegisterBlock(st, b, c) ==
  LET kept == [st.buffer EXCEPT ![b] = c]
      run  == IF IsNextToHash(st, b) THEN RunFrom(kept, b) ELSE {}
  IN  [st EXCEPT
         !.hashed = [x \in Blocks |-> IF x \in run THEN kept[x] ELSE @[x]],
         !.buffer = [x \in Blocks |-> IF x \in run THEN "none" ELSE kept[x]]]

\* PieceManager.WriteBlock when the seek and the write succeed.
WriteBlock(st, b, c) == RegisterBlock([st EXCEPT !.file[b] = c], b, c)

\* PieceManager.RestoreBlock reads up to the end of the file; a hole before
\* the end reads as zeros.
CanRestore(st, b) == \E c \in Blocks : ~BlockFollows(b, c) /\ st.file[c] # "none"

RestoreBlock(st, b) ==
  RegisterBlock(st, b, IF st.file[b] = "none" THEN "bad" ELSE st.file[b])

\* The hash over `hashed` equals the entry of the hash set only if the whole
\* piece went through it and every block was good.
HashMatches(st, p) == \A b \in BlocksOf(p) : st.hashed[b] = "good"

\* Mutant of DropManager: the next download of the piece adds to the old hash.
KeepManager(st, p) == st

\* PieceManager.HashPiece drops the block manager.
DropManager(st, p) ==
  [st EXCEPT
     !.buffer = [b \in Blocks |-> IF b[1] = p THEN "none" ELSE @[b]],
     !.hashed = [b \in Blocks |-> IF b[1] = p THEN "none" ELSE @[b]]]

\* PieceManager.ReleaseFile.
ReleaseFile(st, deleteFile) ==
  [file   |-> IF deleteFile THEN Nothing ELSE st.file,
   buffer |-> Nothing,
   hashed |-> Nothing]

=============================================================================
