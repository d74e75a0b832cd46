----------------------------- MODULE StateFile -----------------------------
(***************************************************************************)
(* FileClientStateStore.Save of client_state.go on a file system, as       *)
(* functions of the record f. Save writes the same temporary file for      *)
(* every caller and renames it; the API and the loop of the client may be  *)
(* in Save at the same time, and then share an inode.                      *)
(*                                                                         *)
(* A state is abstracted to its version. A file that is empty or that has  *)
(* bytes of two states, or only some of one, does not load.                *)
(***************************************************************************)
EXTENDS Integers, FiniteSets, Functions

CONSTANTS
  Writers,     \* the goroutines that call Save
  NoFile,      \* a name without a file
  MaxVersion   \* bound: changes of the state that is saved

Inodes == 1..(Cardinality(Writers) + 2)

ASSUME StateFileAssumption == NoFile \notin Inodes /\ MaxVersion \in Nat

Empty == -1
Torn == -2
Contents == 0..MaxVersion \cup {Empty, Torn}

\* path, tmp: the inodes of the two names; held, taken: the inode a writer has
\* open and the version of its snapshot.
NewFiles == [data |-> << >>, path |-> NoFile, tmp |-> NoFile,
             held |-> [w \in Writers |-> NoFile], taken |-> [w \in Writers |-> 0]]

FilesTyped(f) ==
  /\ f.data \in [DOMAIN f.data -> Contents] /\ DOMAIN f.data \subseteq Inodes
  /\ {f.path, f.tmp} \cup Range(f.held) \subseteq DOMAIN f.data \cup {NoFile}
  /\ f.taken \in [Writers -> 0..MaxVersion]

\* What LoadState finds.
Loaded(f) == IF f.path = NoFile THEN Empty ELSE f.data[f.path]
Loads(f) == f.path # NoFile => Loaded(f) \in 0..MaxVersion

Linked(f) ==
  [f EXCEPT !.data = Restrict(@, DOMAIN @ \cap (Range(f.held) \cup {f.path, f.tmp}))]

\* os.WriteFile, first part: the file is created, or cut to nothing.
Open(f, w) ==
  LET i == IF f.tmp # NoFile THEN f.tmp
           ELSE CHOOSE n \in Inodes \ DOMAIN f.data : TRUE
  IN [f EXCEPT !.data = [j \in DOMAIN @ \cup {i} |-> IF j = i THEN Empty ELSE @[j]],
               !.tmp = i, !.held[w] = i]

\* Second part. Bytes of another writer that are there already stay behind the
\* end of a shorter state. A write that fails leaves a part.
Written(f, w) ==
  LET old == f.data[f.held[w]]
  IN IF old \in {Empty, f.taken[w]} THEN {f.taken[w]} ELSE {f.taken[w], Torn}
Write(f, w, bytes) == Linked([f EXCEPT !.data[f.held[w]] = bytes, !.held[w] = NoFile])

\* os.Rename, of a temporary file that is there.
Rename(f) == Linked([f EXCEPT !.path = f.tmp, !.tmp = NoFile])

\* os.Remove, after a rename that failed: the file that has the name by then.
Unlink(f) == IF f.tmp = NoFile THEN f ELSE Linked([f EXCEPT !.tmp = NoFile])
============================================================================
