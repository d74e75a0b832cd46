----------------------------- MODULE DiskQueue -----------------------------
(***************************************************************************)
(* The disk queue of a session: SubmitDiskTask and processDiskTasks of     *)
(* session.go, and the tasks of async_disk.go.                             *)
(*                                                                         *)
(* The tick starts the task at the head of the queue in a goroutine of its *)
(* own, one at a time; the result comes back through the channel           *)
(* diskResults, and the tick that receives it removes the task and calls   *)
(* OnCompleted, which may submit more tasks.                               *)
(***************************************************************************)
EXTENDS PieceStore, Sequences

VARIABLES
  tasks,    \* diskTasks; the head is the task that runs
  disk,     \* the head: "idle", or "done" when its result is in diskResults
  outcome   \* of a done task: it succeeded, or the piece hash matched

diskVars == <<tasks, disk, outcome>>

WriteTasks   == [kind : {"write"}, block : Blocks, bytes : Bytes]
HashTasks    == [kind : {"hash"}, piece : Pieces]
RestoreTasks == [kind : {"restore"}, block : Blocks]
ReleaseTasks == [kind : {"release"}, deleteFile : BOOLEAN]

Tasks == WriteTasks \union HashTasks \union RestoreTasks \union ReleaseTasks

AsyncWrite(b, c)     == [kind |-> "write", block |-> b, bytes |-> c]
AsyncHash(p)         == [kind |-> "hash", piece |-> p]
AsyncRestore(b)      == [kind |-> "restore", block |-> b]
AsyncRelease(delete) == [kind |-> "release", deleteFile |-> delete]

Queued(task) == \E i \in DOMAIN tasks : tasks[i] = task

DiskInit == tasks = <<>> /\ disk = "idle" /\ outcome = TRUE

\* The tick starts the task at the head in its goroutine; the goroutine works
\* on the store, which nothing else touches, and sends its result.  One step:
\* only the store shows what happens between the start and the result.
RunHead(ok) ==
  /\ disk = "idle"
  /\ disk' = "done"
  /\ outcome' = ok
  /\ UNCHANGED tasks

\* The tick removes the finished task; OnCompleted submits followups.
RemoveDone(followups) ==
  /\ tasks' = Tail(tasks) \o followups
  /\ disk' = "idle"
  /\ outcome' = TRUE

\* A handler or an API call submits tasks.
Submit(new) ==
  /\ tasks' = tasks \o new
  /\ UNCHANGED <<disk, outcome>>

=============================================================================
