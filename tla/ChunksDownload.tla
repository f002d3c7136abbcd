--------------------------- MODULE ChunksDownload ---------------------------
(***************************************************************************)
(* One file, downloaded in chunks from several servers: FileHttpRequest of *)
(* libs/platform/http_request.cpp with ChunksDownloadStrategy              *)
(* (libs/platform/chunks_download_strategy.cpp).                           *)
(*                                                                         *)
(* Each server downloads one chunk at a time, in an HTTP thread of the     *)
(* platform; OnWrite and OnFinish are called on the GUI thread, so that a  *)
(* finished chunk is one step.  The data go to the file .downloading, the  *)
(* statuses of the chunks to the file .resume; both survive the process,   *)
(* what FileWriter buffers does not.                                       *)
(***************************************************************************)
EXTENDS Integers, FiniteSets, SequencesExt

CONSTANTS
  ServersCount,  \* how many URLs GetFile is given
  ChunksCount,   \* chunks of the file; each has length 1, at positions from 0
  NoFile,        \* the content of a file that is not there
  Cleans,        \* m_doCleanProgressFiles: what GetFile may be told
  Events,        \* what may happen besides chunks being downloaded
  MaxEvents      \* how many such events happen

ASSUME CountsAssumption == ServersCount \in Nat \ {0} /\ ChunksCount \in Nat \ {0}
ASSUME NoFileAssumption == \A S \in SUBSET (0..ChunksCount - 1) : NoFile # S
ASSUME CleansAssumption == Cleans \subseteq BOOLEAN
ASSUME EventsAssumption == MaxEvents \in Nat

VARIABLES
  chunks,    \* m_chunks
  servers,   \* m_servers: the chunk each downloads, or SERVER_READY
  threads,   \* m_threads: the position each HTTP thread began at
  status,    \* m_status, "none" without a request
  cleans,    \* m_doCleanProgressFiles
  todo,      \* what the GUI thread does next with the files
  buffered,  \* positions whose data FileWriter has not flushed
  partial,   \* .downloading: positions whose data it has, or NoFile
  resume,    \* .resume: the saved chunks, or NoFile
  target,    \* the finished file: its positions, or NoFile
  left       \* how many events may still come

requestVars == <<chunks, servers, threads, status, cleans>>
fileVars == <<buffered, partial, resume, target>>
vars == <<requestVars, todo, fileVars, left>>

SERVER_READY == 0
Positions == 0..ChunksCount - 1
Indices == DOMAIN chunks

Chunk(pos, st) == [pos |-> pos, status |-> st]
MayHappen(event) == event \in Events /\ left > 0

-----------------------------------------------------------------------------
(* ChunksDownloadStrategy, as functions of its state [chunks, servers] and of *)
(* the threads that were started for it.                                      *)

\* The last chunk only holds the end of the file.
InitChunks ==
  [k \in 1..ChunksCount |-> Chunk(k - 1, "free")] \o <<Chunk(ChunksCount, "aux")>>

Strategy == [chunks |-> chunks, servers |-> servers, threads |-> threads]

\* The chunks that NextChunk looks at: all but the last.
With(s, st) == {k \in 1..Len(s.chunks) - 1 : s.chunks[k].status = st}
FreeServers(s) == {k \in DOMAIN s.servers : s.servers[k] = SERVER_READY}

\* Mutant: chunks that are being downloaded count as complete.
ResultInHaste(s) ==
  CASE s.servers = <<>> -> "failed"
    [] s.servers # <<>> /\ FreeServers(s) = {} -> "noFreeServers"
    [] FreeServers(s) # {} /\ With(s, "free") # {} -> "nextChunk"
    [] OTHER -> "succeeded"

\* What NextChunk returns.
Result(s) ==
  CASE s.servers = <<>> -> "failed"
    [] s.servers # <<>> /\ FreeServers(s) = {} -> "noFreeServers"
    [] FreeServers(s) # {} /\ With(s, "free") # {} -> "nextChunk"
    [] OTHER -> IF With(s, "downloading") = {} THEN "succeeded" ELSE "noFreeServers"

\* The first free server gets the first free chunk, and a thread.
Assign(s) ==
  LET server == Min(FreeServers(s))
      k == Min(With(s, "free"))
  IN  [s EXCEPT !.servers[server] = k, !.chunks[k].status = "downloading",
                !.threads = Append(@, s.chunks[k].pos)]

NextChunk(s) == IF Result(s) = "nextChunk" THEN Assign(s) ELSE s

\* StartThreads: until NextChunk has nothing for anybody.  The one-element sets
\* make TLC evaluate each state of the strategy once.
StartThreads(s) ==
  LET after[n \in 0..Len(s.servers)] ==
        IF n = 0 THEN s ELSE CHOOSE t \in {NextChunk(u) : u \in {after[n - 1]}} : TRUE
  IN  after[Len(s.servers)]

\* GetChunk: std::lower_bound, in chunks that may not be sorted.
LowerBound(s, pos) ==
  LET search[first \in 1..Len(s.chunks) + 1, len \in 0..Len(s.chunks)] ==
        LET half == len \div 2 IN
        IF len = 0 THEN first
        ELSE IF s.chunks[first + half].pos < pos
               THEN search[first + half + 1, len - half - 1]
               ELSE search[first, half]
  IN  search[1, Len(s.chunks)]

\* The server that the strategy believes to download the chunk at pos.
ServersOf(s, pos) ==
  LET k == LowerBound(s, pos) IN
  IF k \in DOMAIN s.chunks /\ s.chunks[k].pos = pos
    THEN {n \in DOMAIN s.servers : s.servers[n] = k} ELSE {}

ChunkSucceeded(s, pos) ==
  LET found == ServersOf(s, pos) IN
  IF found = {} THEN s
  ELSE [s EXCEPT !.servers[Min(found)] = SERVER_READY,
                 !.chunks[s.servers[Min(found)]].status = "complete"]

\* Mutant: the chunk of a failed server is nobody's.
ChunkLost(s, pos) ==
  LET found == ServersOf(s, pos) IN
  IF found = {} THEN s ELSE [s EXCEPT !.servers = RemoveAt(@, Min(found))]

\* A server that failed once is not asked again.
ChunkFailed(s, pos) ==
  LET found == ServersOf(s, pos) IN
  IF found = {} THEN s
  ELSE [s EXCEPT !.servers = RemoveAt(@, Min(found)),
                 !.chunks[s.servers[Min(found)]].status = "free"]

-----------------------------------------------------------------------------
(* The request. *)

\* LoadOrInitChunks: all but the last chunk and the complete ones become "free".  A
\* .resume file that cannot be read, or is one of a file of another size, is none.
Loaded ==
  IF resume = NoFile THEN InitChunks
  ELSE [k \in DOMAIN resume |->
          IF k < Len(resume) /\ resume[k].status # "complete"
            THEN Chunk(resume[k].pos, "free") ELSE resume[k]]

\* GetFile: the constructor of FileHttpRequest.  Without .downloading it calls
\* InitChunks once more, which adds to the chunks that were loaded.
GetFile ==
  LET resumes == \E k \in DOMAIN Loaded : Loaded[k].status = "complete"
      first == [chunks |-> IF resumes /\ partial = NoFile THEN Loaded \o InitChunks ELSE Loaded,
                servers |-> [n \in 1..ServersCount |-> SERVER_READY],
                threads |-> <<>>]
  IN
  /\ status # "inProgress" /\ todo = "nothing"
  /\ target = NoFile
  /\ status' = "inProgress"
  /\ \E s \in {StartThreads(first)} :
       chunks' = s.chunks /\ servers' = s.servers /\ threads' = s.threads
  /\ cleans' \in Cleans
  /\ partial' = IF resumes /\ partial # NoFile THEN partial ELSE {}
  /\ buffered' = {}
  /\ UNCHANGED <<todo, resume, target, left>>

\* Mutant: the statuses are saved before the data are flushed.
SaveUnflushed(s, written) ==
  /\ resume' = s.chunks
  /\ UNCHANGED <<partial, left>> /\ buffered' = written

\* SaveResumeChunks: the data first, then the statuses.  If the data cannot be
\* flushed they stay in the buffer; if .resume cannot be written it is removed.
SaveResumeChunks(s, written) ==
  \/ /\ resume' = s.chunks
     /\ partial' = partial \cup written /\ buffered' = {}
     /\ UNCHANGED left
  \/ /\ MayHappen("nospace") /\ left' = left - 1
     /\ \/ UNCHANGED <<resume, partial>> /\ buffered' = written
        \/ resume' = NoFile /\ partial' = partial \cup written /\ buffered' = {}

\* One chunk more, or one server less, and the download goes on.
GoOn(s, ok, written) ==
  /\ Result(s) \notin {"failed", "succeeded"}
  /\ IF ok THEN SaveResumeChunks(s, written)
           ELSE buffered' = written /\ UNCHANGED <<resume, partial, left>>
  /\ UNCHANGED <<status, todo, target>>

\* No server is left: the chunks are saved and the file is closed.
Fail(s, written) ==
  /\ Result(s) = "failed"
  /\ status' = "failed"
  /\ \/ resume' = s.chunks /\ partial' = partial \cup written /\ UNCHANGED left
     \/ /\ MayHappen("nospace") /\ left' = left - 1
        /\ \/ UNCHANGED resume /\ partial' \in {partial, partial \cup written}
           \/ resume' = NoFile /\ partial' = partial \cup written
  /\ buffered' = {}
  /\ UNCHANGED <<todo, target>>

\* All chunks are complete; .resume is removed and .downloading renamed next.
Complete(s, written) ==
  /\ Result(s) = "succeeded"
  /\ \/ /\ status' = "completed" /\ todo' = "removeResume"
        /\ partial' = partial \cup written
        /\ UNCHANGED left
     \/ /\ MayHappen("nospace") /\ left' = left - 1
        /\ status' = "failed" /\ UNCHANGED todo
        /\ partial' \in {partial, partial \cup written}
  /\ buffered' = {}
  /\ UNCHANGED <<resume, target>>

\* A thread is done with its chunk, or its server failed.
OnFinish(pos, ok) ==
  LET finished == IF ok THEN ChunkSucceeded(Strategy, pos) ELSE ChunkFailed(Strategy, pos)
      remaining == [finished EXCEPT !.threads = RemoveFirst(@, pos)]
      written == IF ok THEN buffered \cup {pos} ELSE buffered
  IN
  /\ status = "inProgress" /\ Contains(threads, pos)
  /\ \E s \in {StartThreads(remaining)} :
       /\ chunks' = s.chunks /\ servers' = s.servers /\ threads' = s.threads
       /\ GoOn(s, ok, written) \/ Fail(s, written) \/ Complete(s, written)
  /\ UNCHANGED cleans

\* A server fails; 404 differs by the status that is reported only.  None has data from
\* behind the end: chunks that were listed twice have an end in the middle, which
\* LoadOrInitChunks frees.
OnFailure(pos) ==
  /\ pos = ChunksCount \/ "failure" \in Events
  /\ OnFinish(pos, FALSE)

\* ~FileHttpRequest while the download is in progress: the client cancels it.
Cancel ==
  /\ status = "inProgress"
  /\ MayHappen("cancel") /\ left' = left - 1
  /\ chunks' = <<>> /\ servers' = <<>> /\ threads' = <<>>
  /\ status' = "none"
  /\ partial' = IF cleans THEN NoFile ELSE partial \cup buffered
  /\ buffered' = {}
  /\ todo' = IF cleans THEN "removeResume" ELSE todo
  /\ UNCHANGED <<cleans, resume, target>>

\* The second file is removed, after success or after cancelling.
RemoveResume ==
  /\ todo = "removeResume"
  /\ resume' = NoFile
  /\ todo' = IF status = "completed" THEN "rename" ELSE "nothing"
  /\ UNCHANGED <<requestVars, buffered, partial, target, left>>

Rename ==
  /\ todo = "rename"
  /\ target' = partial /\ partial' = NoFile
  /\ todo' = "nothing"
  /\ UNCHANGED <<requestVars, buffered, resume, left>>

\* The process is killed, maybe while it writes .resume.  Between the two removals
\* of a cancelled request that is an event of its own.
Crash ==
  /\ MayHappen(IF todo = "removeResume" /\ status = "none" THEN "crashInCancel" ELSE "crash")
  /\ left' = left - 1
  /\ status = "inProgress" \/ todo # "nothing"
  /\ chunks' = <<>> /\ servers' = <<>> /\ threads' = <<>>
  /\ status' = "none"
  /\ todo' = "nothing"
  /\ buffered' = {}
  /\ resume' \in IF status = "inProgress" THEN {resume, NoFile} ELSE {resume}
  /\ UNCHANGED <<cleans, partial, target>>

-----------------------------------------------------------------------------
(* The specification. *)

Init ==
  /\ chunks = <<>> /\ servers = <<>> /\ threads = <<>>
  /\ status = "none" /\ cleans = FALSE
  /\ todo = "nothing"
  /\ buffered = {} /\ partial = NoFile /\ resume = NoFile /\ target = NoFile
  /\ left = MaxEvents

ThreadsEnd ==
  \/ \E pos \in Positions : OnFinish(pos, TRUE)
  \/ \E pos \in 0..ChunksCount : OnFailure(pos)
GuiGoesOn == RemoveResume \/ Rename

Next == GetFile \/ ThreadsEnd \/ Cancel \/ GuiGoesOn \/ Crash

Spec == Init /\ [][Next]_vars

\* Each HTTP thread ends, with the chunk or with an error.
FairSpec == Spec /\ WF_vars(ThreadsEnd) /\ WF_vars(GuiGoesOn)

-----------------------------------------------------------------------------
(* Properties. *)

IsChunks(s) ==
  \A k \in DOMAIN s :
    s[k].pos \in 0..ChunksCount /\ s[k].status \in {"free", "downloading", "complete", "aux"}

\* Every variable keeps its type, and the last chunk is always the end of the file.
TypeOK ==
  /\ IsChunks(chunks)
  /\ chunks # <<>> => Last(chunks) = Chunk(ChunksCount, "aux")
  /\ \A n \in DOMAIN servers : servers[n] \in Indices \cup {SERVER_READY}
  /\ \A n \in DOMAIN threads : threads[n] \in 0..ChunksCount
  /\ status \in {"none", "inProgress", "completed", "failed"}
  /\ cleans \in BOOLEAN
  /\ todo \in {"nothing", "removeResume", "rename"}
  /\ buffered \subseteq Positions
  /\ {partial, target} \subseteq (SUBSET Positions) \cup {NoFile}
  /\ resume # NoFile => IsChunks(resume) /\ Last(resume) = Chunk(ChunksCount, "aux")
  /\ left \in 0..MaxEvents

\* Each chunk that is being downloaded has one server and one thread, and each
\* server that is not free has such a chunk (m_servers, m_chunks, m_threads).
ServersMatchThreads ==
  LET Busy == {n \in DOMAIN servers : servers[n] # SERVER_READY} IN
  /\ {servers[n] : n \in Busy} = With(Strategy, "downloading")
  /\ Cardinality(Busy) = Cardinality(With(Strategy, "downloading"))
  /\ Range(threads) = {chunks[servers[n]].pos : n \in Busy}
  /\ Len(threads) = Cardinality(Busy)

\* What .resume calls complete is in .downloading, so that it need not be
\* downloaded again after a restart (SaveResumeChunks flushes before it saves).
ResumeIsTrue ==
  resume # NoFile /\ partial # NoFile =>
    \A k \in DOMAIN resume : resume[k].status = "complete" => resume[k].pos \in partial

\* .resume always leaves something to download: the constructor starts threads and
\* ignores that there is nothing to start them for.
ResumeLeavesWork ==
  resume # NoFile => \E k \in DOMAIN resume : resume[k].status \in {"free", "downloading"}

\* The file that gets its name has all of its data (OnFinish).
TargetIsWhole == target \in {NoFile, Positions}

\* A download ends: it completes, fails, or is cancelled.
DownloadsEnd == status = "inProgress" ~> status # "inProgress"
====
