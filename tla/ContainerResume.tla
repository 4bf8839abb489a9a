--------------------------- MODULE ContainerResume ---------------------------
(***************************************************************************)
(* The segmented encryption of one container, <output>.enc, with its       *)
(* progress file, and the retries of the step that calls it.               *)
(*                                                                         *)
(* Several source files may be written to the same output.  A run reads    *)
(* the progress file, decides whether to resume, encrypts segment by       *)
(* segment, records each finished segment, appends the metadata and fills  *)
(* in the header.  It may end with an error or a cancel at any point; the  *)
(* key lives in the session and survives that, but not a new session.      *)
(***************************************************************************)
EXTENDS Integers, Sequences, FiniteSets

CONSTANTS
  Sources,        \* source files that are written to this output
  NameOf,         \* their base names
  Units,          \* length of every source, in read buffers
  ChunkSizes,     \* segment sizes an operator chooses from, in read buffers
  MaxVersions,    \* bound: modifications of each source
  MaxSessions,    \* bound: sessions, and so keys
  MaxNonces,      \* bound: nonces drawn
  MaxCells        \* bound: length of a container before its metadata

ASSUME SizesAssumption ==
  /\ Units \in Nat \ {0}
  /\ ChunkSizes \subseteq Nat \ {0}
  /\ MaxVersions \in Nat /\ MaxSessions \in Nat \ {0}
  /\ MaxNonces \in Nat /\ MaxCells \in Nat

VARIABLES
  version,    \* source -> its modification time
  container,  \* the .enc file
  progress,   \* the .enc.progress file
  run,        \* the call of encrypt_file in progress
  session,    \* the key held by the process
  drawn,      \* nonces drawn so far
  sealed,     \* what the last call of this session that succeeded returned
  leftover    \* history: a stale progress file could not be removed

resumeVars == <<version, container, progress, run, session, drawn, sealed, leftover>>

-----------------------------------------------------------------------------
(* Files.  A container is its header and its cells; a ciphertext cell holds *)
(* one encrypted buffer, a tag cell the tag of a segment.                   *)

NoContainer == [present |-> FALSE, header |-> 0, cells |-> <<>>]
NewContainer == [present |-> TRUE, header |-> 0, cells |-> <<>>]

NoProgress == [present |-> FALSE]

NotRunning == [stage |-> "idle"]
NotSealed == [done |-> FALSE]

Cipher(key, nonce, position, text) ==
  [kind |-> "cipher", key |-> key, nonce |-> nonce, position |-> position,
   text |-> text]
Tag(key, nonce) == [kind |-> "tag", key |-> key, nonce |-> nonce]
Metadata(segments, hash) ==
  [kind |-> "metadata", segments |-> segments, hash |-> hash]

(* The buffer number i of a source at a version, and a whole source. *)
Text(source, at, i) == <<source, at, i>>
WholeText(source, at) == [i \in 1 .. Units |-> Text(source, at, i)]

Binding(source) == [source |-> source, version |-> version[source]]

(* The number of segments, and the length of segment k (from 0). *)
SegmentCount(size) == (Units + size - 1) \div size
SegmentLength(size, k) ==
  IF (k + 1) * size <= Units THEN size ELSE Units - k * size

(* A finished segment is known by its nonce and the cell of its tag; the    *)
(* code keeps lengths and adds them up.                                     *)
Segment(nonce, end) == [nonce |-> nonce, end |-> end]
EndOf(segments) == IF segments = <<>> THEN 0 ELSE segments[Len(segments)].end
StartOf(segments, k) == IF k = 1 THEN 0 ELSE segments[k - 1].end

(* Writing one cell at a position overwrites what is there or appends. *)
WriteAt(cells, position, cell) ==
  IF position <= Len(cells)
  THEN [cells EXCEPT ![position] = cell]
  ELSE Append(cells, cell)

-----------------------------------------------------------------------------
(* The decryption: the metadata is found from the header and from the end  *)
(* of the file; each segment is read where the one before it ends and must *)
(* carry its nonce, its key and its tag; the hash must be the recorded one.*)

(* Before segment k, k - 1 of the cells are tags. *)
SegmentDecrypts(cells, segments, k, key, text) ==
  LET segment == segments[k]
      start == StartOf(segments, k)
  IN  /\ segment.end \in 1 .. Len(cells)
      /\ cells[segment.end] = Tag(key, segment.nonce)
      /\ \A c \in start + 1 .. segment.end - 1 :
           cells[c] = Cipher(key, segment.nonce, c - start, text[c - (k - 1)])

SegmentsDecrypt(cells, segments, key, text) ==
  \A k \in 1 .. Len(segments) : SegmentDecrypts(cells, segments, k, key, text)

Decrypts(file, key, text) ==
  LET n == Len(file.cells)
      metadata == file.cells[n]
  IN  /\ file.present
      /\ n > 0
      /\ file.header = n
      /\ metadata.kind = "metadata"
      /\ metadata.hash = text
      /\ EndOf(metadata.segments) - Len(metadata.segments) = Len(text)
      /\ SegmentsDecrypt(file.cells, metadata.segments, key, text)

-----------------------------------------------------------------------------
ResumeInit ==
  /\ version = [s \in Sources |-> 0]
  /\ container = NoContainer
  /\ progress = NoProgress
  /\ run = NotRunning
  /\ session = 1
  /\ drawn = 0
  /\ sealed = NotSealed
  /\ leftover = FALSE

-----------------------------------------------------------------------------
(* Deciding whether to resume.                                              *)

(* A progress file for another name or another segment size is left alone. *)
Ignored(source, size) ==
  /\ progress.present
  /\ \/ progress.name # NameOf[source]
     \/ progress.size # size


ContainerCovers(segments) ==
  /\ container.present
  /\ Len(container.cells) >= EndOf(segments)

ResumableFromAny(source, size) ==   \* mutant: the binding is not compared
  /\ progress.present
  /\ ~Ignored(source, size)
  /\ progress.key = session
  /\ Len(progress.segments) <= SegmentCount(size)
  /\ ContainerCovers(progress.segments)

Resumable(source, size) ==
  /\ progress.present
  /\ ~Ignored(source, size)
  /\ progress.binding = Binding(source)
  /\ progress.key = session
  /\ Len(progress.segments) <= SegmentCount(size)
  /\ ContainerCovers(progress.segments)

(* A run that resumes hashes the whole source before it goes on; one that  *)
(* starts afresh hashes what it reads.                                     *)
StartedAtZero(source, size, segments, fresh, hash) ==   \* mutant: no seek
  [stage |-> "reading", binding |-> Binding(source), size |-> size,
   segments |-> segments, position |-> 0, nonce |-> 0,
   filled |-> 0, fresh |-> fresh, hash |-> hash]

Started(source, size, segments, fresh, hash) ==
  [stage |-> "reading", binding |-> Binding(source), size |-> size,
   segments |-> segments, position |-> EndOf(segments), nonce |-> 0,
   filled |-> 0, fresh |-> fresh, hash |-> hash]

StartFresh(source, size) ==
  /\ ~progress.present \/ Ignored(source, size)
  /\ container' = NewContainer
  /\ run' = Started(source, size, <<>>, TRUE, <<>>)
  /\ UNCHANGED <<progress, leftover>>

(* What cannot be resumed is removed; a removal that fails is only logged. *)
StartDiscarding(source, size) ==
  /\ progress.present
  /\ ~Ignored(source, size)
  /\ ~Resumable(source, size)
  /\ \/ progress' = NoProgress /\ UNCHANGED leftover
     \/ leftover' = TRUE /\ UNCHANGED progress
  /\ container' = NewContainer
  /\ run' = Started(source, size, <<>>, TRUE, <<>>)

StartResuming(source, size) ==
  /\ Resumable(source, size)
  /\ run' = Started(source, size, progress.segments, FALSE,
                    WholeText(source, version[source]))
  /\ UNCHANGED <<container, progress, leftover>>

Start(source, size) ==
  /\ run = NotRunning
  /\ ~sealed.done
  /\ \/ StartFresh(source, size)
     \/ StartDiscarding(source, size)
     \/ StartResuming(source, size)
  /\ UNCHANGED <<version, session, drawn, sealed>>

-----------------------------------------------------------------------------
(* Writing.  run.position is the place in the file, in cells.               *)

Remaining == Len(run.segments) < SegmentCount(run.size)
CurrentLength == SegmentLength(run.size, Len(run.segments))

BeginSegment ==
  /\ run.stage = "reading"
  /\ Remaining
  /\ drawn < MaxNonces
  /\ drawn' = drawn + 1
  /\ run' = [run EXCEPT !.stage = "encrypting", !.nonce = drawn + 1,
                        !.filled = 0]
  /\ UNCHANGED <<version, container, progress, session, sealed, leftover>>

(* One buffer of the source, as it is now, is hashed and encrypted. *)
EncryptBuffer ==
  LET source == run.binding.source
      text == Text(source, version[source],
                   Len(run.segments) * run.size + run.filled + 1)
  IN  /\ run.stage = "encrypting"
      /\ run.filled < CurrentLength
      /\ container' = [container EXCEPT !.cells =
           WriteAt(@, run.position + 1,
                   Cipher(session, run.nonce, run.filled + 1, text))]
      /\ run' = [run EXCEPT !.position = @ + 1, !.filled = @ + 1,
                            !.hash = IF run.fresh THEN Append(@, text) ELSE @]
      /\ UNCHANGED <<version, progress, session, drawn, sealed, leftover>>

WriteTag ==
  /\ run.stage = "encrypting"
  /\ run.filled = CurrentLength
  /\ container' = [container EXCEPT !.cells =
       WriteAt(@, run.position + 1, Tag(session, run.nonce))]
  /\ run' = [run EXCEPT !.stage = "saving", !.position = @ + 1,
                        !.segments = Append(@, Segment(run.nonce,
                                                       run.position + 1))]
  /\ UNCHANGED <<version, progress, session, drawn, sealed, leftover>>

(* The progress file is replaced as a whole. *)
SaveProgress ==
  /\ run.stage = "saving"
  /\ progress' = [present |-> TRUE, name |-> NameOf[run.binding.source],
                  size |-> run.size, binding |-> run.binding,
                  key |-> session, segments |-> run.segments]
  /\ run' = [run EXCEPT !.stage = "reading"]
  /\ UNCHANGED <<version, container, session, drawn, sealed, leftover>>

AppendMetadata ==
  /\ run.stage = "reading"
  /\ ~Remaining
  /\ Len(container.cells) <= MaxCells
  /\ container' = [container EXCEPT !.cells =
                    Append(@, Metadata(run.segments, run.hash))]
  /\ run' = [run EXCEPT !.stage = "header"]
  /\ UNCHANGED <<version, progress, session, drawn, sealed, leftover>>

FillHeader ==
  /\ run.stage = "header"
  /\ container' = [container EXCEPT !.header = Len(container.cells)]
  /\ run' = [run EXCEPT !.stage = "removing"]
  /\ UNCHANGED <<version, progress, session, drawn, sealed, leftover>>

(* The call returns.  steady: its source was not modified meanwhile. *)
Return ==
  /\ run.stage = "removing"
  /\ progress' = NoProgress
  /\ run' = NotRunning
  /\ sealed' = [done |-> TRUE, binding |-> run.binding,
                steady |-> run.binding = Binding(run.binding.source)]
  /\ UNCHANGED <<version, container, session, drawn, leftover>>

-----------------------------------------------------------------------------
(* A cancel, or an error of any write: the files stay as they are and the  *)
(* next try has the same key.                                              *)
Stop ==
  /\ run.stage # "idle"
  /\ run' = NotRunning
  /\ UNCHANGED <<version, container, progress, session, drawn, sealed, leftover>>

(* The session ends: by closing the wizard, which joins the run and removes *)
(* unfinished output as far as it can, or by a crash, which removes nothing.*)
EndSession ==
  /\ session < MaxSessions
  /\ session' = session + 1
  /\ run' = NotRunning
  /\ sealed' = NotSealed
  /\ \/ UNCHANGED <<container, progress>>
     \/ /\ ~sealed.done
        /\ container' = NoContainer
        /\ progress' = NoProgress \/ UNCHANGED progress
     \/ ~sealed.done /\ progress' = NoProgress /\ UNCHANGED container
  /\ UNCHANGED <<version, drawn, leftover>>

(* Outside this program: a source is modified, or the unfinished container *)
(* is deleted.                                                             *)
Modify(source) ==
  /\ version[source] < MaxVersions
  /\ version' = [version EXCEPT ![source] = @ + 1]
  /\ UNCHANGED <<container, progress, run, session, drawn, sealed, leftover>>

DeleteContainer ==
  /\ run = NotRunning
  /\ ~sealed.done
  /\ container.present
  /\ container' = NoContainer
  /\ UNCHANGED <<version, progress, run, session, drawn, sealed, leftover>>

Encrypt ==
  \/ BeginSegment \/ EncryptBuffer \/ WriteTag \/ SaveProgress
  \/ AppendMetadata \/ FillHeader \/ Return

ResumeNext ==
  \/ \E s \in Sources, c \in ChunkSizes : Start(s, c)
  \/ Encrypt
  \/ Stop
  \/ EndSession
  \/ \E s \in Sources : Modify(s)
  \/ DeleteContainer

ResumeSpec == ResumeInit /\ [][ResumeNext]_resumeVars

-----------------------------------------------------------------------------
(* The stage decides what a call holds, positions lie in the file, and a   *)
(* progress file names a source and a size that were chosen.               *)
ResumeTypeOK ==
  /\ version \in [Sources -> 0 .. MaxVersions]
  /\ session \in 1 .. MaxSessions /\ drawn \in 0 .. MaxNonces
  /\ container.header \in 0 .. Len(container.cells)
  /\ container.present \/ container = NoContainer
  /\ progress.present =>
       /\ progress.size \in ChunkSizes
       /\ progress.key \in 1 .. session
       /\ Len(progress.segments) \in 1 .. SegmentCount(progress.size)
  /\ run # NotRunning =>
       /\ run.stage \in {"reading", "encrypting", "saving", "header", "removing"}
       /\ run.size \in ChunkSizes
       /\ run.position \in 0 .. Len(container.cells)
       /\ run.filled \in 0 .. run.size
       /\ run.position = EndOf(run.segments)
            + (IF run.stage = "encrypting" THEN run.filled ELSE 0)

(* A container that encrypt_file reported complete decrypts, under the key *)
(* of the session, to the source it was made from: through every cancel,   *)
(* error, deletion and resume before, whichever sources and versions were  *)
(* written to the same output meanwhile.  Two things are excluded: a source *)
(* modified during the call that completes, and an earlier call that could *)
(* not remove a stale progress file.                                       *)
CompletedContainerDecrypts ==
  sealed.done /\ sealed.steady /\ ~leftover =>
    Decrypts(container, session,
             WholeText(sealed.binding.source, sealed.binding.version))

=============================================================================
