--------------------------- MODULE RecordedRomTest ---------------------------
(***************************************************************************)
(* The movie-test recorder (src/Core/Shared/RecordedRomTest.cpp): Record   *)
(* opens the .mrt file and starts recording; every PpuFrameDone            *)
(* notification then adds the frame's MD5 to a run-length encoding         *)
(* (SaveFrame); Stop saves (Save is empty) and resets.  A frame is its      *)
(* hash, a member of Hashes; NoHash is the 0xFF-filled _previousHash that   *)
(* no frame hashes to.  Run is a stub that returns an error code and       *)
(* changes nothing, so _runningTest is never set and ValidateFrame is      *)
(* never reached: neither is modelled.                                     *)
(***************************************************************************)
EXTENDS Naturals, Sequences, SequencesExt

CONSTANTS
  Hashes,     \* the MD5 sums of the frames the PPU can produce
  NoHash,     \* memset(_previousHash, 0xFF, 16)
  Cap,        \* the longest run one count holds (255)
  MaxFrames   \* frames recorded since the last Reset, at most

ASSUME NoHash \notin Hashes /\ Cap \in Nat \ {0} /\ MaxFrames \in Nat

VARIABLES
  listening,         \* registered with the NotificationManager
  fileOpen,          \* _file is open (nothing in this code closes it)
  recording,         \* _recording
  previousHash,      \* _previousHash
  currentCount,      \* _currentCount: frames in the run not yet pushed
  repetitionCount,   \* _repetitionCount
  screenshotHashes,  \* _screenshotHashes
  frames             \* the hashes of the frames seen since recording began

vars == <<listening, fileOpen, recording, previousHash, currentCount,
          repetitionCount, screenshotHashes, frames>>

TypeOK ==
  /\ listening \in BOOLEAN
  /\ fileOpen \in BOOLEAN
  /\ recording \in BOOLEAN
  /\ previousHash \in Hashes \cup {NoHash}
  /\ currentCount \in 0..Cap
  /\ repetitionCount \in Seq(Nat)
  /\ screenshotHashes \in Seq(Hashes)
  /\ frames \in Seq(Hashes)

\* Reset (lines 91-106) but its last flag: the recording is dropped
\* (_runningTest and _badFrameCount, always false and 0 here, left out).
ClearRecording ==
  /\ previousHash' = NoHash
  /\ currentCount' = 0
  /\ repetitionCount' = << >>
  /\ screenshotHashes' = << >>
  /\ frames' = << >>

Reset == ClearRecording /\ recording' = FALSE

\* The constructor: not yet registered, no file, and Reset.
Init ==
  /\ listening = FALSE
  /\ fileOpen = FALSE
  /\ recording = FALSE
  /\ previousHash = NoHash
  /\ currentCount = 0
  /\ repetitionCount = << >>
  /\ screenshotHashes = << >>
  /\ frames = << >>

\* Record (lines 108-137): register as a listener and open the file.
\* ofstream::open on a stream that is already open fails; otherwise the
\* open may fail (a free choice).  If it opened: under _emu->Lock(), so no
\* frame comes between, Reset and start recording.  If not, nothing else
\* changes: a recording already under way goes on.
Record ==
  /\ listening' = TRUE
  /\ \E opened \in IF fileOpen THEN {FALSE} ELSE BOOLEAN :
       IF opened
         THEN /\ fileOpen' = TRUE
              /\ ClearRecording
              /\ recording' = TRUE
         ELSE UNCHANGED <<fileOpen, recording, previousHash, currentCount,
                          repetitionCount, screenshotHashes, frames>>

\* Mutant: the cap is tested with <= 255, so a run grows one past it.
SaveFrameCapOffByOne(h) ==
  IF h = previousHash /\ currentCount <= Cap
    THEN /\ currentCount' = currentCount + 1
         /\ UNCHANGED <<previousHash, repetitionCount, screenshotHashes>>
    ELSE /\ screenshotHashes' = Append(screenshotHashes, h)
         /\ repetitionCount' = IF currentCount > 0 THEN Append(repetitionCount, currentCount)
                                                   ELSE repetitionCount
         /\ currentCount' = 1
         /\ previousHash' = h

\* Mutant: the "_currentCount > 0" test is dropped, so the first frame
\* pushes a count of 0.
SaveFramePushesZero(h) ==
  IF h = previousHash /\ currentCount < Cap
    THEN /\ currentCount' = currentCount + 1
         /\ UNCHANGED <<previousHash, repetitionCount, screenshotHashes>>
    ELSE /\ screenshotHashes' = Append(screenshotHashes, h)
         /\ repetitionCount' = Append(repetitionCount, currentCount)
         /\ currentCount' = 1
         /\ previousHash' = h

\* SaveFrame (lines 24-46): the same hash as the last frame lengthens the
\* run unless it already holds Cap frames; otherwise the hash is pushed,
\* the finished run's count with it (none before the first frame), and a
\* new run of 1 begins.  _signal.Signal() wakes no one in this code.
SaveFrame(h) ==
  IF h = previousHash /\ currentCount < Cap
    THEN /\ currentCount' = currentCount + 1
         /\ UNCHANGED <<previousHash, repetitionCount, screenshotHashes>>
    ELSE /\ screenshotHashes' = Append(screenshotHashes, h)
         /\ repetitionCount' = IF currentCount > 0 THEN Append(repetitionCount, currentCount)
                                                   ELSE repetitionCount
         /\ currentCount' = 1
         /\ previousHash' = h

\* ProcessNotification (lines 75-89) for PpuFrameDone, on the emulation
\* thread: a frame of hash h is recorded while recording and ignored
\* otherwise (_runningTest is never set).
PpuFrameDone ==
  /\ listening
  /\ \E h \in Hashes :
       IF recording
         THEN /\ Len(frames) < MaxFrames
              /\ SaveFrame(h)
              /\ frames' = Append(frames, h)
              /\ UNCHANGED <<listening, fileOpen, recording>>
         ELSE UNCHANGED vars

\* Stop (lines 147-153): Save (empty, line 155) if recording, then Reset.
\* The file stays open.
Stop ==
  /\ Reset
  /\ UNCHANGED <<listening, fileOpen>>

Next == Record \/ PpuFrameDone \/ Stop

Spec == Init /\ [][Next]_vars

-----------------------------------------------------------------------------
(* Properties                                                              *)

\* The frames a list of hashes and a list of run lengths stand for.
Decode(hs, cs) == FlattenSeq([i \in DOMAIN hs |-> [j \in 1..cs[i] |-> hs[i]]])

(* While recording, the pushed hashes with the pushed counts followed by   *)
(* the pending _currentCount encode exactly the frames seen, in order:   *)
(* one count per hash, every count between 1 and 255, and two runs of the *)
(* same hash side by side only where the first is full (SaveFrame, lines  *)
(* 31-44).                                                                 *)
RunLengthEncodes ==
  LET counts == IF screenshotHashes = << >> THEN << >>
                ELSE repetitionCount \o <<currentCount>>
  IN recording =>
       /\ Len(counts) = Len(screenshotHashes)
       /\ \A i \in DOMAIN counts : counts[i] \in 1..Cap
       /\ Decode(screenshotHashes, counts) = frames
       /\ \A i \in 1..Len(screenshotHashes) - 1 :
            screenshotHashes[i] = screenshotHashes[i + 1] => counts[i] = Cap

=============================================================================
