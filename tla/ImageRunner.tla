---------------------------- MODULE ImageRunner ----------------------------
(***************************************************************************)
(* One run of the image process (callable/codex-image-runner.ts and        *)
(* codex-image-output.ts): three requests to the Codex app server, a wait  *)
(* for an image, the copies of the files the server named, one answer on   *)
(* stdout.                                                                 *)
(*                                                                         *)
(* The server is external: lines come in chunks, in any order it likes,    *)
(* and it may end at any time.  The handler runs for every line of a chunk *)
(* before the awaiting code goes on, so what a race between promises       *)
(* returns depends on what settled first: seen.won records it.  An image   *)
(* signal reaches its race through one more then() and so loses to a turn  *)
(* or a protocol failure of the same chunk.  Texts of the Agent, debug     *)
(* output and the stage diagnostics are left out.                          *)
(***************************************************************************)
EXTENDS Naturals, Sequences, FiniteSets, SequencesExt

CONSTANTS
  ImageFiles,        \* files the server may name
  MaxImageAttempts,  \* DEFAULT_MAXIMUM_ATTEMPTS
  MaxChunkLines,     \* bound on the lines of one chunk
  MaxChunks          \* bound on the chunks

ASSUME ImageRunnerBounds ==
  /\ {MaxImageAttempts, MaxChunkLines, MaxChunks} \subseteq Nat \ {0}
  /\ IsFiniteSet(ImageFiles)

VARIABLES
  runStage,    \* where the awaiting code is
  runSeen,     \* what the line handler has recorded
  runServer,   \* TRUE while the server runs
  runFiles,    \* the state of every file on disk
  runCopies,   \* files to copy, attempts at the first of them, copies, last error
  runAnswer,   \* what was written on stdout
  runChunks    \* chunks so far, and the lines of the present one still to be handled

runnerVars == <<runStage, runSeen, runServer, runFiles, runCopies, runAnswer, runChunks>>

RequestStages == {"initialize", "thread/start", "turn/start"}

NextStage == [s \in RequestStages |->
  CASE s = "initialize" -> "thread/start"
    [] s = "thread/start" -> "turn/start"
    [] s = "turn/start" -> "image-result"]

NothingSeen ==
  [won |-> "none",         \* what the race of this stage has settled with
   image |-> FALSE,        \* hasImageResultSignal
   turn |-> FALSE,         \* hasTurnCompletionSignal
   completed |-> FALSE,    \* the promise of the turn's end has settled
   failed |-> FALSE,       \* protocolFailure has settled
   files |-> {}]           \* the files of the image items

NoRunAnswer == [kind |-> "none"]

NoCopies == [left |-> <<>>, tries |-> 0, done |-> {}, error |-> "none"]

----------------------------------------------------------------------------
(* The line handler.                                                       *)

ServerLines ==
  [line : {"result", "error", "junk"}]
    \cup [line : {"image"}, file : ImageFiles]
    \cup [line : {"turn"}, files : SUBSET ImageFiles]

FirstToSettle(seen, what) == IF seen.won = "none" THEN what ELSE seen.won

(* A line that is too long or no JSON: every later race is lost as well.   *)
ProtocolFailed(seen) == [seen EXCEPT !.failed = TRUE, !.won = FirstToSettle(seen, "failed")]

(* An item/completed of an image: remembered, and imageReady is signalled. *)
ImageItem(seen, file) ==
  [seen EXCEPT !.image = TRUE, !.files = @ \cup {file}]

(* turn/completed is noted always; it settles the promise once turn/start  *)
(* has set that up, and only its items that name a file count.             *)
TurnCompleted(seen, stage, files) ==
  IF stage \in {"turn/start", "image-result"} /\ ~seen.completed
  THEN [seen EXCEPT !.turn = TRUE, !.completed = TRUE, !.files = @ \cup files,
                    !.won = IF stage = "image-result" THEN FirstToSettle(seen, "turn") ELSE @]
  ELSE [seen EXCEPT !.turn = TRUE]

(* A response settles the pending request; without one it is ignored.  A   *)
(* thread/start result without a thread id counts as an error.             *)
ResponseSettles(seen, stage, what) ==
  IF stage \in RequestStages THEN [seen EXCEPT !.won = FirstToSettle(seen, what)] ELSE seen

HandleLine(seen, stage, l) ==
  CASE l.line = "junk" -> ProtocolFailed(seen)
    [] l.line = "result" -> ResponseSettles(seen, stage, "result")
    [] l.line = "error" -> ResponseSettles(seen, stage, "error")
    [] l.line = "image" -> ImageItem(seen, l.file)
    [] l.line = "turn" -> TurnCompleted(seen, stage, l.files)

----------------------------------------------------------------------------
(* The awaiting code.                                                      *)

(* The race between the turn's end, the image signal and a failure.        *)
ImageResultReady == runSeen.won # "none" \/ runSeen.image

InChunk == runChunks.lines > 0

(* Nothing can go on before the last line of a chunk has been handled.     *)
RunnerCanGo ==
  \/ InChunk
  \/ runStage \in RequestStages /\ runSeen.won # "none"
  \/ runStage = "image-result" /\ ImageResultReady

(* A chunk arrives while the code waits.                                   *)
ChunkArrives ==
  /\ runServer /\ runChunks.chunks < MaxChunks
  /\ runStage \in RequestStages \cup {"image-result"} /\ ~RunnerCanGo
  /\ \E n \in 1..MaxChunkLines : runChunks' = [chunks |-> runChunks.chunks + 1, lines |-> n]
  /\ UNCHANGED <<runStage, runSeen, runServer, runFiles, runCopies, runAnswer>>

(* The handler runs for the next line of the chunk.                        *)
LineArrives ==
  /\ InChunk
  /\ \E l \in ServerLines : runSeen' = HandleLine(runSeen, runStage, l)
  /\ runChunks' = [runChunks EXCEPT !.lines = @ - 1]
  /\ UNCHANGED <<runStage, runServer, runFiles, runCopies, runAnswer>>

(* More stderr than allowed, or the pipe to the server breaks.             *)
ServerStreamFails ==
  /\ runStage \in RequestStages \cup {"image-result"} /\ ~RunnerCanGo
  /\ runSeen' = ProtocolFailed(runSeen)
  /\ UNCHANGED <<runStage, runServer, runFiles, runCopies, runAnswer, runChunks>>

(* The server ends, by itself or because a signal to this process was      *)
(* passed on: a pending request fails; with neither an image nor a turn    *)
(* everything fails.                                                       *)
ServerEnds ==
  /\ runServer /\ ~RunnerCanGo
  /\ runServer' = FALSE
  /\ runSeen' = IF ~runSeen.image /\ ~runSeen.turn THEN ProtocolFailed(runSeen)
                ELSE ResponseSettles(runSeen, runStage, "error")
  /\ UNCHANGED <<runStage, runFiles, runCopies, runAnswer, runChunks>>

ImageRunFails(stage, code) ==
  /\ runStage' = "answered"
  /\ runAnswer' = [kind |-> "error", stage |-> stage, code |-> code]

(* A request that was answered is followed by the next one; its race meets *)
(* at once what has settled before.                                        *)
RequestDone ==
  /\ ~InChunk
  /\ runStage \in RequestStages /\ runSeen.won # "none"
  /\ IF runSeen.won = "result"
     THEN LET next == NextStage[runStage] IN
          /\ runStage' = next
          /\ runSeen' = [runSeen EXCEPT !.won =
               CASE next = "image-result" /\ runSeen.completed -> "turn"
                 [] ~(next = "image-result" /\ runSeen.completed) /\ runSeen.failed -> "failed"
                 [] OTHER -> "none"]
          /\ UNCHANGED runAnswer
     ELSE ImageRunFails(runStage, runSeen.won) /\ UNCHANGED runSeen
  /\ UNCHANGED <<runServer, runFiles, runCopies, runChunks>>

(* collectResult: every image that was named, by an item or by the turn.   *)
collectResult == SetToSeq(runSeen.files)

(* The race of the image stage is over: collectResult, then the copies.    *)
ImageResultDone ==
  /\ ~InChunk
  /\ runStage = "image-result" /\ ImageResultReady
  /\ IF runSeen.won = "failed" \/ runSeen.files = {}
     THEN /\ ImageRunFails("image-result", IF runSeen.won = "failed" THEN "failed" ELSE "missing")
          /\ UNCHANGED runCopies
     ELSE /\ runStage' = "persist"
          /\ runCopies' = [NoCopies EXCEPT !.left = collectResult]
          /\ UNCHANGED runAnswer
  /\ UNCHANGED <<runSeen, runServer, runFiles, runChunks>>

(* withTimeout: the wait of a stage is over before anything settled.       *)
StageTimesOut ==
  /\ runStage \in RequestStages \cup {"image-result"} /\ ~RunnerCanGo
  /\ ImageRunFails(runStage, "timeout")
  /\ UNCHANGED <<runSeen, runServer, runFiles, runCopies, runChunks>>

----------------------------------------------------------------------------
(* Copies.                                                                 *)

(* External: the server's file appears, is being written, is whole or not  *)
(* an image.  Nothing looks at a file before the copies begin.             *)
FileSettles ==
  /\ runStage = "persist"
  /\ \E f \in ImageFiles, s \in {"partial", "whole", "broken"} :
       /\ runFiles[f] \in {"absent", "partial"} /\ s # runFiles[f]
       /\ runFiles' = [runFiles EXCEPT ![f] = s]
  /\ UNCHANGED <<runStage, runSeen, runServer, runCopies, runAnswer, runChunks>>

(* persistOne: one attempt, retried after a delay until the last.          *)
CopyAttempt ==
  /\ runStage = "persist" /\ runCopies.left # <<>>
  /\ LET f == Head(runCopies.left) IN
     runCopies' =
       CASE runFiles[f] = "whole" ->
              [runCopies EXCEPT !.left = Tail(@), !.tries = 0, !.done = @ \cup {f}]
         [] runFiles[f] # "whole" /\ runCopies.tries + 1 < MaxImageAttempts ->
              [runCopies EXCEPT !.tries = @ + 1]
         [] OTHER ->
              [runCopies EXCEPT !.left = Tail(@), !.tries = 0,
                                !.error = IF runFiles[f] = "absent" THEN "not_ready" ELSE "invalid"]
  /\ UNCHANGED <<runStage, runSeen, runServer, runFiles, runAnswer, runChunks>>

(* One copy is enough; without any the last error decides the code.        *)
CopiesDone ==
  /\ runStage = "persist" /\ runCopies.left = <<>>
  /\ IF runCopies.done # {}
     THEN /\ runStage' = "answered"
          /\ runAnswer' = [kind |-> "image", images |-> runCopies.done]
     ELSE ImageRunFails("persist", runCopies.error)
  /\ UNCHANGED <<runSeen, runServer, runFiles, runCopies, runChunks>>

----------------------------------------------------------------------------
ImageRunnerInit ==
  /\ runStage = "initialize"
  /\ runSeen = NothingSeen
  /\ runServer = TRUE
  /\ runFiles = [f \in ImageFiles |-> "absent"]
  /\ runCopies = NoCopies
  /\ runAnswer = NoRunAnswer
  /\ runChunks = [chunks |-> 0, lines |-> 0]

ImageRunnerNext ==
  \/ ChunkArrives
  \/ LineArrives
  \/ ServerStreamFails
  \/ ServerEnds
  \/ RequestDone
  \/ ImageResultDone
  \/ StageTimesOut
  \/ FileSettles
  \/ CopyAttempt
  \/ CopiesDone

ImageRunnerSpec == ImageRunnerInit /\ [][ImageRunnerNext]_runnerVars

----------------------------------------------------------------------------
(* The answer tells what became of the image: an image is answered only    *)
(* with whole files the server named, and once an image was seen while the *)
(* stage waited for it, neither the server's end nor the timeout makes the *)
(* run fail (the comment at the close handler: Teti can finish even if     *)
(* app-server exits before its final turn notification).                   *)
AnswerTellsTheImage ==
  /\ runAnswer.kind = "image" =>
       \A f \in runAnswer.images : runFiles[f] = "whole" /\ f \in runSeen.files
  /\ runAnswer.kind = "error" /\ runAnswer.stage = "image-result" /\ runSeen.image =>
       runAnswer.code = "failed" /\ runSeen.failed
=============================================================================
