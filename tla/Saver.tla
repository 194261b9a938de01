-------------------------------- MODULE Saver --------------------------------
(***************************************************************************)
(* The saver (saver.go): a goroutine that writes the chain to a file, or   *)
(* to a file per fragment, when it is asked to: by a ticker of the node    *)
(* and by its main goroutine before it ends (node.go).                     *)
(* A chain is its length: blocks are only ever added to its end.           *)
(***************************************************************************)
EXTENDS Integers, Sequences

CONSTANTS
  Starts,           \* the ways a node is started (StartAssumption in Node)
  blocFragmentMax,  \* how many blocks go into one of several files
  CreateTest        \* how often a file that was left empty is written again

ASSUME SaverAssumption == blocFragmentMax \in Nat \ {0} /\ CreateTest \in Nat

VARIABLES
  start,       \* how this node is started
  main,        \* what its main goroutine does
  sizeChain,   \* the number of blocks in the chain
  askWrite,    \* the place of the channel askWrite, or askMultiWrite, is taken
  waitWrite,   \* the WaitGroup
  saver,       \* what saverLoop does
  saveFile,    \* how many blocks the file holds
  parts,       \* the last block that each of the numbered files holds
  MultiPrev,
  nbAsk, nbFault,  \* bounds: asks of the ticker, failures of the disk
  asked, failed    \* history: the chain at the last ask, a write given up

fileVars == <<saver, saveFile, parts, MultiPrev, nbFault, failed>>
saveVars == <<askWrite, waitWrite, fileVars, nbAsk, asked>>

Idle == [step |-> "idle"]
Shorter(a, b) == IF a < b THEN a ELSE b
-----------------------------------------------------------------------------
\* Mutant: nothing is asked of a saver that is writing.
PlaceFreeIdle == ~askWrite /\ saver = Idle
PlaceFree == ~askWrite

\* Mutant: what is dropped is not taken back from the WaitGroup.
AskToSaveKept ==
  IF start.save = "no" THEN UNCHANGED <<asked, askWrite, waitWrite>>
  ELSE asked' = sizeChain /\ askWrite' = TRUE /\ waitWrite' = waitWrite + 1
\* AskToSave, AskMultiSave.  When the place is taken, Done follows Add.
AskToSave ==
  IF start.save = "no" THEN UNCHANGED <<asked, askWrite, waitWrite>>
  ELSE /\ asked' = sizeChain
       /\ askWrite' = (askWrite \/ PlaceFree)
       /\ waitWrite' = IF PlaceFree THEN waitWrite + 1 ELSE waitWrite

\* The node's ticker.
RegularSave ==
  /\ nbAsk < start.maxAsk
  /\ nbAsk' = nbAsk + 1
  /\ AskToSave
  /\ UNCHANGED <<start, main, sizeChain, fileVars>>
-----------------------------------------------------------------------------
\* Mutant: the last file is taken for complete.
FirstPartNext(prev) == prev + 1
\* writeMultipleFile skips the files before the last one written, which may not
\* have been full.
FirstPart(prev) == IF prev > 1 THEN prev ELSE 1
NbParts(size) == (size + blocFragmentMax - 1) \div blocFragmentMax

\* Part 0 is the file of a chain in one piece.  GetFragmentBlocks goes by the
\* length of the chain at its start.
WritePart(i, size) ==
  [step |-> "create", part |-> i, size |-> size, left |-> CreateTest, taken |-> 0]

TakeAsk ==
  /\ askWrite /\ saver = Idle
  /\ askWrite' = FALSE
  /\ saver' = IF start.save = "one" THEN WritePart(0, 0)
              ELSE WritePart(FirstPart(MultiPrev), sizeChain)
  /\ UNCHANGED <<start, main, sizeChain, waitWrite, saveFile, parts, MultiPrev, nbAsk,
                 nbFault, asked, failed>>

\* Mutant: the file is not done.
DoneNot == waitWrite
\* waitWrite.Done(), which writeMultipleFile does not call.
Done == IF start.save = "one" THEN waitWrite - 1 ELSE waitWrite

TryAgain(content) == content = 0 /\ saver.left > 0

\* An attempt is over; content is what the file holds now, new whether this
\* attempt has written it.
Attempted(content, new) ==
  IF TryAgain(content)
    THEN /\ saver' = [saver EXCEPT !.step = "create", !.left = @ - 1]
         /\ UNCHANGED <<waitWrite, MultiPrev, failed>>
  ELSE /\ failed' = (failed \/ ~new)
       /\ IF saver.part < NbParts(saver.size)
            THEN /\ saver' = WritePart(saver.part + 1, saver.size)
                 /\ UNCHANGED <<waitWrite, MultiPrev>>
            ELSE /\ saver' = Idle /\ waitWrite' = Done
                 /\ MultiPrev' = saver.part

Holds(i, n) ==
  IF i = 0 THEN saveFile' = n /\ UNCHANGED parts
  ELSE /\ parts' = IF i \in DOMAIN parts THEN [parts EXCEPT ![i] = n] ELSE Append(parts, n)
       /\ UNCHANGED saveFile

\* What goes into the file: a chain in one piece is taken as it is now.
ToWrite == IF saver.part = 0 THEN sizeChain
           ELSE Shorter(saver.part * blocFragmentMax, saver.size)

\* os.Create empties the file; then the chain is taken.
CreateFile ==
  /\ saver.step = "create"
  /\ saver' = [saver EXCEPT !.step = "write", !.taken = ToWrite]
  /\ Holds(saver.part, 0)
  /\ UNCHANGED <<start, main, sizeChain, askWrite, waitWrite, MultiPrev, nbAsk, nbFault, asked,
                 failed>>

\* It cannot be opened, in all the tries of openChainFile.  A chain in one piece
\* leaves it at what the file held before; in parts, the nil file panics.
CreateFails ==
  /\ saver.step = "create" /\ nbFault < start.maxFault
  /\ nbFault' = nbFault + 1
  /\ IF saver.part = 0 THEN Attempted(saveFile, FALSE) /\ UNCHANGED main
     ELSE main' = "panic" /\ UNCHANGED <<saver, waitWrite, MultiPrev, failed>>
  /\ UNCHANGED <<start, sizeChain, askWrite, saveFile, parts, nbAsk, asked>>

WriteFile ==
  /\ saver.step = "write"
  /\ Holds(saver.part, saver.taken)
  /\ Attempted(saver.taken, TRUE)
  /\ UNCHANGED <<start, main, sizeChain, askWrite, nbAsk, nbFault, asked>>

\* Nothing is written, or a torn file, which is not empty: the error is logged
\* and the size of the file looked at.
WriteFails ==
  /\ saver.step = "write" /\ nbFault < start.maxFault
  /\ nbFault' = nbFault + 1
  /\ \E content \in 0..1 : Holds(saver.part, content) /\ Attempted(content, FALSE)
  /\ UNCHANGED <<start, main, sizeChain, askWrite, nbAsk, asked>>

SaverInit ==
  /\ askWrite = FALSE /\ waitWrite = 0 /\ saver = Idle
  /\ saveFile = 0 /\ parts = <<>> /\ MultiPrev = 0
  /\ nbAsk = 0 /\ nbFault = 0 /\ asked = 0 /\ failed = FALSE

SaverLoop == TakeAsk \/ CreateFile \/ CreateFails \/ WriteFile \/ WriteFails
-----------------------------------------------------------------------------
\* Once nothing is waited for, as when the node ends, the file holds the chain
\* as it was at the last ask or longer, even if the ask found the place taken:
\* unless the write was given up.
SaveCovers ==
  (start.save = "one" /\ waitWrite = 0 /\ ~failed) => saveFile >= asked

\* Wait waits for the ask that is pending and for the write that goes on, and for
\* nothing else: it returns neither before them nor never.
WaitedFor ==
  start.save = "one" =>
    waitWrite = (IF askWrite THEN 1 ELSE 0) + (IF saver = Idle THEN 0 ELSE 1)

\* So do the numbered files, one after the other and without a gap, between two
\* writes: all but the last are full.
PartsCover ==
  (start.save = "parts" /\ saver = Idle /\ ~failed) =>
    /\ \A i \in DOMAIN parts :
         IF i < Len(parts) THEN parts[i] = i * blocFragmentMax
         ELSE parts[i] \in (i - 1) * blocFragmentMax + 1 .. i * blocFragmentMax
    /\ ~askWrite /\ asked > 0 => parts # <<>> /\ parts[Len(parts)] >= asked
=============================================================================
