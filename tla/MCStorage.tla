----------------------------- MODULE MCStorage ------------------------------
(* Small instances of the modules about the disk's contents, for TLC: the log *)
(* (Log) and the blocks of files that are written through it.  They share no  *)
(* state.  A behaviour is one of a single module, the one that part names;    *)
(* the other stays in its initial state.                                      *)
EXTENDS MCLog

VARIABLES
  part,
  bitmap, blk, ino, dino, lock, off, w, logged, calls, panicked

\* Two open files; the image holds the first, with three bytes.
Two == {1, 2}
FileOfHandle == <<2, 3>>
FilesOfImage == [x \in {2} |-> 3]
WriteLens == {1, 6, 8}
Blocks == INSTANCE Blocks WITH
  Writer <- Two, Handle <- Two, FileOf <- FileOfHandle, Image <- FilesOfImage, Lens <- WriteLens, CALLS <- 3,
  FSSIZE <- 13, NMETA <- 1, BPB <- 1, BSIZE <- 2, NDIRECT <- 1, NINDIRECT <- 3, MAXOPBLOCKS <- 10

blockVars == <<bitmap, blk, ino, dino, lock, off, w, logged, calls, panicked>>
allVars == <<part, vars, blockVars>>

StorageInit == part \in {"log", "blocks"} /\ Init /\ Blocks!Init

\* Blocks stops after CALLS calls.
StorageNext ==
  \/ part = "log" /\ Next /\ UNCHANGED <<part, blockVars>>
  \/ part = "blocks" /\ Blocks!Next /\ UNCHANGED <<part, vars>>
  \/ part = "blocks" /\ UNCHANGED allVars

\* The fairness of Log, when it is the part that runs.
StorageSpec ==
  /\ StorageInit /\ [][StorageNext]_allVars
  /\ WF_vars(part = "log" /\ Recover)
  /\ \A p \in Proc :
       /\ WF_vars(part = "log" /\ BeginSleep(p)) /\ SF_vars(part = "log" /\ BeginOp(p))
       /\ WF_vars(part = "log" /\ Write(p)) /\ SF_vars(part = "log" /\ End(p))
       /\ WF_vars(part = "log" /\ Commit(p))

-----------------------------------------------------------------------------
(* The properties of Blocks, as it states them *)

\* The free map and the blocks of files agree, from mkfs on, and every file has
\* the blocks its size covers (balloc(), bfree(), bmap()).
BitmapExact == part = "blocks" => Blocks!BitmapExact

\* filewrite() puts no more into a transaction than it has reserved.
TransactionFits == part = "blocks" => Blocks!TransactionFits

\* A file is an array of bytes that write() changes at its offset and readi()
\* returns (ByteFiles).
ImplementsByteFiles == Blocks!ImplementsByteFiles
=============================================================================
