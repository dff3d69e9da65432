------------------------ MODULE MCProcessingQueue ------------------------
(* Small instances of ProcessingQueue, and the plausible bugs its checks catch. *)
EXTENDS QueueImplementsBoard, TLC

(* Sound for the safety checks when the jobs are alike *)
JobSymmetry == Permutations(Items)

AllPoints == Points
OutsideArchiveWindow == Points \ {"recording"}
=============================================================================
