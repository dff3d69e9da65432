---------------------- MODULE ProcessingQueue_proofs ----------------------
(***************************************************************************)
(* What the queue guarantees for any set of jobs and any bounds.            *)
(***************************************************************************)
EXTENDS QueueImplementsBoard, TLAPS

-----------------------------------------------------------------------------
(* Types *)

(* The points at which the worker holds an item *)
Busy == pc \in Working \cup {"picked", "failing"}

(* TypeOK is not inductive alone: the worker writes to the item it holds, so that
   item must be one. *)
TypeInv ==
    /\ TypeOK
    /\ Busy => up /\ cur \in Items
    /\ ~Busy => cur = NoItem
    /\ ~up => pc = "off" /\ queue = {}

(* A save, done or failed, keeps the image of queue.json well typed. *)
LEMMA SaveTyped ==
    ASSUME TypeOK, queue' \subseteq Items, status' \in [Items -> Status], archived' \subseteq Items,
           SaveOk \/ SaveRaises
    PROVE  /\ savedIds' \subseteq Items
           /\ savedStatus' \in [Items -> Status]
           /\ savedArchived' \subseteq Items
           /\ saveFailures' \in Nat
<1>1. CASE SaveOk
  <2>1. savedIds' \subseteq Items /\ savedArchived' \subseteq Items /\ saveFailures' \in Nat
    BY <1>1 DEF SaveOk, ActiveIds, TypeOK
  <2>2. savedStatus' \in [Items -> Status]
    BY <1>1 DEF SaveOk, Status
  <2> QED
    BY <2>1, <2>2
<1>2. CASE SaveRaises
  BY <1>2 DEF SaveRaises, TypeOK
<1> QED
  BY <1>1, <1>2

(* The type invariant of the whole queue. *)
THEOREM TypeInvariant == Spec => []TypeInv
<1> USE QueueAssumption
<1>1. ASSUME Init PROVE TypeInv
  BY <1>1 DEF Init, TypeInv, Busy, TypeOK, Status, Points, Working
<1>2. ASSUME TypeInv, [Next]_vars PROVE TypeInv'
  <2> USE <1>2 DEF TypeInv, Busy, TypeOK, Points, Working, process, memory, worker, file, disk, history
  <2>1. CASE Launch
    <3>1. queue' \subseteq Items /\ status' \in [Items -> Status] /\ archived' \subseteq Items
      BY <2>1 DEF Launch, Reconciled, Status
    <3>2. /\ savedIds' \subseteq Items /\ savedStatus' \in [Items -> Status]
          /\ savedArchived' \subseteq Items /\ saveFailures' \in Nat
      BY <2>1, <3>1, SaveTyped DEF Launch
    <3> QED
      BY <2>1, <3>1, <3>2 DEF Launch
  <2>2. CASE Stop
    BY <2>2 DEF Stop
  <2>3. CASE Crash
    <3>1. status' \in [Items -> Status]
      BY <2>3 DEF Crash, Status
    <3>2. crashes' \in Nat
      BY <2>3 DEF Crash
    <3> QED
      BY <2>3, <3>1, <3>2 DEF Crash
  <2>4. ASSUME NEW i \in Items, Enqueue(i) PROVE TypeInv'
    <3>1. queue' \subseteq Items /\ status' \in [Items -> Status] /\ archived' \subseteq Items
      BY <2>4 DEF Enqueue, Status
    <3>2. SaveOk \/ SaveRaises
      BY <2>4 DEF Enqueue
    <3> QED
      BY <2>4, <3>1, <3>2, SaveTyped DEF Enqueue, Halt, Goto
  <2>5. ASSUME NEW i \in Items, Retry(i) PROVE TypeInv'
    <3>1. queue' \subseteq Items /\ status' \in [Items -> Status] /\ archived' \subseteq Items
      BY <2>5 DEF Retry, Status
    <3>2. SaveOk \/ SaveRaises
      BY <2>5 DEF Retry
    <3> QED
      BY <2>5, <3>1, <3>2, SaveTyped DEF Retry, Halt, Goto
  <2>6. ASSUME NEW i \in Items, Forget(i) PROVE TypeInv'
    <3>1. queue' \subseteq Items /\ status' \in [Items -> Status] /\ archived' \subseteq Items
      BY <2>6 DEF Forget, Status
    <3>2. SaveOk \/ SaveRaises
      BY <2>6 DEF Forget
    <3> QED
      BY <2>6, <3>1, <3>2, SaveTyped DEF Forget, Halt, Goto
  <2>7. CASE Pick
    BY <2>7 DEF Pick
  <2>8. CASE Leave
    BY <2>8 DEF Leave
  <2>9. CASE Begin
    <3>1. queue' \subseteq Items /\ status' \in [Items -> Status] /\ archived' \subseteq Items
      BY <2>9 DEF Begin, SetStatus, Status
    <3>2. SaveOk \/ SaveRaises
      BY <2>9 DEF Begin
    <3> QED
      BY <2>9, <3>1, <3>2, SaveTyped DEF Begin, SetStatus, Halt, Goto
  <2>10. CASE Submit
    BY <2>10 DEF Submit, Goto, Halt
  <2>11. CASE Receive
    BY <2>11 DEF Receive, Goto, Halt
  <2>12. CASE ArchiveAudio
    <3>1. audio' \in [Items -> SUBSET {"original", "archive"}]
      BY <2>12 DEF ArchiveAudio, Relocated
    <3> QED
      BY <3>1, <2>12 DEF ArchiveAudio, Goto
  <2>13. CASE RecordSource
    <3>1. queue' \subseteq Items /\ status' \in [Items -> Status] /\ archived' \subseteq Items
      BY <2>13 DEF RecordSource, Status
    <3>2. SaveOk \/ SaveRaises
      BY <2>13 DEF RecordSource
    <3> QED
      BY <2>13, <3>1, <3>2, SaveTyped DEF RecordSource, Halt, Goto
  <2>14. CASE WriteNote
    BY <2>14 DEF WriteNote, Goto, Halt
  <2>15. CASE SaveSidecars
    BY <2>15 DEF SaveSidecars, Goto, Halt
  <2>16. CASE Nudge
    BY <2>16 DEF Nudge, Goto, Halt
  <2>17. CASE Finish
    <3>1. queue' \subseteq Items /\ status' \in [Items -> Status] /\ archived' \subseteq Items
      BY <2>17 DEF Finish, SetStatus, Status
    <3>2. SaveOk \/ SaveRaises
      BY <2>17 DEF Finish
    <3> QED
      BY <2>17, <3>1, <3>2, SaveTyped DEF Finish, SetStatus, Halt, Goto
  <2>18. CASE Fail
    <3>1. queue' \subseteq Items /\ status' \in [Items -> Status] /\ archived' \subseteq Items
      BY <2>18 DEF Fail, SetStatus, Status
    <3>2. SaveOk \/ SaveRaises
      BY <2>18 DEF Fail
    <3> QED
      BY <2>18, <3>1, <3>2, SaveTyped DEF Fail, SetStatus, Halt, Goto
  <2>19. CASE UNCHANGED vars
    BY <2>19 DEF vars
  <2> QED
    BY <2>1, <2>2, <2>3, <2>4, <2>5, <2>6, <2>7, <2>8, <2>9, <2>10, <2>11, <2>12, <2>13,
       <2>14, <2>15, <2>16, <2>17, <2>18, <2>19 DEF Next, UserStep, WorkerStep
<1> QED
  BY <1>1, <1>2, PTL DEF Spec

(* Every variable of the queue keeps its type, for any set of jobs and any bounds. *)
THEOREM TypeCorrect == Spec => []TypeOK
  BY TypeInvariant, PTL DEF TypeInv

-----------------------------------------------------------------------------
(* The worker and the list *)

(* The status of the item the worker holds follows from where the worker is, and an
   id in the list, in the file or in the worker's hands was once enqueued, so that no
   later enqueue() resets it. *)
StatusInv ==
    /\ pc = "picked" => status[cur] = "PENDING"
    /\ pc \in Working => status[cur] = "RUNNING"
    /\ pc = "failing" => status[cur] \in {"RUNNING", "DONE"}
    /\ \A i \in queue \cup savedIds : arrival[i] # 0
    /\ Busy => arrival[cur] # 0
    /\ ticket > 0

(* The worker's place and its item's status agree in every reachable state. *)
LEMMA StatusInvariant == Spec => []StatusInv
<1> USE QueueAssumption
<1>1. ASSUME Init PROVE StatusInv
  BY <1>1 DEF Init, StatusInv, Busy, Working
<1>2. ASSUME TypeInv, StatusInv, [Next]_vars PROVE StatusInv'
  <2> USE <1>2 DEF StatusInv, TypeInv, Busy, TypeOK, Status, Points, Working,
               process, memory, worker, file, disk, history,
               SaveOk, SaveRaises, ActiveIds, Halt, Goto
  <2>1. CASE Launch
    BY <2>1 DEF Launch, Reconciled
  <2>2. CASE Stop
    BY <2>2 DEF Stop
  <2>3. CASE Crash
    BY <2>3 DEF Crash
  <2>4. ASSUME NEW i \in Items, Enqueue(i) PROVE StatusInv'
    BY <2>4 DEF Enqueue
  <2>5. ASSUME NEW i \in Items, Retry(i) PROVE StatusInv'
    BY <2>5 DEF Retry
  <2>6. ASSUME NEW i \in Items, Forget(i) PROVE StatusInv'
    BY <2>6 DEF Forget
  <2>7. CASE Pick
    BY <2>7 DEF Pick, NextAutoItem
  <2>8. CASE Leave
    BY <2>8 DEF Leave
  <2>9. CASE Begin
    BY <2>9 DEF Begin, SetStatus
  <2>10. CASE Submit
    BY <2>10 DEF Submit
  <2>11. CASE Receive
    BY <2>11 DEF Receive
  <2>12. CASE ArchiveAudio
    BY <2>12 DEF ArchiveAudio, Relocated
  <2>13. CASE RecordSource
    BY <2>13 DEF RecordSource
  <2>14. CASE WriteNote
    BY <2>14 DEF WriteNote
  <2>15. CASE SaveSidecars
    BY <2>15 DEF SaveSidecars
  <2>16. CASE Nudge
    BY <2>16 DEF Nudge
  <2>17. CASE Finish
    BY <2>17 DEF Finish, SetStatus
  <2>18. CASE Fail
    BY <2>18 DEF Fail, SetStatus
  <2>19. CASE UNCHANGED vars
    BY <2>19 DEF vars
  <2> QED
    BY <2>1, <2>2, <2>3, <2>4, <2>5, <2>6, <2>7, <2>8, <2>9, <2>10, <2>11, <2>12, <2>13,
       <2>14, <2>15, <2>16, <2>17, <2>18, <2>19 DEF Next, UserStep, WorkerStep
<1> QED
  BY <1>1, <1>2, TypeInvariant, PTL DEF Spec

(* While the thread lives, only the item it holds is RUNNING. *)
RunningInv ==
    /\ OneRunning
    /\ pc # "dead" =>
           \A i \in queue : status[i] = "RUNNING" => cur = i /\ pc \in Working \cup {"failing"}

(* The inductive invariant behind the theorem that follows. *)
LEMMA RunningInvariant == Spec => []RunningInv
<1> USE QueueAssumption
<1>1. ASSUME Init PROVE RunningInv
  BY <1>1 DEF Init, RunningInv, OneRunning
<1>2. ASSUME TypeInv, StatusInv, RunningInv, [Next]_vars PROVE RunningInv'
  <2> USE <1>2 DEF RunningInv, OneRunning, StatusInv, TypeInv, Busy, TypeOK, Status, Points, Working,
               process, memory, worker, file, disk, history,
               SaveOk, SaveRaises, ActiveIds, Halt, Goto
  <2>1. CASE Launch
    BY <2>1 DEF Launch, Reconciled
  <2>2. CASE Stop
    BY <2>2 DEF Stop
  <2>3. CASE Crash
    BY <2>3 DEF Crash
  <2>4. ASSUME NEW i \in Items, Enqueue(i) PROVE RunningInv'
    BY <2>4 DEF Enqueue
  <2>5. ASSUME NEW i \in Items, Retry(i) PROVE RunningInv'
    BY <2>5 DEF Retry
  <2>6. ASSUME NEW i \in Items, Forget(i) PROVE RunningInv'
    BY <2>6 DEF Forget
  <2>7. CASE Pick
    BY <2>7 DEF Pick, NextAutoItem
  <2>8. CASE Leave
    BY <2>8 DEF Leave
  <2>9. CASE Begin
    BY <2>9 DEF Begin, SetStatus
  <2>10. CASE Submit
    BY <2>10 DEF Submit
  <2>11. CASE Receive
    BY <2>11 DEF Receive
  <2>12. CASE ArchiveAudio
    BY <2>12 DEF ArchiveAudio, Relocated
  <2>13. CASE RecordSource
    BY <2>13 DEF RecordSource
  <2>14. CASE WriteNote
    BY <2>14 DEF WriteNote
  <2>15. CASE SaveSidecars
    BY <2>15 DEF SaveSidecars
  <2>16. CASE Nudge
    BY <2>16 DEF Nudge
  <2>17. CASE Finish
    BY <2>17 DEF Finish, SetStatus
  <2>18. CASE Fail
    BY <2>18 DEF Fail, SetStatus
  <2>19. CASE UNCHANGED vars
    BY <2>19 DEF vars
  <2> QED
    BY <2>1, <2>2, <2>3, <2>4, <2>5, <2>6, <2>7, <2>8, <2>9, <2>10, <2>11, <2>12, <2>13,
       <2>14, <2>15, <2>16, <2>17, <2>18, <2>19 DEF Next, UserStep, WorkerStep
<1> QED
  BY <1>1, <1>2, TypeInvariant, StatusInvariant, PTL DEF Spec

(* The worker is serial, for any number of jobs. *)
THEOREM SerialWorker == Spec => []OneRunning
  BY RunningInvariant, PTL DEF RunningInv

(* When callers ask forget() only for settled or RUNNING items, as the meetings list
   does, the worker's item stays listed from the moment it is picked. *)
ListedInv == pc \in Working \cup {"picked"} => cur \in queue

(* forget() never evicts a live job, provided nobody forgets a PENDING one. *)
THEOREM LiveJobStaysListed ==
    ASSUME "PENDING" \notin ForgetWhen
    PROVE  Spec => []LiveJobListed
<1> USE QueueAssumption
<1>1. ASSUME Init PROVE ListedInv
  BY <1>1 DEF Init, ListedInv, Working
<1>2. ASSUME TypeInv, StatusInv, ListedInv, [Next]_vars PROVE ListedInv'
  <2> USE <1>2 DEF ListedInv, StatusInv, TypeInv, Busy, TypeOK, Status, Points, Working,
               process, memory, worker, file, disk, history,
               SaveOk, SaveRaises, ActiveIds, Halt, Goto
  <2>1. CASE Launch
    BY <2>1 DEF Launch, Reconciled
  <2>2. CASE Stop
    BY <2>2 DEF Stop
  <2>3. CASE Crash
    BY <2>3 DEF Crash
  <2>4. ASSUME NEW i \in Items, Enqueue(i) PROVE ListedInv'
    BY <2>4 DEF Enqueue
  <2>5. ASSUME NEW i \in Items, Retry(i) PROVE ListedInv'
    BY <2>5 DEF Retry
  <2>6. ASSUME NEW i \in Items, Forget(i) PROVE ListedInv'
    BY <2>6 DEF Forget
  <2>7. CASE Pick
    BY <2>7 DEF Pick, NextAutoItem
  <2>8. CASE Leave
    BY <2>8 DEF Leave
  <2>9. CASE Begin
    BY <2>9 DEF Begin, SetStatus
  <2>10. CASE Submit
    BY <2>10 DEF Submit
  <2>11. CASE Receive
    BY <2>11 DEF Receive
  <2>12. CASE ArchiveAudio
    BY <2>12 DEF ArchiveAudio, Relocated
  <2>13. CASE RecordSource
    BY <2>13 DEF RecordSource
  <2>14. CASE WriteNote
    BY <2>14 DEF WriteNote
  <2>15. CASE SaveSidecars
    BY <2>15 DEF SaveSidecars
  <2>16. CASE Nudge
    BY <2>16 DEF Nudge
  <2>17. CASE Finish
    BY <2>17 DEF Finish, SetStatus
  <2>18. CASE Fail
    BY <2>18 DEF Fail, SetStatus
  <2>19. CASE UNCHANGED vars
    BY <2>19 DEF vars
  <2> QED
    BY <2>1, <2>2, <2>3, <2>4, <2>5, <2>6, <2>7, <2>8, <2>9, <2>10, <2>11, <2>12, <2>13,
       <2>14, <2>15, <2>16, <2>17, <2>18, <2>19 DEF Next, UserStep, WorkerStep
<1>3. ListedInv => LiveJobListed
  BY DEF ListedInv, LiveJobListed
<1> QED
  BY <1>1, <1>2, <1>3, TypeInvariant, StatusInvariant, PTL DEF Spec

-----------------------------------------------------------------------------
(* Billing *)

(* A run of the job is ahead: it waits, or would wait after a restart, or the worker
   has taken it and not yet submitted it. *)
RunAhead(i) ==
    \/ i \in queue /\ status[i] = "PENDING"
    \/ i \in savedIds /\ savedStatus[i] = "PENDING"
    \/ cur = i /\ pc \in {"picked", "submitting"}

(* A run ahead is one the user asked for and that was not billed yet.  It must not be
   ahead twice: from the save of RUNNING on, the file does not hold the worker's job
   as PENDING. *)
BillingInv ==
    /\ NoUnapprovedBilling
    /\ \A i \in Items : RunAhead(i) => billed[i] < approvals[i]
    /\ pc \in Working \cup {"failing"} => ~(cur \in savedIds /\ savedStatus[cur] = "PENDING")

(* Whatever the order of user actions, failed saves and crashes, no provider is given
   a job more often than the user asked for. *)
THEOREM BillingApproved == Spec => []NoUnapprovedBilling
<1> USE QueueAssumption
<1>1. ASSUME Init PROVE BillingInv
  BY <1>1 DEF Init, BillingInv, NoUnapprovedBilling, RunAhead, Working
<1>2. ASSUME TypeInv, StatusInv, BillingInv, [Next]_vars PROVE BillingInv'
  <2> USE <1>2 DEF BillingInv, NoUnapprovedBilling, RunAhead, StatusInv, TypeInv, Busy, TypeOK, Status, Points, Working,
               process, memory, worker, file, disk, history,
               SaveOk, SaveRaises, ActiveIds, Halt, Goto
  <2>1. CASE Launch
    BY <2>1 DEF Launch, Reconciled
  <2>2. CASE Stop
    BY <2>2 DEF Stop
  <2>3. CASE Crash
    BY <2>3 DEF Crash
  <2>4. ASSUME NEW i \in Items, Enqueue(i) PROVE BillingInv'
    BY <2>4 DEF Enqueue
  <2>5. ASSUME NEW i \in Items, Retry(i) PROVE BillingInv'
    BY <2>5 DEF Retry
  <2>6. ASSUME NEW i \in Items, Forget(i) PROVE BillingInv'
    BY <2>6 DEF Forget
  <2>7. CASE Pick
    BY <2>7 DEF Pick, NextAutoItem
  <2>8. CASE Leave
    BY <2>8 DEF Leave
  <2>9. CASE Begin
    BY <2>9 DEF Begin, SetStatus
  <2>10. CASE Submit
    BY <2>10 DEF Submit
  <2>11. CASE Receive
    BY <2>11 DEF Receive
  <2>12. CASE ArchiveAudio
    BY <2>12 DEF ArchiveAudio, Relocated
  <2>13. CASE RecordSource
    BY <2>13 DEF RecordSource
  <2>14. CASE WriteNote
    BY <2>14 DEF WriteNote
  <2>15. CASE SaveSidecars
    BY <2>15 DEF SaveSidecars
  <2>16. CASE Nudge
    BY <2>16 DEF Nudge
  <2>17. CASE Finish
    BY <2>17 DEF Finish, SetStatus
  <2>18. CASE Fail
    BY <2>18 DEF Fail, SetStatus
  <2>19. CASE UNCHANGED vars
    BY <2>19 DEF vars
  <2> QED
    BY <2>1, <2>2, <2>3, <2>4, <2>5, <2>6, <2>7, <2>8, <2>9, <2>10, <2>11, <2>12, <2>13,
       <2>14, <2>15, <2>16, <2>17, <2>18, <2>19 DEF Next, UserStep, WorkerStep
<1>3. BillingInv => NoUnapprovedBilling
  BY DEF BillingInv
<1> QED
  BY <1>1, <1>2, <1>3, TypeInvariant, StatusInvariant, PTL DEF Spec

-----------------------------------------------------------------------------
(* Delivery *)

(* A job is delivered by the time it is nudged or DONE, and a job that was accepted
   and is not delivered is in the list of a running program. *)
HandoffInv ==
    /\ AcceptedJobAccounted
    /\ NudgeAfterHandoff
    /\ up => \A i \in accepted \ dismissed : i \in queue \/ Delivered(i)
    /\ \A i \in Items : status[i] = "DONE" => Delivered(i)
    /\ \A i \in savedIds : savedStatus[i] # "DONE"
    /\ pc \in {"sidecars", "nudging", "finishing"} => notes[cur] > 0
    /\ pc \in {"nudging", "finishing"} => cur \in sidecar

(* The inductive invariant behind the two theorems that follow. *)
LEMMA HandoffInvariant == Spec => []HandoffInv
<1> USE QueueAssumption
<1>1. ASSUME Init PROVE HandoffInv
  BY <1>1 DEF Init, HandoffInv, AcceptedJobAccounted, NudgeAfterHandoff
<1>2. ASSUME TypeInv, StatusInv, HandoffInv, [Next]_vars PROVE HandoffInv'
  <2> USE <1>2 DEF HandoffInv, AcceptedJobAccounted, NudgeAfterHandoff, Delivered, StatusInv,
               TypeInv, Busy, TypeOK, Status, Points, Working,
               process, memory, worker, file, disk, history,
               SaveOk, SaveRaises, ActiveIds, Halt, Goto
  <2>1. CASE Launch
    BY <2>1 DEF Launch, Reconciled
  <2>2. CASE Stop
    BY <2>2 DEF Stop
  <2>3. CASE Crash
    BY <2>3 DEF Crash
  <2>4. ASSUME NEW i \in Items, Enqueue(i) PROVE HandoffInv'
    BY <2>4 DEF Enqueue
  <2>5. ASSUME NEW i \in Items, Retry(i) PROVE HandoffInv'
    BY <2>5 DEF Retry
  <2>6. ASSUME NEW i \in Items, Forget(i) PROVE HandoffInv'
    BY <2>6 DEF Forget
  <2>7. CASE Pick
    BY <2>7 DEF Pick, NextAutoItem
  <2>8. CASE Leave
    BY <2>8 DEF Leave
  <2>9. CASE Begin
    BY <2>9 DEF Begin, SetStatus
  <2>10. CASE Submit
    BY <2>10 DEF Submit
  <2>11. CASE Receive
    BY <2>11 DEF Receive
  <2>12. CASE ArchiveAudio
    BY <2>12 DEF ArchiveAudio, Relocated
  <2>13. CASE RecordSource
    BY <2>13 DEF RecordSource
  <2>14. CASE WriteNote
    BY <2>14 DEF WriteNote
  <2>15. CASE SaveSidecars
    BY <2>15 DEF SaveSidecars
  <2>16. CASE Nudge
    BY <2>16 DEF Nudge
  <2>17. CASE Finish
    BY <2>17 DEF Finish, SetStatus
  <2>18. CASE Fail
    BY <2>18 DEF Fail, SetStatus
  <2>19. CASE UNCHANGED vars
    BY <2>19 DEF vars
  <2> QED
    BY <2>1, <2>2, <2>3, <2>4, <2>5, <2>6, <2>7, <2>8, <2>9, <2>10, <2>11, <2>12, <2>13,
       <2>14, <2>15, <2>16, <2>17, <2>18, <2>19 DEF Next, UserStep, WorkerStep
<1> QED
  BY <1>1, <1>2, TypeInvariant, StatusInvariant, PTL DEF Spec

(* No crash and no failed save makes an accepted job vanish before it is delivered. *)
THEOREM AcceptedJobsKept == Spec => []AcceptedJobAccounted
  BY HandoffInvariant, PTL DEF HandoffInv

(* Hermes is told only of jobs whose note and sidecar are on disk. *)
THEOREM NudgeIsLast == Spec => []NudgeAfterHandoff
  BY HandoffInvariant, PTL DEF HandoffInv

-----------------------------------------------------------------------------
(* The audio *)

(* With saves that succeed, the file mirrors the list of a running program; the audio
   of a listed job is where its record says, but for the archive window. *)
AudioInv ==
    /\ AudioTracked
    /\ up => savedIds = ActiveIds(queue, status)
    /\ \A i \in savedIds : savedStatus[i] # "DONE"
    /\ \A i \in Items : arrival[i] = 0 => "original" \in audio[i]
    /\ \A i \in queue : (pc = "recording" /\ cur = i) \/ ReachableBy(archived, i)
    /\ pc \in {"polling", "archiving"} => ReachableBy(archived, cur)
    /\ pc = "recording" => audio[cur] # {}

(* If saves succeed and the process does not end in the window between the move and
   the save of source_path, the audio of every job in the file stays reachable. *)
LEMMA AudioInvariant ==
    ASSUME MaxSaveFailures = 0, "recording" \notin CrashPoints
    PROVE  Spec => []AudioInv
<1> USE QueueAssumption
<1>1. ASSUME Init PROVE AudioInv
  BY <1>1 DEF Init, AudioInv, AudioTracked
<1>2. ASSUME TypeInv, StatusInv, AudioInv, [Next]_vars PROVE AudioInv'
  <2> USE <1>2 DEF AudioInv, AudioTracked, ReachableBy, StatusInv, TypeInv, Busy, TypeOK, Status, Points, Working,
               process, memory, worker, file, disk, history,
               SaveOk, SaveRaises, ActiveIds, Halt, Goto
  <2>1. CASE Launch
    <3>1. \A i \in savedIds : status'[i] # "DONE"
      <4>1. status' = [i \in Items |->
                IF i \in savedIds THEN Reconciled(savedStatus[i]) ELSE "PENDING"]
        BY <2>1 DEF Launch
      <4>2. \A i \in savedIds : status'[i] = Reconciled(savedStatus[i])
        BY <4>1
      <4> QED
        BY <4>2 DEF Reconciled
    <3>2. savedIds' = savedIds
      BY <2>1, <3>1 DEF Launch
    <3>3. \A i \in savedIds : i \in savedArchived' <=> i \in savedArchived
      BY <2>1, <3>2 DEF Launch
    <3>4. \A i \in savedIds : savedStatus'[i] # "DONE"
      BY <2>1, <3>1, <3>2 DEF Launch
    <3>5. \A i \in savedIds : ReachableBy(savedArchived, i)
      BY <2>1 DEF Launch
    <3> QED
      BY <2>1, <3>1, <3>2, <3>3, <3>4, <3>5 DEF Launch
  <2>2. CASE Stop
    BY <2>2 DEF Stop
  <2>3. CASE Crash
    BY <2>3 DEF Crash
  <2>4. ASSUME NEW i \in Items, Enqueue(i) PROVE AudioInv'
    BY <2>4 DEF Enqueue
  <2>5. ASSUME NEW i \in Items, Retry(i) PROVE AudioInv'
    BY <2>5 DEF Retry
  <2>6. ASSUME NEW i \in Items, Forget(i) PROVE AudioInv'
    BY <2>6 DEF Forget
  <2>7. CASE Pick
    BY <2>7 DEF Pick, NextAutoItem
  <2>8. CASE Leave
    BY <2>8 DEF Leave
  <2>9. CASE Begin
    BY <2>9 DEF Begin, SetStatus
  <2>10. CASE Submit
    BY <2>10 DEF Submit
  <2>11. CASE Receive
    BY <2>11 DEF Receive
  <2>12. CASE ArchiveAudio
    BY <2>12 DEF ArchiveAudio, Relocated
  <2>13. CASE RecordSource
    BY <2>13 DEF RecordSource
  <2>14. CASE WriteNote
    BY <2>14 DEF WriteNote
  <2>15. CASE SaveSidecars
    BY <2>15 DEF SaveSidecars
  <2>16. CASE Nudge
    BY <2>16 DEF Nudge
  <2>17. CASE Finish
    BY <2>17 DEF Finish, SetStatus
  <2>18. CASE Fail
    BY <2>18 DEF Fail, SetStatus
  <2>19. CASE UNCHANGED vars
    BY <2>19 DEF vars
  <2> QED
    BY <2>1, <2>2, <2>3, <2>4, <2>5, <2>6, <2>7, <2>8, <2>9, <2>10, <2>11, <2>12, <2>13,
       <2>14, <2>15, <2>16, <2>17, <2>18, <2>19 DEF Next, UserStep, WorkerStep
<1> QED
  BY <1>1, <1>2, TypeInvariant, StatusInvariant, PTL DEF Spec

(* Archiving loses track of no audio, under the two conditions of AudioInvariant. *)
THEOREM ArchivedAudioTracked ==
    ASSUME MaxSaveFailures = 0, "recording" \notin CrashPoints
    PROVE  Spec => []AudioTracked
  BY AudioInvariant, PTL DEF AudioInv

(* Under the same conditions no retry is a dead end. *)
THEOREM RetryHasAudio ==
    ASSUME MaxSaveFailures = 0, "recording" \notin CrashPoints
    PROVE  Spec => []RetryCanOpenAudio
<1>1. StatusInv /\ AudioInv => RetryCanOpenAudio
  BY DEF StatusInv, AudioInv, RetryCanOpenAudio, Working
<1> QED
  BY <1>1, AudioInvariant, StatusInvariant, PTL

-----------------------------------------------------------------------------
(***************************************************************************)
(* The queue implements the board for any set of jobs, runs and crashes.    *)
(* The hypotheses are those of the run that checks the refinement: saves    *)
(* succeed (one that raises may kill the worker with its job RUNNING, which *)
(* a board does not show), and nobody forgets a job that waits, which the   *)
(* board has no step for.                                                   *)
(***************************************************************************)

(* The mapping reads the file as soon as the program is down, so the file must agree
   with the memory at every moment at which the program may end; what was dropped is
   in neither; the item the worker holds is listed, and RUNNING while it fails. *)
BoardInv ==
    /\ up => /\ savedIds = ActiveIds(queue, status)
             /\ \A i \in savedIds : savedStatus[i] = status[i]
    /\ \A i \in savedIds : savedStatus[i] # "DONE"
    /\ \A i \in dismissed : arrival[i] # 0 /\ i \notin queue \cup savedIds
    /\ Busy => cur \in queue
    /\ pc # "dead"
    /\ pc = "failing" => status[cur] = "RUNNING"

(* The file and the memory agree on every job, whatever the user does. *)
LEMMA BoardInvariant ==
    ASSUME MaxSaveFailures = 0, "PENDING" \notin ForgetWhen
    PROVE  Spec => []BoardInv
<1> USE QueueAssumption
<1>1. ASSUME Init PROVE BoardInv
  BY <1>1 DEF Init, BoardInv, Busy, Working
<1>2. ASSUME TypeInv, StatusInv, RunningInv, BoardInv, [Next]_vars PROVE BoardInv'
  <2> USE <1>2 DEF BoardInv, RunningInv, OneRunning, StatusInv, TypeInv, Busy, TypeOK, Status, Points, Working,
               process, memory, worker, file, disk, history,
               SaveOk, SaveRaises, ActiveIds, Halt, Goto
  <2>1. CASE Launch
    BY <2>1 DEF Launch, Reconciled
  <2>2. CASE Stop
    BY <2>2 DEF Stop
  <2>3. CASE Crash
    BY <2>3 DEF Crash
  <2>4. ASSUME NEW i \in Items, Enqueue(i) PROVE BoardInv'
    BY <2>4 DEF Enqueue
  <2>5. ASSUME NEW i \in Items, Retry(i) PROVE BoardInv'
    BY <2>5 DEF Retry
  <2>6. ASSUME NEW i \in Items, Forget(i) PROVE BoardInv'
    BY <2>6 DEF Forget
  <2>7. CASE Pick
    BY <2>7 DEF Pick, NextAutoItem
  <2>8. CASE Leave
    BY <2>8 DEF Leave
  <2>9. CASE Begin
    BY <2>9 DEF Begin, SetStatus
  <2>10. CASE Submit
    BY <2>10 DEF Submit
  <2>11. CASE Receive
    BY <2>11 DEF Receive
  <2>12. CASE ArchiveAudio
    BY <2>12 DEF ArchiveAudio, Relocated
  <2>13. CASE RecordSource
    BY <2>13 DEF RecordSource
  <2>14. CASE WriteNote
    BY <2>14 DEF WriteNote
  <2>15. CASE SaveSidecars
    BY <2>15 DEF SaveSidecars
  <2>16. CASE Nudge
    BY <2>16 DEF Nudge
  <2>17. CASE Finish
    BY <2>17 DEF Finish, SetStatus
  <2>18. CASE Fail
    BY <2>18 DEF Fail, SetStatus
  <2>19. CASE UNCHANGED vars
    BY <2>19 DEF vars
  <2> QED
    BY <2>1, <2>2, <2>3, <2>4, <2>5, <2>6, <2>7, <2>8, <2>9, <2>10, <2>11, <2>12, <2>13,
       <2>14, <2>15, <2>16, <2>17, <2>18, <2>19 DEF Next, UserStep, WorkerStep
<1> QED
  BY <1>1, <1>2, TypeInvariant, StatusInvariant, RunningInvariant, PTL DEF Spec

-----------------------------------------------------------------------------
(* Steps of the board *)

(* A job whose state is seen to change, while the others' is not, makes a move of the
   board. *)
LEMMA OneMoves ==
    ASSUME NEW j \in Items, NEW from, NEW to,
           JobState(j) = from, JobState(j)' = to,
           \A i \in Items \ {j} : JobState(i)' = JobState(i)
    PROVE  Board!Move(j, from, to)
BY DEF Board!Move

(* While the program runs, what the board shows of a job depends on its entry in the
   memory and on whether it was dropped. *)
LEMMA SameJob ==
    ASSUME NEW i \in Items, up, up',
           arrival'[i] = arrival[i], i \in dismissed' <=> i \in dismissed,
           i \in queue' <=> i \in queue, status'[i] = status[i]
    PROVE  JobState(i)' = JobState(i)
BY DEF JobState

(* A step that leaves all of that alone, and the notes, is no step of the board. *)
LEMMA Stutters ==
    ASSUME \A i \in Items : JobState(i)' = JobState(i), notes' = notes
    PROVE  UNCHANGED Board!boardVars
BY DEF Board!boardVars

(* The job in the worker's hands, and no other, is the running one of the board. *)
LEMMA WorkersJob ==
    ASSUME TypeInv, StatusInv, RunningInv, BoardInv, pc \in Working \cup {"failing"}
    PROVE  up /\ \E j \in Items : j = cur /\ JobState(j) = "running"
BY DEF TypeInv, Busy, StatusInv, BoardInv, JobState, BoardState, Working

-----------------------------------------------------------------------------
(* Every step of the queue, of its file and of its crashes is a step of the board or
   none: no job is lost, resumed by a restart, run beside another or done undelivered. *)
THEOREM BoardImplemented ==
    ASSUME MaxSaveFailures = 0, "PENDING" \notin ForgetWhen
    PROVE  Spec => BoardRefined
<1> USE QueueAssumption
<1>1. ASSUME Init PROVE Board!BoardInit
  BY <1>1 DEF Init, Board!BoardInit, JobState
<1>2. ASSUME TypeInv, StatusInv, RunningInv, HandoffInv, BoardInv, [Next]_vars
      PROVE  [Board!BoardNext]_(Board!boardVars)
  <2> USE <1>2
  <2>0. SUFFICES (\E j \in Items :
                     \/ Board!HandIn(j) \/ Board!Start(j) \/ Board!Deliver(j) \/ Board!Complete(j)
                     \/ Board!GiveUp(j) \/ Board!AskAgain(j) \/ Board!Drop(j))
                 \/ UNCHANGED Board!boardVars
    BY DEF Board!BoardNext
  <2> DEFINE Quiet == up /\ up' /\ notes' = notes /\ UNCHANGED <<queue, status, arrival, dismissed>>
  <2>q. Quiet => UNCHANGED Board!boardVars
    BY SameJob, Stutters
  <2> HIDE DEF Quiet
  <2>s. SaveOk \/ SaveRaises => SaveOk
    BY DEF SaveRaises, TypeInv, TypeOK
  <2>1. CASE Launch
    <3>1. up' /\ ~up /\ queue' = savedIds /\ notes' = notes /\ UNCHANGED <<arrival, dismissed>>
      BY <2>1 DEF Launch, disk, history
    <3>2. \A i \in savedIds : status'[i] = Reconciled(savedStatus[i])
      BY <2>1 DEF Launch, TypeInv, TypeOK
    <3>3. \A i \in Items : JobState(i)' = JobState(i)
      BY <3>1, <3>2 DEF JobState
    <3> QED
      BY <3>1, <3>3, Stutters
  <2>2. CASE Stop
    BY <2>2, <2>q DEF Stop, Quiet, memory, disk, history
  <2>3. CASE Crash
    <3>1. /\ up /\ ~up' /\ notes' = notes
          /\ UNCHANGED <<arrival, dismissed, savedIds, savedStatus>>
      BY <2>3 DEF Crash, disk, history, file
    <3>2. \A i \in Items : ~(i \in queue /\ status[i] = "RUNNING") => JobState(i)' = JobState(i)
      <4> SUFFICES ASSUME NEW i \in Items, ~(i \in queue /\ status[i] = "RUNNING")
                   PROVE  JobState(i)' = JobState(i)
        OBVIOUS
      <4>1. CASE i \in savedIds
        <5>1. i \in queue /\ savedStatus[i] = status[i]
          BY <3>1, <4>1 DEF BoardInv, ActiveIds
        <5> QED
          BY <3>1, <4>1, <5>1 DEF JobState, Reconciled
      <4>2. CASE i \notin savedIds
        <5>1. i \in queue => status[i] = "DONE"
          BY <3>1, <4>2 DEF BoardInv, ActiveIds
        <5> QED
          BY <3>1, <4>2, <5>1 DEF JobState, BoardState
      <4> QED
        BY <4>1, <4>2
    <3>3. CASE \E j \in queue : status[j] = "RUNNING"
      <4>1. PICK j \in queue : status[j] = "RUNNING"
        BY <3>3
      <4>2. j \in Items /\ arrival[j] # 0 /\ j \notin dismissed /\ j \in savedIds
            /\ savedStatus[j] = "RUNNING"
        BY <4>1, <3>1 DEF BoardInv, ActiveIds, StatusInv, TypeInv, TypeOK
      <4>3. JobState(j) = "running" /\ JobState(j)' = "failed"
        BY <4>1, <4>2, <3>1 DEF JobState, BoardState, Reconciled
      <4>4. \A i \in Items \ {j} : JobState(i)' = JobState(i)
        BY <3>2, <4>1 DEF RunningInv, OneRunning
      <4>5. Board!Move(j, "running", "failed")
        BY <4>2, <4>3, <4>4, OneMoves
      <4>6. Board!GiveUp(j)
        BY <4>5, <3>1 DEF Board!GiveUp
      <4> QED
        BY <4>6, <4>2
    <3>4. CASE ~ \E j \in queue : status[j] = "RUNNING"
      BY <3>1, <3>2, <3>4, Stutters
    <3> QED
      BY <3>3, <3>4
  <2>4. ASSUME NEW i \in Items, Enqueue(i) PROVE Board!HandIn(i)
    <3>1. /\ up /\ up' /\ notes' = notes /\ dismissed' = dismissed
          /\ arrival[i] = 0 /\ arrival'[i] = ticket /\ i \in queue' /\ status'[i] = "PENDING"
      BY <2>4 DEF Enqueue, process, disk, TypeInv, TypeOK
    <3>2. JobState(i) = "unknown" /\ JobState(i)' = "waiting"
      BY <3>1 DEF JobState, BoardState, BoardInv, StatusInv
    <3>3. \A k \in Items \ {i} : JobState(k)' = JobState(k)
      BY <2>4, <3>1, SameJob DEF Enqueue, TypeInv, TypeOK
    <3> QED
      BY <3>1, <3>2, <3>3, OneMoves DEF Board!HandIn
  <2>5. ASSUME NEW i \in Items, Retry(i) PROVE Board!AskAgain(i)
    <3>1. /\ up /\ up' /\ notes' = notes /\ UNCHANGED <<dismissed, arrival, queue>>
          /\ i \in queue /\ status[i] = "ERROR" /\ status'[i] = "PENDING"
      BY <2>5 DEF Retry, process, disk, TypeInv, TypeOK
    <3>2. JobState(i) = "failed" /\ JobState(i)' = "waiting"
      BY <3>1 DEF JobState, BoardState, BoardInv, StatusInv
    <3>3. \A k \in Items \ {i} : JobState(k)' = JobState(k)
      BY <2>5, <3>1, SameJob DEF Retry, TypeInv, TypeOK
    <3> QED
      BY <3>1, <3>2, <3>3, OneMoves DEF Board!AskAgain
  <2>6. ASSUME NEW i \in Items, Forget(i) PROVE Board!Drop(i)
    <3>1. /\ up /\ up' /\ notes' = notes /\ UNCHANGED <<arrival, status>>
          /\ i \in queue /\ status[i] \in {"ERROR", "DONE"} /\ i \in dismissed'
      BY <2>6 DEF Forget, process, disk, TypeInv, TypeOK, Status
    <3>2. JobState(i) \in {"failed", "done"} /\ JobState(i)' = "dropped"
      BY <3>1 DEF JobState, BoardState, BoardInv, StatusInv
    <3>3. \A k \in Items \ {i} : JobState(k)' = JobState(k)
      BY <2>6, <3>1, SameJob DEF Forget
    <3> QED
      BY <3>1, <3>2, <3>3, OneMoves DEF Board!Drop
  <2>7. CASE Pick
    BY <2>7, <2>q DEF Pick, Quiet, process, memory, disk, history, TypeInv
  <2>8. CASE Leave
    BY <2>8, <2>q DEF Leave, Quiet, process, memory, disk, history, TypeInv
  <2>9. CASE Begin
    <3>0. PICK j \in Items : j = cur
      BY <2>9 DEF Begin, TypeInv, Busy
    <3>1. /\ up /\ up' /\ notes' = notes /\ UNCHANGED <<dismissed, arrival, queue>>
          /\ j \in queue /\ status[j] = "PENDING" /\ status' = [status EXCEPT ![j] = "RUNNING"]
      BY <2>9, <3>0 DEF Begin, SetStatus, process, disk, history, TypeInv, Busy, BoardInv, StatusInv
    <3>2. JobState(j) = "waiting" /\ JobState(j)' = "running"
      BY <3>1 DEF JobState, BoardState, BoardInv, StatusInv, TypeInv, TypeOK
    <3>3. \A k \in Items \ {j} : JobState(k)' = JobState(k)
      BY <3>1, SameJob DEF TypeInv, TypeOK
    <3>4. \A k \in Items : JobState(k) # "running"
      BY <2>9 DEF Begin, JobState, BoardState, RunningInv, Working, Reconciled, TypeInv, TypeOK, Status
    <3>5. Board!Move(j, "waiting", "running")
      BY <3>2, <3>3, OneMoves
    <3>6. Board!Start(j)
      BY <3>1, <3>4, <3>5 DEF Board!Start
    <3> QED
      BY <3>6
  <2>10. CASE Submit
    BY <2>10, <2>q DEF Submit, Quiet, process, memory, disk, TypeInv, Busy, Working
  <2>11. CASE Receive
    BY <2>11, <2>q DEF Receive, Quiet, process, memory, disk, history, TypeInv, Busy, Working
  <2>12. CASE ArchiveAudio
    BY <2>12, <2>q DEF ArchiveAudio, Quiet, process, memory, history, TypeInv, Busy, Working
  <2>13. CASE RecordSource
    BY <2>13, <2>q DEF RecordSource, Quiet, process, disk, history, TypeInv, Busy, Working
  <2>14. CASE WriteNote
    <3>1. up /\ up' /\ UNCHANGED <<queue, status, arrival, dismissed>>
      BY <2>14 DEF WriteNote, process, memory, history, TypeInv, Busy, Working
    <3>2. \A i \in Items : JobState(i)' = JobState(i)
      BY <3>1, SameJob
    <3>3. CASE notes' = notes
      BY <3>2, <3>3, Stutters
    <3>4. CASE notes' = [notes EXCEPT ![cur] = @ + 1]
      <4>1. PICK j \in Items : j = cur /\ JobState(j) = "running"
        BY <2>14, WorkersJob DEF WriteNote, Working
      <4>2. \A i \in Items : notes'[i] > 0 <=> notes[i] > 0 \/ i = j
        BY <3>4, <4>1 DEF TypeInv, TypeOK
      <4>3. {i \in Items : notes'[i] > 0} = {i \in Items : notes[i] > 0} \cup {j}
        BY <4>1, <4>2
      <4>4. Board!Deliver(j)
        BY <4>1, <4>3, <3>2 DEF Board!Deliver
      <4> QED
        BY <4>4
    <3> QED
      BY <2>14, <3>3, <3>4 DEF WriteNote
  <2>15. CASE SaveSidecars
    BY <2>15, <2>q DEF SaveSidecars, Quiet, process, memory, history, TypeInv, Busy, Working
  <2>16. CASE Nudge
    BY <2>16, <2>q DEF Nudge, Quiet, process, memory, disk, TypeInv, Busy, Working
  <2>17. CASE Finish
    <3>1. PICK j \in Items : j = cur /\ up /\ JobState(j) = "running"
      BY <2>17, WorkersJob DEF Finish, Working
    <3>2. /\ up' /\ notes' = notes /\ UNCHANGED <<dismissed, arrival, queue>> /\ j \in queue
          /\ status' = [status EXCEPT ![j] = "DONE"] /\ notes[j] > 0
      BY <2>17, <3>1 DEF Finish, SetStatus, process, disk, history, Busy, Working, BoardInv, HandoffInv
    <3>3. JobState(j)' = "done"
      BY <3>1, <3>2 DEF JobState, BoardState, BoardInv, StatusInv, TypeInv, TypeOK
    <3>4. \A k \in Items \ {j} : JobState(k)' = JobState(k)
      BY <3>1, <3>2, SameJob DEF TypeInv, TypeOK
    <3>5. Board!Move(j, "running", "done")
      BY <3>1, <3>3, <3>4, OneMoves
    <3>6. Board!Complete(j)
      BY <3>1, <3>2, <3>5 DEF Board!Complete
    <3> QED
      BY <3>6
  <2>18. CASE Fail
    <3>1. PICK j \in Items : j = cur /\ up /\ JobState(j) = "running"
      BY <2>18, WorkersJob DEF Fail
    <3>2. /\ up' /\ notes' = notes /\ UNCHANGED <<dismissed, arrival, queue>> /\ j \in queue
          /\ status' = [status EXCEPT ![j] = "ERROR"]
      BY <2>18, <3>1 DEF Fail, SetStatus, process, disk, history, Busy, BoardInv
    <3>3. JobState(j)' = "failed"
      BY <3>1, <3>2 DEF JobState, BoardState, BoardInv, StatusInv, TypeInv, TypeOK
    <3>4. \A k \in Items \ {j} : JobState(k)' = JobState(k)
      BY <3>1, <3>2, SameJob DEF TypeInv, TypeOK
    <3>5. Board!Move(j, "running", "failed")
      BY <3>1, <3>3, <3>4, OneMoves
    <3>6. Board!GiveUp(j)
      BY <3>2, <3>5 DEF Board!GiveUp
    <3> QED
      BY <3>6
  <2>19. CASE UNCHANGED vars
    <3>1. \A i \in Items : JobState(i)' = JobState(i)
      BY <2>19 DEF vars, process, memory, file, history, JobState
    <3>2. notes' = notes
      BY <2>19 DEF vars, disk
    <3> QED
      BY <3>1, <3>2, Stutters
  <2> QED
    BY <2>1, <2>2, <2>3, <2>4, <2>5, <2>6, <2>7, <2>8, <2>9, <2>10, <2>11, <2>12, <2>13,
       <2>14, <2>15, <2>16, <2>17, <2>18, <2>19 DEF Next, UserStep, WorkerStep
<1> QED
  BY <1>1, <1>2, TypeInvariant, StatusInvariant, RunningInvariant, HandoffInvariant, BoardInvariant, PTL
     DEF Spec, BoardRefined, Board!BoardSpec
=============================================================================
