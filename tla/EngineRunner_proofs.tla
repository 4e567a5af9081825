------------------------ MODULE EngineRunner_proofs ------------------------
(***************************************************************************)
(* What holds of the background driver for any number of clients.          *)
(***************************************************************************)
EXTENDS EngineRunner, TLAPS

-----------------------------------------------------------------------------
(* The inductive invariant.                                                *)

NotSubmitted == {"idle", "refused", "submitting"}

\* A request is in one place only: queued once, or named, and told once.
ToldOnce ==
  /\ \A c \in done : result[c] # "none"
  /\ pending \cap done = {}
  /\ pending \subseteq named
  /\ \A i \in 1 .. Len(submissions) :
       /\ submissions[i] \notin done \cup named
       /\ client[submissions[i]] \notin NotSubmitted
  /\ \A i, j \in 1 .. Len(submissions) : submissions[i] = submissions[j] => i = j
  /\ \A c \in done \cup named : client[c] \notin NotSubmitted
  /\ loop = "name" => submissions # <<>>

\* The engine only works on requests that have left the submission queue ...
Admitted ==
  \A c \in Clients :
    c \in prefilled \cup todo \cup decodes \cup current \/ queue[c] # "none"
      => c \in named \/ (loop = "name" /\ c = submissions[1] /\ c \notin prefilled)

Admitting == {"admit_ready", "admit_pop", "admit_append", "admit_chunk"}
Chunking == Admitting \cup {"admit", "admit_head", "execute", "prefill"}

\* ... one at a time, and a request without a pass left is over, and stays so.
PassesLeft ==
  /\ loop \in Admitting => \E h \in Clients : current = {h}
  /\ \A c \in Clients : left[c] = 0 => c \in prefilled /\ state[c] \in Over
  /\ \A c \in prefilled : queue[c] # "waiting"
  /\ loop \in Chunking \cup {"schedule"} => \A c \in todo : queue[c] # "waiting"
  /\ loop \in Chunking => todo \cap prefilled = {}
  /\ loop \in Admitting \cup {"prefill"} => \A c \in current : c \notin prefilled \cup todo
  /\ loop \in {"admit_append", "admit_chunk", "prefill"} =>
       \A c \in current : queue[c] # "waiting"
  /\ decodes \subseteq prefilled
  /\ loop = "decode" => \A c \in current : c \in prefilled /\ left[c] # 0

RunnerInv == RunnerTypeOK /\ ToldOnce /\ Admitted /\ PassesLeft

-----------------------------------------------------------------------------
(* Two facts about queues.                                                 *)

\* What queue.get() returns and leaves.
LEMMA TailFacts ==
  ASSUME NEW S, NEW q \in Seq(S), q # <<>>
  PROVE  /\ Head(q) = q[1] /\ Head(q) \in S /\ 1 \in 1 .. Len(q)
         /\ Tail(q) \in Seq(S) /\ Len(Tail(q)) = Len(q) - 1
         /\ \A i \in 1 .. Len(Tail(q)) : i + 1 \in 1 .. Len(q) /\ Tail(q)[i] = q[i + 1]
  OBVIOUS

\* What queue.put() adds.
LEMMA AppendFacts ==
  ASSUME NEW S, NEW q \in Seq(S), NEW e \in S
  PROVE  /\ Append(q, e) \in Seq(S) /\ Len(Append(q, e)) = Len(q) + 1
         /\ \A i \in 1 .. Len(q) : Append(q, e)[i] = q[i]
         /\ Append(q, e)[Len(q) + 1] = e /\ Append(q, e) # <<>>
  OBVIOUS

\* Who is admitted next is known to nobody else yet.
LEMMA NextSubmission ==
  ASSUME RunnerInv, loop = "drain", submissions # <<>>
  PROVE  /\ Head(submissions) \in Clients /\ Head(submissions) = submissions[1]
         /\ Head(submissions) \notin done \cup named \cup pending
         /\ Head(submissions) \notin prefilled \cup todo \cup decodes \cup current
         /\ queue[Head(submissions)] = "none"
<1>1. Head(submissions) \in Clients /\ Head(submissions) = submissions[1]
      /\ 1 \in 1 .. Len(submissions)
  BY TailFacts DEF RunnerInv, RunnerTypeOK
<1>2. Head(submissions) \notin done \cup named \cup pending
  BY <1>1 DEF RunnerInv, ToldOnce
<1> QED  BY <1>1, <1>2 DEF RunnerInv, Admitted

-----------------------------------------------------------------------------
(* Every step of either thread keeps each part of the invariant.           *)

\* The types: a decode never takes a pass that is not left.
LEMMA TypeStep ==
  ASSUME RunnerAssumption, RunnerInv, Next
  PROVE  RunnerTypeOK'
<1> USE DEF RunnerInv, RunnerTypeOK, ToldOnce, PassesLeft, HttpPlaces, EnginePlaces, Over
<1>1. ASSUME NEW c \in Clients, SubmitCheck(c) PROVE RunnerTypeOK'
  BY <1>1 DEF SubmitCheck, Goto, driver, engine, step
<1>2. ASSUME NEW c \in Clients, SubmitPut(c) PROVE RunnerTypeOK'
  BY <1>2, AppendFacts DEF SubmitPut, Goto, engine, step
<1>3. ASSUME NEW c \in Clients, WaitReturns(c) PROVE RunnerTypeOK'
  BY <1>3 DEF WaitReturns, Goto, driver, engine, step
<1>4. ASSUME NEW c \in Clients, WaitExpires(c) PROVE RunnerTypeOK'
  BY <1>4 DEF WaitExpires, Goto, driver, engine, step
<1>5. ASSUME NEW c \in Clients, ReadRequestId(c) PROVE RunnerTypeOK'
  BY <1>5 DEF ReadRequestId, Goto, driver, engine, step
<1>6. ASSUME NEW c \in Clients, AbortCheck(c) PROVE RunnerTypeOK'
  BY <1>6 DEF AbortCheck, Goto, driver, engine, step
<1>7. ASSUME NEW c \in Clients, AbortScan(c) PROVE RunnerTypeOK'
  BY <1>7 DEF AbortScan, Goto, driver, engine, step
<1>8. ASSUME NEW c \in Clients, AbortRelease(c) PROVE RunnerTypeOK'
  BY <1>8 DEF AbortRelease, Goto, ReleaseKV, driver, step
<1>9. ASSUME NEW c \in Clients, AbortRemove(c) PROVE RunnerTypeOK'
  <2>1. CASE queue[c] = found[c]
    <3>1. client' = [client EXCEPT ![c] = "abort_finish"] /\ queue' = [queue EXCEPT ![c] = "none"]
      BY <1>9, <2>1 DEF AbortRemove, Goto
    <3> QED  BY <1>9, <3>1 DEF AbortRemove, driver, step
  <2>2. CASE queue[c] # found[c]
    <3>1. client' = [client EXCEPT ![c] = "exception"] /\ queue' = queue
      BY <1>9, <2>2 DEF AbortRemove, Goto
    <3> QED  BY <1>9, <3>1 DEF AbortRemove, driver, step
  <2> QED  BY <2>1, <2>2
<1>10. ASSUME NEW c \in Clients, AbortFinish(c) PROVE RunnerTypeOK'
  BY <1>10 DEF AbortFinish, Goto, driver, step
<1>11. CASE DrainRefuse
  BY <1>11, TailFacts DEF DrainRefuse, Resolve, http, engine, step
<1>12. CASE DrainAdmit
  BY <1>12, TailFacts DEF DrainAdmit, driver, http, step
<1>13. CASE DrainName
  BY <1>13, TailFacts DEF DrainName, http, engine, step
<1>14. CASE DrainDone
  BY <1>14 DEF DrainDone, driver, http, engine, step
<1>15. CASE LoopIdle
  BY <1>15 DEF LoopIdle, driver, http, engine, step
<1>16. CASE ScheduleBegin
  BY <1>16 DEF ScheduleBegin, In, driver, http, engine
<1>16a. CASE ScheduleRunning
  BY <1>16a DEF ScheduleRunning, In, driver, http, engine
<1>16z. CASE AdmitLook
  BY <1>16z DEF AdmitLook, driver, http, engine, step
<1>16b. CASE AdmitHead
  BY <1>16b DEF AdmitHead, In, driver, http
<1>16c. CASE AdmitReady
  BY <1>16c DEF AdmitReady, driver, http, step
<1>16d. CASE AdmitPop
  BY <1>16d DEF AdmitPop, In, driver, http, step
<1>16e. CASE AdmitAppend
  BY <1>16e DEF AdmitAppend, driver, http, step
<1>16f. CASE AdmitChunk
  BY <1>16f DEF AdmitChunk, driver, http, engine
<1>16g. CASE ScheduleDone
  BY <1>16g DEF ScheduleDone, In, driver, http, engine, step
<1>17. CASE PrefillStart
  BY <1>17 DEF PrefillStart, driver, http, engine
<1>18. CASE PrefillEnd
  BY <1>18 DEF PrefillEnd, driver, http
<1>19. CASE DecodeStart
  BY <1>19 DEF DecodeStart, Decodable, driver, http, engine
<1>20. CASE DecodeEnd
  BY <1>20 DEF DecodeEnd, Finishing, In, driver, http
<1>21. CASE RetireRelease
  BY <1>21 DEF RetireRelease, ReleaseKV, driver, http
<1>22. CASE RetireCheck
  BY <1>22 DEF RetireCheck, driver, http, engine
<1>23. CASE RetireRemove
  BY <1>23 DEF RetireRemove, driver, http
<1>24. CASE RetireDone
  BY <1>24 DEF RetireDone, driver, http, engine, step
<1>25. CASE Deliver
  BY <1>25 DEF Deliver, Resolve, http, engine
<1>26. CASE Delivered
  BY <1>26 DEF Delivered, driver, http, engine, step
<1>27. CASE ModelRaises
  BY <1>27 DEF ModelRaises, StepRaises, FailAll, Resolve, http
<1>28. CASE AssertionRaises
  BY <1>28 DEF AssertionRaises, StepRaises, FailAll, Resolve, http
<1>28a. CASE PopRaises
  BY <1>28a DEF PopRaises, StepRaises, FailAll, Resolve, http
<1>29. CASE RemoveRaises
  BY <1>29 DEF RemoveRaises, StepRaises, FailAll, Resolve, http
<1>30. CASE Stop
  BY <1>30 DEF Stop, http, engine, step
<1> QED
  BY <1>1, <1>2, <1>3, <1>4, <1>5, <1>6, <1>7, <1>8, <1>9, <1>10, <1>11, <1>12, <1>13, <1>14,
     <1>15, <1>16, <1>16a, <1>16z, <1>16b, <1>16c, <1>16d, <1>16e, <1>16f, <1>16g, <1>17, <1>18, <1>19,
     <1>20, <1>21, <1>22, <1>23, <1>24, <1>25, <1>26, <1>27, <1>28, <1>28a, <1>29, <1>30
     DEF Next, HttpThread, EngineThread

\* Nobody is told twice, and _pending names only the unanswered.
LEMMA ToldStep ==
  ASSUME RunnerAssumption, RunnerInv, Next
  PROVE  ToldOnce'
<1> USE DEF RunnerInv, RunnerTypeOK, ToldOnce, NotSubmitted
<1>1. ASSUME NEW c \in Clients, SubmitCheck(c) PROVE ToldOnce'
  BY <1>1 DEF SubmitCheck, Goto, driver, engine, step
<1>2. ASSUME NEW c \in Clients, SubmitPut(c) PROVE ToldOnce'
  BY <1>2, AppendFacts DEF SubmitPut, Goto, engine, step
<1>3. ASSUME NEW c \in Clients, WaitReturns(c) PROVE ToldOnce'
  <2>1. result[c] \notin NotSubmitted /\ client' = [client EXCEPT ![c] = result[c]]
    BY <1>3 DEF WaitReturns, Goto
  <2>2. UNCHANGED <<submissions, pending, named, done, result, loop>>
    BY <1>3 DEF WaitReturns, driver
  <2>3. \A d \in Clients : client[d] \notin NotSubmitted => client'[d] \notin NotSubmitted
    BY <2>1
  <2> QED  BY <2>2, <2>3
<1>4. ASSUME NEW c \in Clients, WaitExpires(c) PROVE ToldOnce'
  BY <1>4 DEF WaitExpires, Goto, driver, engine, step
<1>5. ASSUME NEW c \in Clients, ReadRequestId(c) PROVE ToldOnce'
  BY <1>5 DEF ReadRequestId, Goto, driver, engine, step
<1>6. ASSUME NEW c \in Clients, AbortCheck(c) PROVE ToldOnce'
  BY <1>6 DEF AbortCheck, Goto, driver, engine, step
<1>7. ASSUME NEW c \in Clients, AbortScan(c) PROVE ToldOnce'
  BY <1>7 DEF AbortScan, Goto, driver, engine, step
<1>8. ASSUME NEW c \in Clients, AbortRelease(c) PROVE ToldOnce'
  BY <1>8 DEF AbortRelease, Goto, ReleaseKV, driver, step
<1>9. ASSUME NEW c \in Clients, AbortRemove(c) PROVE ToldOnce'
  BY <1>9 DEF AbortRemove, Goto, driver, step
<1>10. ASSUME NEW c \in Clients, AbortFinish(c) PROVE ToldOnce'
  BY <1>10 DEF AbortFinish, Goto, driver, step
<1>11. CASE DrainRefuse
  <2>1. PICK h \in Clients : /\ h = Head(submissions) /\ h = submissions[1]
                             /\ h \notin done \cup named \cup pending
    BY <1>11, NextSubmission DEF DrainRefuse
  <2>2. /\ result' = [c \in Clients |-> IF c = h THEN "error" ELSE result[c]]
        /\ done' = done \cup {h}
        /\ submissions' = Tail(submissions) /\ submissions # <<>> /\ loop = "drain"
        /\ UNCHANGED <<pending, named, client, loop>>
    BY <1>11, <2>1 DEF DrainRefuse, Resolve, http
  <2>3. client[h] \notin NotSubmitted
    BY <1>11, <2>1, TailFacts DEF DrainRefuse
  <2> QED  BY <2>1, <2>2, <2>3, TailFacts, SMTT(30)
<1>12. CASE DrainAdmit
  BY <1>12, TailFacts DEF DrainAdmit, driver, http, step
<1>13. CASE DrainName
  BY <1>13, TailFacts DEF DrainName, http, engine, step
<1>14. CASE DrainDone
  BY <1>14 DEF DrainDone, driver, http, engine, step
<1>15. CASE LoopIdle
  BY <1>15 DEF LoopIdle, driver, http, engine, step
<1>16. CASE ScheduleBegin
  BY <1>16 DEF ScheduleBegin, In, driver, http, engine
<1>16a. CASE ScheduleRunning
  BY <1>16a DEF ScheduleRunning, In, driver, http, engine
<1>16z. CASE AdmitLook
  BY <1>16z DEF AdmitLook, driver, http, engine, step
<1>16b. CASE AdmitHead
  BY <1>16b DEF AdmitHead, In, driver, http
<1>16c. CASE AdmitReady
  BY <1>16c DEF AdmitReady, driver, http, step
<1>16d. CASE AdmitPop
  BY <1>16d DEF AdmitPop, In, driver, http, step
<1>16e. CASE AdmitAppend
  BY <1>16e DEF AdmitAppend, driver, http, step
<1>16f. CASE AdmitChunk
  BY <1>16f DEF AdmitChunk, driver, http, engine
<1>16g. CASE ScheduleDone
  BY <1>16g DEF ScheduleDone, In, driver, http, engine, step
<1>17. CASE PrefillStart
  BY <1>17 DEF PrefillStart, driver, http, engine
<1>18. CASE PrefillEnd
  BY <1>18 DEF PrefillEnd, driver, http
<1>19. CASE DecodeStart
  BY <1>19 DEF DecodeStart, Decodable, driver, http, engine
<1>20. CASE DecodeEnd
  BY <1>20 DEF DecodeEnd, Finishing, In, driver, http
<1>21. CASE RetireRelease
  BY <1>21 DEF RetireRelease, ReleaseKV, driver, http
<1>22. CASE RetireCheck
  BY <1>22 DEF RetireCheck, driver, http, engine
<1>23. CASE RetireRemove
  BY <1>23 DEF RetireRemove, driver, http
<1>24. CASE RetireDone
  BY <1>24 DEF RetireDone, driver, http, engine, step
<1>25. CASE Deliver
  BY <1>25 DEF Deliver, Resolve, http, engine
<1>26. CASE Delivered
  BY <1>26 DEF Delivered, driver, http, engine, step
<1>27. CASE ModelRaises
  BY <1>27 DEF ModelRaises, StepRaises, FailAll, Resolve, http
<1>28. CASE AssertionRaises
  BY <1>28 DEF AssertionRaises, StepRaises, FailAll, Resolve, http
<1>28a. CASE PopRaises
  BY <1>28a DEF PopRaises, StepRaises, FailAll, Resolve, http
<1>29. CASE RemoveRaises
  BY <1>29 DEF RemoveRaises, StepRaises, FailAll, Resolve, http
<1>30. CASE Stop
  BY <1>30 DEF Stop, http, engine, step
<1> QED
  BY <1>1, <1>2, <1>3, <1>4, <1>5, <1>6, <1>7, <1>8, <1>9, <1>10, <1>11, <1>12, <1>13, <1>14,
     <1>15, <1>16, <1>16a, <1>16z, <1>16b, <1>16c, <1>16d, <1>16e, <1>16f, <1>16g, <1>17, <1>18, <1>19,
     <1>20, <1>21, <1>22, <1>23, <1>24, <1>25, <1>26, <1>27, <1>28, <1>28a, <1>29, <1>30
     DEF Next, HttpThread, EngineThread

\* The engine gets hold of a request only by add_request().
LEMMA AdmittedStep ==
  ASSUME RunnerAssumption, RunnerInv, Next
  PROVE  Admitted'
<1> USE DEF RunnerInv, RunnerTypeOK, ToldOnce, Admitted
<1>1. ASSUME NEW c \in Clients, SubmitCheck(c) PROVE Admitted'
  BY <1>1 DEF SubmitCheck, Goto, driver, engine, step
<1>2. ASSUME NEW c \in Clients, SubmitPut(c) PROVE Admitted'
  BY <1>2, AppendFacts DEF SubmitPut, Goto, engine, step
<1>3. ASSUME NEW c \in Clients, WaitReturns(c) PROVE Admitted'
  BY <1>3 DEF WaitReturns, Goto, driver, engine, step
<1>4. ASSUME NEW c \in Clients, WaitExpires(c) PROVE Admitted'
  BY <1>4 DEF WaitExpires, Goto, driver, engine, step
<1>5. ASSUME NEW c \in Clients, ReadRequestId(c) PROVE Admitted'
  BY <1>5 DEF ReadRequestId, Goto, driver, engine, step
<1>6. ASSUME NEW c \in Clients, AbortCheck(c) PROVE Admitted'
  BY <1>6 DEF AbortCheck, Goto, driver, engine, step
<1>7. ASSUME NEW c \in Clients, AbortScan(c) PROVE Admitted'
  BY <1>7 DEF AbortScan, Goto, driver, engine, step
<1>8. ASSUME NEW c \in Clients, AbortRelease(c) PROVE Admitted'
  BY <1>8 DEF AbortRelease, Goto, ReleaseKV, driver, step
<1>9. ASSUME NEW c \in Clients, AbortRemove(c) PROVE Admitted'
  BY <1>9 DEF AbortRemove, Goto, driver, step
<1>10. ASSUME NEW c \in Clients, AbortFinish(c) PROVE Admitted'
  BY <1>10 DEF AbortFinish, Goto, driver, step
<1>11. CASE DrainRefuse
  BY <1>11, TailFacts DEF DrainRefuse, Resolve, http, engine, step
<1>12. CASE DrainAdmit
  BY <1>12, TailFacts DEF DrainAdmit, driver, http, step
<1>13. CASE DrainName
  BY <1>13, TailFacts DEF DrainName, http, engine, step
<1>14. CASE DrainDone
  BY <1>14 DEF DrainDone, driver, http, engine, step
<1>15. CASE LoopIdle
  BY <1>15 DEF LoopIdle, driver, http, engine, step
<1>16. CASE ScheduleBegin
  BY <1>16 DEF ScheduleBegin, In, driver, http, engine
<1>16a. CASE ScheduleRunning
  BY <1>16a DEF ScheduleRunning, In, driver, http, engine
<1>16z. CASE AdmitLook
  BY <1>16z DEF AdmitLook, driver, http, engine, step
<1>16b. CASE AdmitHead
  BY <1>16b DEF AdmitHead, In, driver, http
<1>16c. CASE AdmitReady
  BY <1>16c DEF AdmitReady, driver, http, step
<1>16d. CASE AdmitPop
  BY <1>16d DEF AdmitPop, In, driver, http, step
<1>16e. CASE AdmitAppend
  BY <1>16e DEF AdmitAppend, driver, http, step
<1>16f. CASE AdmitChunk
  BY <1>16f DEF AdmitChunk, driver, http, engine
<1>16g. CASE ScheduleDone
  BY <1>16g DEF ScheduleDone, In, driver, http, engine, step
<1>17. CASE PrefillStart
  BY <1>17 DEF PrefillStart, driver, http, engine
<1>18. CASE PrefillEnd
  BY <1>18 DEF PrefillEnd, driver, http
<1>19. CASE DecodeStart
  BY <1>19 DEF DecodeStart, Decodable, driver, http, engine
<1>20. CASE DecodeEnd
  BY <1>20 DEF DecodeEnd, Finishing, In, driver, http
<1>21. CASE RetireRelease
  BY <1>21 DEF RetireRelease, ReleaseKV, driver, http
<1>22. CASE RetireCheck
  BY <1>22 DEF RetireCheck, driver, http, engine
<1>23. CASE RetireRemove
  BY <1>23 DEF RetireRemove, driver, http
<1>24. CASE RetireDone
  BY <1>24 DEF RetireDone, driver, http, engine, step
<1>25. CASE Deliver
  BY <1>25 DEF Deliver, Resolve, http, engine
<1>26. CASE Delivered
  BY <1>26 DEF Delivered, driver, http, engine, step
<1>27. CASE ModelRaises
  BY <1>27 DEF ModelRaises, StepRaises, FailAll, Resolve, http
<1>28. CASE AssertionRaises
  BY <1>28 DEF AssertionRaises, StepRaises, FailAll, Resolve, http
<1>28a. CASE PopRaises
  BY <1>28a DEF PopRaises, StepRaises, FailAll, Resolve, http
<1>29. CASE RemoveRaises
  BY <1>29 DEF RemoveRaises, StepRaises, FailAll, Resolve, http
<1>30. CASE Stop
  BY <1>30 DEF Stop, http, engine, step
<1> QED
  BY <1>1, <1>2, <1>3, <1>4, <1>5, <1>6, <1>7, <1>8, <1>9, <1>10, <1>11, <1>12, <1>13, <1>14,
     <1>15, <1>16, <1>16a, <1>16z, <1>16b, <1>16c, <1>16d, <1>16e, <1>16f, <1>16g, <1>17, <1>18, <1>19,
     <1>20, <1>21, <1>22, <1>23, <1>24, <1>25, <1>26, <1>27, <1>28, <1>28a, <1>29, <1>30
     DEF Next, HttpThread, EngineThread

\* An abort or a failed step gives no request a pass it does not have.
LEMMA PassesStep ==
  ASSUME RunnerAssumption, RunnerInv, Next
  PROVE  PassesLeft'
<1> USE DEF RunnerInv, RunnerTypeOK, ToldOnce, Admitted, PassesLeft, Admitting, Chunking, In, Over
<1>1. ASSUME NEW c \in Clients, SubmitCheck(c) PROVE PassesLeft'
  BY <1>1 DEF SubmitCheck, Goto, driver, engine, step
<1>2. ASSUME NEW c \in Clients, SubmitPut(c) PROVE PassesLeft'
  BY <1>2, AppendFacts DEF SubmitPut, Goto, engine, step
<1>3. ASSUME NEW c \in Clients, WaitReturns(c) PROVE PassesLeft'
  BY <1>3 DEF WaitReturns, Goto, driver, engine, step
<1>4. ASSUME NEW c \in Clients, WaitExpires(c) PROVE PassesLeft'
  BY <1>4 DEF WaitExpires, Goto, driver, engine, step
<1>5. ASSUME NEW c \in Clients, ReadRequestId(c) PROVE PassesLeft'
  BY <1>5 DEF ReadRequestId, Goto, driver, engine, step
<1>6. ASSUME NEW c \in Clients, AbortCheck(c) PROVE PassesLeft'
  BY <1>6 DEF AbortCheck, Goto, driver, engine, step
<1>7. ASSUME NEW c \in Clients, AbortScan(c) PROVE PassesLeft'
  BY <1>7 DEF AbortScan, Goto, driver, engine, step
<1>8. ASSUME NEW c \in Clients, AbortRelease(c) PROVE PassesLeft'
  BY <1>8 DEF AbortRelease, Goto, ReleaseKV, driver, step
<1>9. ASSUME NEW c \in Clients, AbortRemove(c) PROVE PassesLeft'
  BY <1>9 DEF AbortRemove, Goto, driver, step
<1>10. ASSUME NEW c \in Clients, AbortFinish(c) PROVE PassesLeft'
  BY <1>10 DEF AbortFinish, Goto, driver, step
<1>11. CASE DrainRefuse
  BY <1>11, TailFacts DEF DrainRefuse, Resolve, http, engine, step
<1>12. CASE DrainAdmit
  <2>1. PICK h \in Clients : h = Head(submissions) /\ h \notin prefilled \cup todo \cup current
    BY <1>12, NextSubmission DEF DrainAdmit
  <2>2. /\ state' = [state EXCEPT ![h] = "waiting"]
        /\ queue' = [queue EXCEPT ![h] = "waiting"]
        /\ loop' = "name"
        /\ UNCHANGED <<left, prefilled, todo, decodes, current>>
    BY <1>12, <2>1 DEF DrainAdmit, step
  <2>3. \A c \in Clients : left[c] = 0 => c # h
    BY <2>1
  <2> QED  BY <2>1, <2>2, <2>3
<1>13. CASE DrainName
  BY <1>13, TailFacts DEF DrainName, http, engine, step
<1>14. CASE DrainDone
  BY <1>14 DEF DrainDone, driver, http, engine, step
<1>15. CASE LoopIdle
  BY <1>15 DEF LoopIdle, driver, http, engine, step
<1>16. CASE ScheduleBegin
  BY <1>16 DEF ScheduleBegin, In, driver, http, engine
<1>16a. CASE ScheduleRunning
  BY <1>16a DEF ScheduleRunning, In, driver, http, engine
<1>16z. CASE AdmitLook
  BY <1>16z DEF AdmitLook, driver, http, engine, step
<1>16b. CASE AdmitHead
  BY <1>16b DEF AdmitHead, In, driver, http
<1>16c. CASE AdmitReady
  BY <1>16c DEF AdmitReady, driver, http, step
<1>16d. CASE AdmitPop
  BY <1>16d DEF AdmitPop, In, driver, http, step
<1>16e. CASE AdmitAppend
  BY <1>16e DEF AdmitAppend, driver, http, step
<1>16f. CASE AdmitChunk
  BY <1>16f DEF AdmitChunk, driver, http, engine
<1>16g. CASE ScheduleDone
  BY <1>16g DEF ScheduleDone, In, driver, http, engine, step
<1>17. CASE PrefillStart
  BY <1>17 DEF PrefillStart, driver, http, engine
<1>18. CASE PrefillEnd
  BY <1>18 DEF PrefillEnd, driver, http
<1>19. CASE DecodeStart
  BY <1>19 DEF DecodeStart, Decodable, driver, http, engine
<1>20. CASE DecodeEnd
  <2>1. /\ loop = "decode" /\ loop' = "retire"
        /\ prefilled' = prefilled /\ queue' = queue /\ decodes' = decodes
    BY <1>20 DEF DecodeEnd
  <2>2. ASSUME NEW c \in Clients, left'[c] = 0
        PROVE  c \in prefilled /\ state'[c] \in Over
    <3>1. CASE c \in current
      <4>1. left[c] = 1
        BY <1>20, <2>2, <3>1 DEF DecodeEnd
      <4>2. state'[c] = "finished"
        BY <1>20, <3>1, <4>1 DEF DecodeEnd
      <4>3. c \in prefilled
        BY <2>1, <3>1
      <4> QED  BY <4>2, <4>3
    <3>2. CASE c \notin current
      BY <1>20, <2>2, <3>2 DEF DecodeEnd
    <3> QED  BY <3>1, <3>2
  <2> QED  BY <2>1, <2>2
<1>21. CASE RetireRelease
  BY <1>21 DEF RetireRelease, ReleaseKV, driver, http
<1>22. CASE RetireCheck
  BY <1>22 DEF RetireCheck, driver, http, engine
<1>23. CASE RetireRemove
  BY <1>23 DEF RetireRemove, driver, http
<1>24. CASE RetireDone
  BY <1>24 DEF RetireDone, driver, http, engine, step
<1>25. CASE Deliver
  BY <1>25 DEF Deliver, Resolve, http, engine
<1>26. CASE Delivered
  BY <1>26 DEF Delivered, driver, http, engine, step
<1>27. CASE ModelRaises
  BY <1>27 DEF ModelRaises, StepRaises, FailAll, Resolve, http
<1>28. CASE AssertionRaises
  BY <1>28 DEF AssertionRaises, StepRaises, FailAll, Resolve, http
<1>28a. CASE PopRaises
  BY <1>28a DEF PopRaises, StepRaises, FailAll, Resolve, http
<1>29. CASE RemoveRaises
  BY <1>29 DEF RemoveRaises, StepRaises, FailAll, Resolve, http
<1>30. CASE Stop
  BY <1>30 DEF Stop, http, engine, step
<1> QED
  BY <1>1, <1>2, <1>3, <1>4, <1>5, <1>6, <1>7, <1>8, <1>9, <1>10, <1>11, <1>12, <1>13, <1>14,
     <1>15, <1>16, <1>16a, <1>16z, <1>16b, <1>16c, <1>16d, <1>16e, <1>16f, <1>16g, <1>17, <1>18, <1>19,
     <1>20, <1>21, <1>22, <1>23, <1>24, <1>25, <1>26, <1>27, <1>28, <1>28a, <1>29, <1>30
     DEF Next, HttpThread, EngineThread

-----------------------------------------------------------------------------
\* The invariant of the background driver holds at the start, is kept by every
\* step and therefore holds always.
THEOREM RunnerInvHolds == Spec => []RunnerInv
<1>1. Init => RunnerInv
  <2> SUFFICES ASSUME Init PROVE RunnerInv
    OBVIOUS
  <2>1. left \in [Clients -> Nat] /\ \A c \in Clients : left[c] # 0
    BY RunnerAssumption DEF Init
  <2>2. submissions \in Seq(Clients) /\ failures \in 0 .. MaxFailures
    BY RunnerAssumption DEF Init
  <2>3. RunnerTypeOK
    BY <2>1, <2>2 DEF Init, RunnerTypeOK, HttpPlaces, EnginePlaces, Over
  <2>4. ToldOnce
    BY DEF Init, ToldOnce
  <2>5. Admitted
    BY DEF Init, Admitted
  <2>6. PassesLeft
    BY <2>1 DEF Init, PassesLeft, Admitting, Chunking
  <2> QED  BY <2>3, <2>4, <2>5, <2>6 DEF RunnerInv
<1>2. RunnerInv /\ [Next]_vars => RunnerInv'
  <2> SUFFICES ASSUME RunnerInv, [Next]_vars PROVE RunnerInv'
    OBVIOUS
  <2>1. CASE Next
    BY <2>1, RunnerAssumption, TypeStep, ToldStep, AdmittedStep, PassesStep DEF RunnerInv
  <2>2. CASE UNCHANGED vars
    BY <2>2 DEF vars, driver, http, engine, step, RunnerInv, RunnerTypeOK, ToldOnce, Admitted,
       PassesLeft, Admitting, Chunking, In
  <2> QED  BY <2>1, <2>2
<1> QED  BY <1>1, <1>2, PTL DEF Spec

\* Type correctness of the driver, with left \in Nat: no request gets a forward
\* pass after its last one, whatever aborts and failed steps leave behind.
THEOREM RunnerTypeCorrect == Spec => []RunnerTypeOK
<1>1. RunnerInv => RunnerTypeOK
  BY DEF RunnerInv
<1> QED  BY RunnerInvHolds, <1>1, PTL

\* A client that has been told an answer or an error is never told another.
THEOREM AnsweredOnceHolds == Spec => AnsweredOnce
<1> DEFINE Kept == \A c \in done : c \in done' /\ result'[c] = result[c]
<1>1. RunnerInv /\ [Next]_vars => [Kept]_vars
  <2> SUFFICES ASSUME RunnerInv, Next PROVE Kept
    OBVIOUS
  <2> USE DEF RunnerInv, RunnerTypeOK, ToldOnce
  <2>1. CASE DrainRefuse
    BY <2>1, TailFacts DEF DrainRefuse, Resolve
  <2>2. CASE Deliver
    BY <2>2 DEF Deliver, Resolve
  <2>3. CASE ModelRaises \/ AssertionRaises \/ PopRaises \/ RemoveRaises
    BY <2>3 DEF ModelRaises, AssertionRaises, PopRaises, RemoveRaises, StepRaises, FailAll, Resolve
  <2>4. CASE UNCHANGED <<done, result>>
    BY <2>4
  <2>5. ASSUME NEW c \in Clients, SubmitCheck(c) \/ WaitExpires(c) \/ HttpThread(c)
        PROVE  UNCHANGED <<done, result>>
    BY <2>5 DEF SubmitCheck, WaitExpires, HttpThread, SubmitPut, WaitReturns, ReadRequestId,
       AbortCheck, AbortScan, AbortRelease, AbortRemove, AbortFinish, driver
  <2>6. ASSUME EngineThread \/ Stop,
               ~(DrainRefuse \/ Deliver \/ ModelRaises \/ AssertionRaises \/ PopRaises
                 \/ RemoveRaises)
        PROVE  UNCHANGED <<done, result>>
    BY <2>6 DEF EngineThread, Stop, DrainAdmit, DrainName, DrainDone, LoopIdle, ScheduleBegin,
       ScheduleRunning, AdmitLook, AdmitHead, AdmitReady, AdmitPop, AdmitAppend, AdmitChunk,
       ScheduleDone, PrefillStart, PrefillEnd, DecodeStart, DecodeEnd, RetireRelease, RetireCheck,
       RetireRemove, RetireDone, Delivered, driver
  <2> QED  BY <2>1, <2>2, <2>3, <2>4, <2>5, <2>6 DEF Next
<1>2. Spec => [][Kept]_vars
  BY RunnerInvHolds, <1>1, PTL DEF Spec
<1> QED  BY <1>2 DEF AnsweredOnce

-----------------------------------------------------------------------------
(* What a client is told is the end of its request.                        *)

Complete(c) == state[c] = "finished" /\ left[c] = 0

\* Only a client that has timed out finds its request aborted, so that whoever
\* still waits is handed a request that has run to its end.
CompleteInv ==
  \A c \in Clients :
    /\ state[c] = "aborted" => client[c] = "timeout"
    /\ c \in outputs \/ result[c] = "output" =>
         c \in prefilled /\ (Complete(c) \/ state[c] = "aborted")
    /\ client[c] = "output" => c \in done /\ result[c] = "output"

LEMMA CompleteStep ==
  ASSUME RunnerAssumption, RunnerInv, CompleteInv, Next
  PROVE  CompleteInv'
<1> USE DEF RunnerInv, RunnerTypeOK, ToldOnce, Admitted, PassesLeft, CompleteInv, Complete, Over
<1>1. ASSUME NEW c \in Clients, SubmitCheck(c) PROVE CompleteInv'
  BY <1>1 DEF SubmitCheck, Goto, driver, engine, step
<1>2. ASSUME NEW c \in Clients, SubmitPut(c) PROVE CompleteInv'
  BY <1>2, AppendFacts DEF SubmitPut, Goto, engine, step
<1>3. ASSUME NEW c \in Clients, WaitReturns(c) PROVE CompleteInv'
  BY <1>3 DEF WaitReturns, Goto, driver, engine, step
<1>4. ASSUME NEW c \in Clients, WaitExpires(c) PROVE CompleteInv'
  BY <1>4 DEF WaitExpires, Goto, driver, engine, step
<1>5. ASSUME NEW c \in Clients, ReadRequestId(c) PROVE CompleteInv'
  BY <1>5 DEF ReadRequestId, Goto, driver, engine, step
<1>6. ASSUME NEW c \in Clients, AbortCheck(c) PROVE CompleteInv'
  BY <1>6 DEF AbortCheck, Goto, driver, engine, step
<1>7. ASSUME NEW c \in Clients, AbortScan(c) PROVE CompleteInv'
  BY <1>7 DEF AbortScan, Goto, driver, engine, step
<1>8. ASSUME NEW c \in Clients, AbortRelease(c) PROVE CompleteInv'
  BY <1>8 DEF AbortRelease, Goto, ReleaseKV, driver, step
<1>9. ASSUME NEW c \in Clients, AbortRemove(c) PROVE CompleteInv'
  BY <1>9 DEF AbortRemove, Goto, driver, step
<1>10. ASSUME NEW c \in Clients, AbortFinish(c) PROVE CompleteInv'
  BY <1>10 DEF AbortFinish, Goto, driver, step
<1>11. CASE DrainRefuse
  <2>1. PICK h \in Clients : h = Head(submissions) /\ h \notin done \cup named
    BY <1>11, TailFacts DEF DrainRefuse
  <2>2. /\ result' = [c \in Clients |-> IF c = h THEN "error" ELSE result[c]]
        /\ done' = done \cup {h}
        /\ UNCHANGED <<state, left, client, outputs, prefilled>>
    BY <1>11, <2>1 DEF DrainRefuse, Resolve, http, engine, step
  <2> QED  BY <2>1, <2>2
<1>12. CASE DrainAdmit
  <2>1. PICK h \in Clients : h = Head(submissions) /\ h \notin done \cup named
    BY <1>12, TailFacts DEF DrainAdmit
  <2>2. h \notin prefilled
    BY <1>12, <2>1 DEF DrainAdmit
  <2>3. /\ state' = [state EXCEPT ![h] = "waiting"]
        /\ UNCHANGED <<done, result, left, client, outputs, prefilled>>
    BY <1>12, <2>1 DEF DrainAdmit, driver, http, step
  <2> QED  BY <2>1, <2>2, <2>3
<1>13. CASE DrainName
  BY <1>13, TailFacts DEF DrainName, http, engine, step
<1>14. CASE DrainDone
  BY <1>14 DEF DrainDone, driver, http, engine, step
<1>15. CASE LoopIdle
  BY <1>15 DEF LoopIdle, driver, http, engine, step
<1>16. CASE ScheduleBegin
  BY <1>16 DEF ScheduleBegin, In, driver, http, engine
<1>16a. CASE ScheduleRunning
  BY <1>16a DEF ScheduleRunning, In, driver, http, engine
<1>16z. CASE AdmitLook
  BY <1>16z DEF AdmitLook, driver, http, engine, step
<1>16b. CASE AdmitHead
  BY <1>16b DEF AdmitHead, In, driver, http
<1>16c. CASE AdmitReady
  BY <1>16c DEF AdmitReady, Admitting, driver, http, step
<1>16d. CASE AdmitPop
  BY <1>16d DEF AdmitPop, In, driver, http, step
<1>16e. CASE AdmitAppend
  BY <1>16e DEF AdmitAppend, driver, http, step
<1>16f. CASE AdmitChunk
  BY <1>16f DEF AdmitChunk, driver, http, engine
<1>16g. CASE ScheduleDone
  BY <1>16g DEF ScheduleDone, In, driver, http, engine, step
<1>17. CASE PrefillStart
  BY <1>17 DEF PrefillStart, driver, http, engine
<1>18. CASE PrefillEnd
  BY <1>18 DEF PrefillEnd, driver, http
<1>19. CASE DecodeStart
  BY <1>19 DEF DecodeStart, Decodable, driver, http, engine
<1>20. CASE DecodeEnd
  BY <1>20 DEF DecodeEnd, Finishing, In, driver, http
<1>21. CASE RetireRelease
  BY <1>21 DEF RetireRelease, ReleaseKV, driver, http
<1>22. CASE RetireCheck
  BY <1>22 DEF RetireCheck, driver, http, engine
<1>23. CASE RetireRemove
  BY <1>23 DEF RetireRemove, driver, http
<1>24. CASE RetireDone
  BY <1>24 DEF RetireDone, driver, http, engine, step
<1>25. CASE Deliver
  BY <1>25 DEF Deliver, Resolve, http, engine
<1>26. CASE Delivered
  BY <1>26 DEF Delivered, driver, http, engine, step
<1>27. CASE ModelRaises
  BY <1>27 DEF ModelRaises, StepRaises, FailAll, Resolve, http
<1>28. CASE AssertionRaises
  BY <1>28 DEF AssertionRaises, StepRaises, FailAll, Resolve, http
<1>28a. CASE PopRaises
  BY <1>28a DEF PopRaises, StepRaises, FailAll, Resolve, http
<1>29. CASE RemoveRaises
  BY <1>29 DEF RemoveRaises, StepRaises, FailAll, Resolve, http
<1>30. CASE Stop
  BY <1>30 DEF Stop, http, engine, step
<1> QED
  BY <1>1, <1>2, <1>3, <1>4, <1>5, <1>6, <1>7, <1>8, <1>9, <1>10, <1>11, <1>12, <1>13, <1>14,
     <1>15, <1>16, <1>16a, <1>16z, <1>16b, <1>16c, <1>16d, <1>16e, <1>16f, <1>16g, <1>17, <1>18, <1>19,
     <1>20, <1>21, <1>22, <1>23, <1>24, <1>25, <1>26, <1>27, <1>28, <1>28a, <1>29, <1>30
     DEF Next, HttpThread, EngineThread

LEMMA CompleteInvHolds == Spec => []CompleteInv
<1>1. Init => CompleteInv
  BY DEF Init, CompleteInv
<1>2. RunnerInv /\ CompleteInv /\ [Next]_vars => CompleteInv'
  <2> SUFFICES ASSUME RunnerInv, CompleteInv, [Next]_vars PROVE CompleteInv'
    OBVIOUS
  <2>1. CASE Next
    BY <2>1, RunnerAssumption, CompleteStep
  <2>2. CASE UNCHANGED vars
    BY <2>2 DEF vars, driver, http, engine, step, CompleteInv, Complete
  <2> QED  BY <2>1, <2>2
<1> QED  BY <1>1, <1>2, RunnerInvHolds, PTL DEF Spec

\* wait() returns an output only of a request that has run to its end, for any
\* number of clients, aborts and failed steps.
THEOREM AnswersAreCompleteHolds == Spec => []AnswersAreComplete
<1>1. CompleteInv => AnswersAreComplete
  BY DEF CompleteInv, Complete, AnswersAreComplete
<1> QED  BY <1>1, CompleteInvHolds, PTL

-----------------------------------------------------------------------------
(* What the engine thread leaves behind when it exits.                     *)

Retiring == loop \in {"retire_check", "retire_remove"}

\* As long as no abort has found a request: its blocks belong to its KV, its KV to
\* a running request or to the one being admitted, and a finished request is in
\* `outputs` until it is delivered.
Kept(c) ==
  /\ c \in holds => c \in kv
  /\ c \in kv => queue[c] = "running" \/ (loop \in Admitting /\ c \in current)
  /\ loop \in Chunking => (c \in todo => c \in kv)
  /\ loop \in Admitting \cup {"prefill", "decode"} => (c \in current => c \in kv)
  /\ loop = "admit_chunk" /\ c \in current => queue[c] = "running"
  /\ queue[c] = "waiting" =>
       state[c] \in {"waiting", "aborted"} \/ (loop = "admit_pop" /\ c \in current)
  /\ c \in pending =>
       \/ queue[c] # "none" \/ c \in outputs
       \/ state[c] \in {"waiting", "aborted"}
       \/ loop = "admit_append" /\ c \in current
  /\ c \in pending /\ state[c] = "finished" => c \in outputs
  /\ loop = "name" /\ c = submissions[1] => queue[c] # "none" /\ state[c] = "waiting"

UntouchedKept == \A c \in Clients \ Found : Kept(c)

\* A client is in the middle of its abort once, and only an abort takes a request
\* out of the waiting list before it is admitted.
LostInv ==
  /\ \A c \in Clients :
       /\ client[c] \in {"abort_check", "abort_scan", "abort_release", "abort_remove",
                        "abort_finish"} => c \in named
       /\ client[c] \in {"abort_release", "abort_remove"} => found[c] # "none"
       /\ found[c] # "none" =>
            client[c] \in {"abort_release", "abort_remove", "abort_finish", "timeout", "exception"}
       /\ queue[c] = "running" => state[c] # "waiting"
       /\ loop \in {"admit_pop", "admit_append", "admit_chunk"} /\ c \in current
            => state[c] # "waiting"
       /\ loop \in {"admit_ready", "admit_pop"} /\ c \in current /\ queue[c] # "waiting"
            => found[c] = "waiting"
       /\ loop = "name" /\ c = submissions[1] => c \notin pending /\ queue[c] = "waiting"
  /\ Lost # {} => \E c \in Clients : found[c] = "waiting"

LoopInv ==
  /\ Retiring => \A c \in current : state[c] \in Over /\ c \notin kv
  /\ loop \in Admitting \cup {"drain", "name", "check", "schedule", "admit", "admit_head",
                             "exited"} => outputs = {}
  /\ loop = "exited" => \A c \in Clients : queue[c] = "none"

DrainedInv == UntouchedKept /\ LostInv /\ LoopInv

LEMMA UntouchedStep ==
  ASSUME RunnerAssumption, RunnerInv, CompleteInv, DrainedInv, Next
  PROVE  UntouchedKept'
<1> USE DEF RunnerInv, RunnerTypeOK, ToldOnce, Admitted, PassesLeft, CompleteInv, DrainedInv,
            UntouchedKept, Kept, LostInv, LoopInv, Retiring, Admitting, Chunking, Found, Over
<1>1. ASSUME NEW c \in Clients, SubmitCheck(c) PROVE UntouchedKept'
  BY <1>1 DEF SubmitCheck, Goto, driver, engine, step
<1>2. ASSUME NEW c \in Clients, SubmitPut(c) PROVE UntouchedKept'
  BY <1>2, AppendFacts DEF SubmitPut, Goto, engine, step
<1>3. ASSUME NEW c \in Clients, WaitReturns(c) PROVE UntouchedKept'
  BY <1>3 DEF WaitReturns, Goto, driver, engine, step
<1>4. ASSUME NEW c \in Clients, WaitExpires(c) PROVE UntouchedKept'
  BY <1>4 DEF WaitExpires, Goto, driver, engine, step
<1>5. ASSUME NEW c \in Clients, ReadRequestId(c) PROVE UntouchedKept'
  BY <1>5 DEF ReadRequestId, Goto, driver, engine, step
<1>6. ASSUME NEW c \in Clients, AbortCheck(c) PROVE UntouchedKept'
  BY <1>6 DEF AbortCheck, Goto, driver, engine, step
<1>7. ASSUME NEW c \in Clients, AbortScan(c) PROVE UntouchedKept'
  <2>1. /\ client[c] = "abort_scan" /\ found' = [found EXCEPT ![c] = queue[c]]
        /\ UNCHANGED <<submissions, pending, loop, state, queue, kv, holds, todo, current, outputs>>
    BY <1>7 DEF AbortScan, driver, engine, step
  <2>2. found[c] = "none"
    BY <2>1
  <2>3. \A d \in Clients \ Found' : d \notin Found
    BY <2>1, <2>2
  <2> QED  BY <2>1, <2>3
<1>8. ASSUME NEW c \in Clients, AbortRelease(c) PROVE UntouchedKept'
  BY <1>8 DEF AbortRelease, Goto, ReleaseKV, driver, step
<1>9. ASSUME NEW c \in Clients, AbortRemove(c) PROVE UntouchedKept'
  BY <1>9 DEF AbortRemove, Goto, driver, step
<1>10. ASSUME NEW c \in Clients, AbortFinish(c) PROVE UntouchedKept'
  <2>1. /\ client[c] = "abort_finish" /\ state' = [state EXCEPT ![c] = "aborted"]
        /\ UNCHANGED <<submissions, pending, found, loop, queue, kv, holds, todo, current, outputs>>
    BY <1>10 DEF AbortFinish, driver, step
  <2>2. c \in named
    BY <2>1
  <2>3. loop = "name" => c # submissions[1]
    BY <2>2, TailFacts
  <2> QED  BY <2>1, <2>3
<1>11. CASE DrainRefuse
  BY <1>11, TailFacts DEF DrainRefuse, Resolve, http, engine, step
<1>12. CASE DrainAdmit
  <2>1. PICK h \in Clients : /\ h = Head(submissions) /\ h = submissions[1] /\ h \notin pending
                             /\ h \notin todo \cup current /\ queue[h] = "none"
    BY <1>12, NextSubmission DEF DrainAdmit
  <2>2. /\ state' = [state EXCEPT ![h] = "waiting"]
        /\ queue' = [queue EXCEPT ![h] = "waiting"]
        /\ loop' = "name"
        /\ loop = "drain"
        /\ UNCHANGED <<submissions, pending, found, kv, holds, todo, current, outputs>>
    BY <1>12, <2>1 DEF DrainAdmit, driver, http, step
  <2>3. ASSUME NEW d \in Clients \ Found PROVE Kept(d)'
    <3>1. CASE d = h
      BY <2>1, <2>2, <2>3, <3>1
    <3>2. CASE d # h
      <4>1. queue'[d] = queue[d] /\ state'[d] = state[d] /\ d # submissions[1]
        BY <2>1, <2>2, <2>3, <3>2
      <4> QED  BY <2>2, <2>3, <4>1
    <3> QED  BY <3>1, <3>2
  <2> QED  BY <2>2, <2>3
<1>13. CASE DrainName
  BY <1>13, TailFacts DEF DrainName, http, engine, step
<1>14. CASE DrainDone
  BY <1>14 DEF DrainDone, driver, http, engine, step
<1>15. CASE LoopIdle
  BY <1>15 DEF LoopIdle, driver, http, engine, step
<1>16. CASE ScheduleBegin
  BY <1>16 DEF ScheduleBegin, In, driver, http, engine
<1>16a. CASE ScheduleRunning
  BY <1>16a DEF ScheduleRunning, In, driver, http, engine
<1>16z. CASE AdmitLook
  BY <1>16z DEF AdmitLook, driver, http, engine, step
<1>16b. CASE AdmitHead
  BY <1>16b DEF AdmitHead, In, driver, http
<1>16c. CASE AdmitReady
  BY <1>16c DEF AdmitReady, driver, http, step
<1>16d. CASE AdmitPop
  BY <1>16d DEF AdmitPop, In, driver, http, step
<1>16e. CASE AdmitAppend
  BY <1>16e DEF AdmitAppend, driver, http, step
<1>16f. CASE AdmitChunk
  <2>1. /\ loop = "admit_chunk" /\ loop' = "admit" /\ current \subseteq kv
        /\ todo' = todo \cup current /\ current' = {}
        /\ UNCHANGED <<submissions, pending, found, state, queue, kv, holds, outputs>>
    BY <1>16f DEF AdmitChunk, driver, http, engine
  <2>2. \A d \in current : d \in Clients \ Found => queue[d] = "running"
    BY <2>1
  <2> QED  BY <2>1, <2>2
<1>16g. CASE ScheduleDone
  BY <1>16g DEF ScheduleDone, In, driver, http, engine, step
<1>17. CASE PrefillStart
  BY <1>17 DEF PrefillStart, driver, http, engine
<1>18. CASE PrefillEnd
  BY <1>18 DEF PrefillEnd, driver, http
<1>19. CASE DecodeStart
  BY <1>19 DEF DecodeStart, Decodable, driver, http, engine
<1>20. CASE DecodeEnd
  BY <1>20 DEF DecodeEnd, Finishing, In, driver, http
<1>21. CASE RetireRelease
  BY <1>21 DEF RetireRelease, ReleaseKV, driver, http
<1>22. CASE RetireCheck
  BY <1>22 DEF RetireCheck, driver, http, engine
<1>23. CASE RetireRemove
  BY <1>23 DEF RetireRemove, driver, http
<1>24. CASE RetireDone
  BY <1>24 DEF RetireDone, driver, http, engine, step
<1>25. CASE Deliver
  BY <1>25 DEF Deliver, Resolve, http, engine
<1>26. CASE Delivered
  BY <1>26 DEF Delivered, driver, http, engine, step
<1>27. CASE ModelRaises
  BY <1>27 DEF ModelRaises, StepRaises, FailAll, Resolve, http
<1>28. CASE AssertionRaises
  BY <1>28 DEF AssertionRaises, StepRaises, FailAll, Resolve, http
<1>28a. CASE PopRaises
  <2>1. /\ loop \in {"admit_head", "admit_pop"} /\ loop' = "drain"
        /\ \A d \in Clients : queue[d] # "waiting"
        /\ todo' = {} /\ current' = {} /\ outputs' = {} /\ pending' = {}
        /\ UNCHANGED <<submissions, found, state, queue, kv, holds>>
    BY <1>28a DEF PopRaises, StepRaises, FailAll, In, http
  <2>2. loop = "admit_pop" => \A d \in current : d \in Found
    BY <2>1
  <2> QED  BY <2>1, <2>2
<1>29. CASE RemoveRaises
  BY <1>29 DEF RemoveRaises, StepRaises, FailAll, Resolve, http
<1>30. CASE Stop
  BY <1>30 DEF Stop, http, engine, step
<1> QED
  BY <1>1, <1>2, <1>3, <1>4, <1>5, <1>6, <1>7, <1>8, <1>9, <1>10, <1>11, <1>12, <1>13, <1>14,
     <1>15, <1>16, <1>16a, <1>16z, <1>16b, <1>16c, <1>16d, <1>16e, <1>16f, <1>16g, <1>17, <1>18, <1>19,
     <1>20, <1>21, <1>22, <1>23, <1>24, <1>25, <1>26, <1>27, <1>28, <1>28a, <1>29, <1>30
     DEF Next, HttpThread, EngineThread

LEMMA LoopStep ==
  ASSUME RunnerAssumption, RunnerInv, DrainedInv, Next
  PROVE  LoopInv'
<1> USE DEF RunnerInv, RunnerTypeOK, DrainedInv, LoopInv, Retiring, Admitting, Over
<1>1. ASSUME NEW c \in Clients, SubmitCheck(c) PROVE LoopInv'
  BY <1>1 DEF SubmitCheck, Goto, driver, engine, step
<1>2. ASSUME NEW c \in Clients, SubmitPut(c) PROVE LoopInv'
  BY <1>2, AppendFacts DEF SubmitPut, Goto, engine, step
<1>3. ASSUME NEW c \in Clients, WaitReturns(c) PROVE LoopInv'
  BY <1>3 DEF WaitReturns, Goto, driver, engine, step
<1>4. ASSUME NEW c \in Clients, WaitExpires(c) PROVE LoopInv'
  BY <1>4 DEF WaitExpires, Goto, driver, engine, step
<1>5. ASSUME NEW c \in Clients, ReadRequestId(c) PROVE LoopInv'
  BY <1>5 DEF ReadRequestId, Goto, driver, engine, step
<1>6. ASSUME NEW c \in Clients, AbortCheck(c) PROVE LoopInv'
  BY <1>6 DEF AbortCheck, Goto, driver, engine, step
<1>7. ASSUME NEW c \in Clients, AbortScan(c) PROVE LoopInv'
  BY <1>7 DEF AbortScan, Goto, driver, engine, step
<1>8. ASSUME NEW c \in Clients, AbortRelease(c) PROVE LoopInv'
  BY <1>8 DEF AbortRelease, Goto, ReleaseKV, driver, step
<1>9. ASSUME NEW c \in Clients, AbortRemove(c) PROVE LoopInv'
  BY <1>9 DEF AbortRemove, Goto, driver, step
<1>10. ASSUME NEW c \in Clients, AbortFinish(c) PROVE LoopInv'
  BY <1>10 DEF AbortFinish, Goto, driver, step
<1>11. CASE DrainRefuse
  BY <1>11, TailFacts DEF DrainRefuse, Resolve, http, engine, step
<1>12. CASE DrainAdmit
  BY <1>12, TailFacts DEF DrainAdmit, driver, http, step
<1>13. CASE DrainName
  BY <1>13, TailFacts DEF DrainName, http, engine, step
<1>14. CASE DrainDone
  BY <1>14 DEF DrainDone, driver, http, engine, step
<1>15. CASE LoopIdle
  BY <1>15 DEF LoopIdle, Queued, In, driver, http, engine, step
<1>16. CASE ScheduleBegin
  BY <1>16 DEF ScheduleBegin, In, driver, http, engine
<1>16a. CASE ScheduleRunning
  BY <1>16a DEF ScheduleRunning, In, driver, http, engine
<1>16z. CASE AdmitLook
  BY <1>16z DEF AdmitLook, driver, http, engine, step
<1>16b. CASE AdmitHead
  BY <1>16b DEF AdmitHead, In, driver, http
<1>16c. CASE AdmitReady
  BY <1>16c DEF AdmitReady, driver, http, step
<1>16d. CASE AdmitPop
  BY <1>16d DEF AdmitPop, In, driver, http, step
<1>16e. CASE AdmitAppend
  BY <1>16e DEF AdmitAppend, driver, http, step
<1>16f. CASE AdmitChunk
  BY <1>16f DEF AdmitChunk, driver, http, engine
<1>16g. CASE ScheduleDone
  BY <1>16g DEF ScheduleDone, In, driver, http, engine, step
<1>17. CASE PrefillStart
  BY <1>17 DEF PrefillStart, driver, http, engine
<1>18. CASE PrefillEnd
  BY <1>18 DEF PrefillEnd, driver, http
<1>19. CASE DecodeStart
  BY <1>19 DEF DecodeStart, Decodable, driver, http, engine
<1>20. CASE DecodeEnd
  BY <1>20 DEF DecodeEnd, Finishing, In, driver, http
<1>21. CASE RetireRelease
  BY <1>21 DEF RetireRelease, ReleaseKV, driver, http
<1>22. CASE RetireCheck
  BY <1>22 DEF RetireCheck, driver, http, engine
<1>23. CASE RetireRemove
  BY <1>23 DEF RetireRemove, driver, http
<1>24. CASE RetireDone
  BY <1>24 DEF RetireDone, driver, http, engine, step
<1>25. CASE Deliver
  BY <1>25 DEF Deliver, Resolve, http, engine
<1>26. CASE Delivered
  BY <1>26 DEF Delivered, driver, http, engine, step
<1>27. CASE ModelRaises
  BY <1>27 DEF ModelRaises, StepRaises, FailAll, Resolve, http
<1>28. CASE AssertionRaises
  BY <1>28 DEF AssertionRaises, StepRaises, FailAll, Resolve, http
<1>28a. CASE PopRaises
  BY <1>28a DEF PopRaises, StepRaises, FailAll, Resolve, http
<1>29. CASE RemoveRaises
  BY <1>29 DEF RemoveRaises, StepRaises, FailAll, Resolve, http
<1>30. CASE Stop
  BY <1>30 DEF Stop, http, engine, step
<1> QED
  BY <1>1, <1>2, <1>3, <1>4, <1>5, <1>6, <1>7, <1>8, <1>9, <1>10, <1>11, <1>12, <1>13, <1>14,
     <1>15, <1>16, <1>16a, <1>16z, <1>16b, <1>16c, <1>16d, <1>16e, <1>16f, <1>16g, <1>17, <1>18, <1>19,
     <1>20, <1>21, <1>22, <1>23, <1>24, <1>25, <1>26, <1>27, <1>28, <1>28a, <1>29, <1>30
     DEF Next, HttpThread, EngineThread

LEMMA LostStep ==
  ASSUME RunnerAssumption, RunnerInv, DrainedInv, Next
  PROVE  LostInv'
<1> USE DEF RunnerInv, RunnerTypeOK, DrainedInv, ToldOnce, Admitted, PassesLeft, LostInv, LoopInv,
            Retiring, Admitting, Chunking, Lost, Over
<1>1. ASSUME NEW c \in Clients, SubmitCheck(c) PROVE LostInv'
  BY <1>1 DEF SubmitCheck, Goto, driver, engine, step
<1>2. ASSUME NEW c \in Clients, SubmitPut(c) PROVE LostInv'
  BY <1>2, AppendFacts DEF SubmitPut, Goto, engine, step
<1>3. ASSUME NEW c \in Clients, WaitReturns(c) PROVE LostInv'
  <2>1. /\ client[c] = "waiting" /\ client' = [client EXCEPT ![c] = result[c]]
        /\ result[c] \in {"none", "output", "error"}
        /\ UNCHANGED <<submissions, pending, named, found, loop, state, queue, current>>
    BY <1>3 DEF WaitReturns, Goto, driver, engine, step
  <2>2. found[c] = "none"
    BY <2>1
  <2>3. Lost' = Lost
    BY ONLY <2>1 DEF Lost
  <2> QED  BY <2>1, <2>2, <2>3
<1>4. ASSUME NEW c \in Clients, WaitExpires(c) PROVE LostInv'
  BY <1>4 DEF WaitExpires, Goto, driver, engine, step
<1>5. ASSUME NEW c \in Clients, ReadRequestId(c) PROVE LostInv'
  BY <1>5 DEF ReadRequestId, Goto, driver, engine, step
<1>6. ASSUME NEW c \in Clients, AbortCheck(c) PROVE LostInv'
  BY <1>6 DEF AbortCheck, Goto, driver, engine, step
<1>7. ASSUME NEW c \in Clients, AbortScan(c) PROVE LostInv'
  <2>1. /\ client[c] = "abort_scan" /\ found' = [found EXCEPT ![c] = queue[c]]
        /\ client' = [client EXCEPT ![c] = IF queue[c] = "none" THEN "abort_finish"
                                           ELSE "abort_release"]
        /\ UNCHANGED <<submissions, pending, named, loop, state, queue, current>>
    BY <1>7 DEF AbortScan, Goto, driver, engine, step
  <2>2. found[c] = "none" /\ c \in named
    BY <2>1
  <2>3. Lost' = Lost
    BY ONLY <2>1 DEF Lost
  <2>4. \A d \in Clients : found[d] = "waiting" => found'[d] = "waiting"
    BY <2>1, <2>2
  <2> QED  BY <2>1, <2>2, <2>3, <2>4
<1>8. ASSUME NEW c \in Clients, AbortRelease(c) PROVE LostInv'
  BY <1>8 DEF AbortRelease, Goto, ReleaseKV, driver, step
<1>9. ASSUME NEW c \in Clients, AbortRemove(c) PROVE LostInv'
  <2>1. CASE queue[c] = found[c]
    <3>1. /\ client[c] = "abort_remove" /\ client' = [client EXCEPT ![c] = "abort_finish"]
          /\ queue' = [queue EXCEPT ![c] = "none"]
          /\ UNCHANGED <<submissions, pending, named, found, loop, state, current>>
      BY <1>9, <2>1 DEF AbortRemove, Goto, driver, step
    <3>2. ASSUME NEW d \in Lost', d \notin Lost PROVE found[d] = "waiting"
      BY <2>1, <3>1, <3>2
    <3> QED  BY <2>1, <3>1, <3>2
  <2>2. CASE queue[c] # found[c]
    <3>1. /\ client[c] = "abort_remove" /\ client' = [client EXCEPT ![c] = "exception"]
          /\ UNCHANGED <<submissions, pending, named, found, loop, state, queue, current>>
      BY <1>9, <2>2 DEF AbortRemove, Goto, driver, step
    <3> QED  BY <3>1
  <2> QED  BY <2>1, <2>2
<1>10. ASSUME NEW c \in Clients, AbortFinish(c) PROVE LostInv'
  BY <1>10 DEF AbortFinish, Goto, driver, step
<1>11. CASE DrainRefuse
  BY <1>11, TailFacts DEF DrainRefuse, Resolve, http, engine, step
<1>12. CASE DrainAdmit
  <2>1. PICK h \in Clients : /\ h = Head(submissions) /\ h = submissions[1] /\ h \notin pending
                             /\ queue[h] = "none"
    BY <1>12, NextSubmission DEF DrainAdmit
  <2>2. /\ state' = [state EXCEPT ![h] = "waiting"]
        /\ queue' = [queue EXCEPT ![h] = "waiting"]
        /\ loop' = "name"
        /\ UNCHANGED <<submissions, pending, named, client, found>>
    BY <1>12, <2>1 DEF DrainAdmit, driver, http
  <2>3. Lost' = Lost
    BY <2>1, <2>2
  <2> QED  BY <2>1, <2>2, <2>3
<1>13. CASE DrainName
  <2>1. PICK h \in Clients : h = submissions[1] /\ h = Head(submissions)
    BY <1>13, TailFacts DEF DrainName
  <2>2. /\ loop = "name" /\ loop' = "drain" /\ pending' = pending \cup {h}
        /\ named' = named \cup {h}
        /\ UNCHANGED <<client, found, state, queue, current>>
    BY <1>13, <2>1 DEF DrainName, http, engine, step
  <2>3. ASSUME h \in Lost' PROVE FALSE
    BY <2>1, <2>2, <2>3
  <2>4. Lost' = Lost
    BY <2>2, <2>3
  <2> QED  BY <2>2, <2>4
<1>14. CASE DrainDone
  BY <1>14 DEF DrainDone, driver, http, engine, step
<1>15. CASE LoopIdle
  BY <1>15 DEF LoopIdle, Queued, In, driver, http, engine, step
<1>16. CASE ScheduleBegin
  BY <1>16 DEF ScheduleBegin, In, driver, http, engine
<1>16a. CASE ScheduleRunning
  BY <1>16a DEF ScheduleRunning, In, driver, http, engine
<1>16z. CASE AdmitLook
  BY <1>16z DEF AdmitLook, driver, http, engine, step
<1>16b. CASE AdmitHead
  BY <1>16b DEF AdmitHead, In, driver, http
<1>16c. CASE AdmitReady
  <2>1. /\ loop = "admit_ready" /\ loop' = "admit_pop"
        /\ state' = [c \in Clients |-> IF c \in current THEN "prefill" ELSE state[c]]
        /\ UNCHANGED <<submissions, pending, named, client, found, queue, current>>
    BY <1>16c DEF AdmitReady, driver, http, step
  <2>2. \A c \in Clients : state'[c] = "waiting" => state[c] = "waiting" /\ c \notin current
    BY <2>1
  <2>3. Lost' \subseteq Lost
    BY <2>1, <2>2
  <2>4. Lost' # {} => \E c \in Clients : found'[c] = "waiting"
    BY <2>1, <2>3
  <2> QED  BY <2>1, <2>2, <2>4
<1>16d. CASE AdmitPop
  BY <1>16d DEF AdmitPop, In, driver, http, step
<1>16e. CASE AdmitAppend
  BY <1>16e DEF AdmitAppend, driver, http, step
<1>16f. CASE AdmitChunk
  BY <1>16f DEF AdmitChunk, driver, http, engine
<1>16g. CASE ScheduleDone
  BY <1>16g DEF ScheduleDone, In, driver, http, engine, step
<1>17. CASE PrefillStart
  BY <1>17 DEF PrefillStart, driver, http, engine
<1>18. CASE PrefillEnd
  BY <1>18 DEF PrefillEnd, driver, http
<1>19. CASE DecodeStart
  BY <1>19 DEF DecodeStart, Decodable, driver, http, engine
<1>20. CASE DecodeEnd
  BY <1>20 DEF DecodeEnd, Finishing, In, driver, http
<1>21. CASE RetireRelease
  BY <1>21 DEF RetireRelease, ReleaseKV, driver, http
<1>22. CASE RetireCheck
  BY <1>22 DEF RetireCheck, driver, http, engine
<1>23. CASE RetireRemove
  <2>1. /\ loop = "retire_remove" /\ loop' = "retire" /\ \A c \in current : queue[c] = "running"
        /\ queue' = [c \in Clients |-> IF c \in current THEN "none" ELSE queue[c]]
        /\ UNCHANGED <<submissions, pending, named, client, found, state>>
    BY <1>23 DEF RetireRemove, In, driver, http
  <2>2. ASSUME NEW c \in Clients PROVE queue'[c] \in {queue[c], "none"}
    BY <2>1
  <2>3. Lost' = Lost
    BY <2>1
  <2> QED  BY <2>1, <2>2, <2>3
<1>24. CASE RetireDone
  BY <1>24 DEF RetireDone, driver, http, engine, step
<1>25. CASE Deliver
  BY <1>25 DEF Deliver, Resolve, http, engine
<1>26. CASE Delivered
  BY <1>26 DEF Delivered, driver, http, engine, step
<1>27. CASE ModelRaises
  BY <1>27 DEF ModelRaises, StepRaises, FailAll, Resolve, http
<1>28. CASE AssertionRaises
  BY <1>28 DEF AssertionRaises, StepRaises, FailAll, Resolve, http
<1>28a. CASE PopRaises
  BY <1>28a DEF PopRaises, StepRaises, FailAll, Resolve, http
<1>29. CASE RemoveRaises
  BY <1>29 DEF RemoveRaises, StepRaises, FailAll, Resolve, http
<1>30. CASE Stop
  BY <1>30 DEF Stop, http, engine, step
<1> QED
  BY <1>1, <1>2, <1>3, <1>4, <1>5, <1>6, <1>7, <1>8, <1>9, <1>10, <1>11, <1>12, <1>13, <1>14,
     <1>15, <1>16, <1>16a, <1>16z, <1>16b, <1>16c, <1>16d, <1>16e, <1>16f, <1>16g, <1>17, <1>18, <1>19,
     <1>20, <1>21, <1>22, <1>23, <1>24, <1>25, <1>26, <1>27, <1>28, <1>28a, <1>29, <1>30
     DEF Next, HttpThread, EngineThread

\* Whatever clients abort and whatever steps fail: when the engine thread has
\* exited no request is left in a queue, blocks only of requests that an abort
\* took from a queue, and _pending entries only of requests that were aborted or
\* lost to an abort from the waiting list.
THEOREM DrainedAtExitHolds == Spec => []DrainedAtExit
<1>1. Init => DrainedInv
  BY DEF Init, DrainedInv, UntouchedKept, Kept, LostInv, Lost, LoopInv, Retiring, Admitting, Chunking
<1>2. RunnerInv /\ CompleteInv /\ DrainedInv /\ [Next]_vars => DrainedInv'
  <2> SUFFICES ASSUME RunnerInv, CompleteInv, DrainedInv, [Next]_vars PROVE DrainedInv'
    OBVIOUS
  <2>1. CASE Next
    BY <2>1, RunnerAssumption, UntouchedStep, LostStep, LoopStep DEF DrainedInv
  <2>2. CASE UNCHANGED vars
    BY <2>2 DEF vars, driver, http, engine, step, DrainedInv, UntouchedKept, Kept, LostInv, Lost,
       LoopInv, Retiring, Found
  <2> QED  BY <2>1, <2>2
<1>3. RunnerInv /\ DrainedInv => DrainedAtExit
  <2> SUFFICES ASSUME RunnerInv, DrainedInv, loop = "exited" PROVE DrainedAtExit
    BY DEF DrainedAtExit
  <2> USE DEF DrainedInv, LoopInv, RunnerInv, RunnerTypeOK
  <2>1. Queued = {} /\ \A c \in Clients : queue[c] = "none"
    BY DEF Queued, In
  <2>2. ASSUME NEW c \in Clients, c \notin Found PROVE c \notin holds
    BY <2>1, <2>2 DEF UntouchedKept, Kept, Admitting
  <2>3. ASSUME NEW c \in pending, c \notin Found PROVE c \in Lost \/ state[c] = "aborted"
    BY <2>1, <2>3 DEF UntouchedKept, Kept, Lost
  <2> QED  BY <2>1, <2>2, <2>3 DEF DrainedAtExit, LostInv
<1> QED  BY <1>1, <1>2, <1>3, RunnerInvHolds, CompleteInvHolds, PTL DEF Spec

=============================================================================
