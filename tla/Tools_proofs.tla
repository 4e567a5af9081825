---------------------------- MODULE Tools_proofs ----------------------------
(***************************************************************************)
(* What the tools around the engine guarantee: the stack launcher for any  *)
(* services, signals and exceptions, the compiler detection and the build  *)
(* for any machines and any lost queries, and the regression tracker for   *)
(* any runs and any crashes.                                               *)
(***************************************************************************)
EXTENDS Stack, Toolchain, Regression, SequenceTheorems, FiniteSetTheorems, TLAPS,
        WellFoundedInduction

-----------------------------------------------------------------------------
(***************************************************************************)
(* The stack launcher (run_stack.py).                                      *)
(***************************************************************************)

IsSeq(s) == \E T : s \in Seq(T)

StackTypeOK ==
  /\ stage \in {"port", "next", "wait", "failed", "smoke", "watch", "stop", "ended"}
  /\ smoke \in BOOLEAN /\ handlers \in BOOLEAN /\ raised \in BOOLEAN
  /\ IsSeq(started) /\ IsSeq(stopping)
  /\ process \in [ToSet(Services) -> {"none", "running", "killed", "gone"}]

\* Until shutdown() begins, a running service is in `started`, or is the one
\* that is being waited for.
KnownRunning ==
  stage \notin {"stop", "ended"} =>
    /\ cuts = {}
    /\ \A s \in Left : s \in ToSet(started) \/ (stage = "wait" /\ s = Head(todo))

\* From then on it is still to be stopped, or was lost as it was started.
StoppingRest ==
  stage = "stop" => \A s \in Left : s \in ToSet(stopping) \/ LostInStart(s)

StackInv ==
  /\ StackTypeOK /\ KnownRunning /\ StoppingRest /\ LeavesNothing
  /\ stage = "watch" => handlers
  /\ stage = "port" => started = <<>>

-----------------------------------------------------------------------------
(* Sequences and the sets of their elements.                               *)

LEMMA Appended ==
  ASSUME NEW s, IsSeq(s), NEW e
  PROVE  IsSeq(Append(s, e)) /\ ToSet(Append(s, e)) = ToSet(s) \cup {e}
<1>1. PICK T : s \in Seq(T)
  BY DEF IsSeq
<1> DEFINE U == T \cup {e}
<1>2. s \in Seq(U) /\ e \in U
  BY <1>1, SeqMonotonic
<1> HIDE DEF U
<1>3. /\ Append(s, e) \in Seq(U) /\ Len(Append(s, e)) = Len(s) + 1
      /\ \A i \in 1 .. Len(s) : Append(s, e)[i] = s[i]
      /\ Append(s, e)[Len(s) + 1] = e
  BY <1>2, AppendProperties
<1>4. Len(s) \in Nat /\ DOMAIN s = 1 .. Len(s) /\ DOMAIN Append(s, e) = 1 .. Len(s) + 1
  BY <1>2, <1>3, LenProperties
<1>5. ASSUME NEW x \in ToSet(Append(s, e)) PROVE x \in ToSet(s) \cup {e}
  <2>1. PICK i \in 1 .. Len(s) + 1 : x = Append(s, e)[i]
    BY <1>4 DEF ToSet
  <2>2. i = Len(s) + 1 \/ i \in 1 .. Len(s)
    BY <1>4
  <2> QED BY <1>3, <1>4, <2>1, <2>2 DEF ToSet
<1>6. ASSUME NEW x \in ToSet(s) \cup {e} PROVE x \in ToSet(Append(s, e))
  <2>1. CASE x = e
    BY <1>3, <1>4, <2>1 DEF ToSet
  <2>2. CASE x \in ToSet(s)
    <3>1. PICK i \in 1 .. Len(s) : x = s[i]
      BY <1>4, <2>2 DEF ToSet
    <3> QED BY <1>3, <1>4, <3>1 DEF ToSet
  <2> QED BY <2>1, <2>2
<1> QED BY <1>3, <1>5, <1>6 DEF IsSeq

LEMMA Reversed ==
  ASSUME NEW s, IsSeq(s)
  PROVE  IsSeq(Reverse(s)) /\ ToSet(s) \subseteq ToSet(Reverse(s))
<1>1. PICK T : s \in Seq(T)
  BY DEF IsSeq
<1>2. Len(s) \in Nat /\ DOMAIN s = 1 .. Len(s) /\ \A i \in 1 .. Len(s) : s[i] \in T
  BY <1>1, LenProperties
<1>3. /\ DOMAIN Reverse(s) = 1 .. Len(s)
      /\ \A i \in 1 .. Len(s) : Len(s) - i + 1 \in 1 .. Len(s)
      /\ \A i \in 1 .. Len(s) : Reverse(s)[i] = s[Len(s) - i + 1]
  BY <1>2 DEF Reverse
<1>4. Reverse(s) \in Seq(T)
  <2>1. Reverse(s) \in [1 .. Len(s) -> T]
    BY <1>2, <1>3 DEF Reverse
  <2> QED BY <1>2, <2>1, SeqDef
<1>5. ASSUME NEW x \in ToSet(s) PROVE x \in ToSet(Reverse(s))
  <2>1. PICK i \in 1 .. Len(s) : x = s[i]
    BY <1>2 DEF ToSet
  <2>2. Len(s) - i + 1 \in 1 .. Len(s) /\ Len(s) - (Len(s) - i + 1) + 1 = i
    BY <1>2
  <2>3. Reverse(s)[Len(s) - i + 1] = x
    BY <1>3, <2>1, <2>2
  <2> QED BY <1>3, <2>2, <2>3 DEF ToSet
<1> QED BY <1>4, <1>5 DEF IsSeq

LEMMA Shortened ==
  ASSUME NEW s, IsSeq(s), s # <<>>
  PROVE  IsSeq(Tail(s)) /\ ToSet(s) \ {Head(s)} \subseteq ToSet(Tail(s))
<1>1. PICK T : s \in Seq(T)
  BY DEF IsSeq
<1>2. /\ Tail(s) \in Seq(T) /\ Len(Tail(s)) = Len(s) - 1 /\ Len(s) \in Nat
      /\ DOMAIN s = 1 .. Len(s) /\ DOMAIN Tail(s) = 1 .. Len(s) - 1
      /\ \A i \in 1 .. Len(s) - 1 : Tail(s)[i] = s[i + 1]
      /\ Head(s) = s[1]
  <2>1. Tail(s) \in Seq(T) /\ Len(Tail(s)) = Len(s) - 1
        /\ \A i \in 1 .. Len(Tail(s)) : Tail(s)[i] = s[i + 1]
    BY <1>1, HeadTailProperties
  <2>2. Head(s) = s[1]
    BY <1>1
  <2> QED BY <1>1, <2>1, <2>2, LenProperties
<1>3. ASSUME NEW x \in ToSet(s), x # Head(s) PROVE x \in ToSet(Tail(s))
  <2>1. PICK i \in 1 .. Len(s) : x = s[i]
    BY <1>2 DEF ToSet
  <2>2. i - 1 \in 1 .. Len(s) - 1 /\ (i - 1) + 1 = i
    BY <1>2, <1>3, <2>1
  <2> QED BY <1>2, <2>1, <2>2 DEF ToSet
<1> QED BY <1>2, <1>3 DEF IsSeq
-----------------------------------------------------------------------------
(* The steps.                                                              *)

\* A service that is stopped does not run, whether it heeded SIGTERM or not.
LEMMA StoppedIsNotRunning ==
  ASSUME StackTypeOK, NEW s, process' \in Stopped(s)
  PROVE  /\ process' \in [ToSet(Services) -> {"none", "running", "killed", "gone"}]
         /\ Left' \subseteq Left \ {s}
<1>1. PICK e \in {"gone", "killed"} :
        process' = [process EXCEPT ![s] = IF @ = "running" THEN e ELSE @]
  BY DEF Stopped
<1> QED BY <1>1 DEF StackTypeOK, Left

LEMMA StackInvInit == StackInit => StackInv
<1> SUFFICES ASSUME StackInit PROVE StackInv
  OBVIOUS
<1>1. IsSeq(<<>>)
  BY EmptySeq DEF IsSeq
<1>2. Left = {}
  BY DEF StackInit, Left
<1> QED BY <1>1, <1>2
        DEF StackInit, StackInv, StackTypeOK, KnownRunning, StoppingRest, LeavesNothing

\* What shutdown() has before it when it begins.
LEMMA ShutdownInv ==
  ASSUME StackInv, stage \notin {"stop", "ended"}, Shutdown, cuts \subseteq cuts',
         stage = "wait" => raised' \/ <<"INT", "wait">> \in cuts',
         raised' \in BOOLEAN, UNCHANGED <<smoke, todo, started, handlers, process>>
  PROVE  StackInv'
<1> USE DEF StackInv, Shutdown
<1>1. StackTypeOK'
  BY Reversed DEF StackTypeOK
<1>2. StoppingRest'
  <2> SUFFICES ASSUME NEW s \in Left' PROVE (s \in ToSet(stopping) \/ LostInStart(s))'
    BY DEF StoppingRest
  <2>1. s \in Left
    BY DEF Left
  <2>2. CASE s \in ToSet(started)
    BY <2>2, Reversed DEF StackTypeOK
  <2>3. CASE stage = "wait" /\ s = Head(todo)
    BY <2>3 DEF LostInStart
  <2> QED BY <2>1, <2>2, <2>3 DEF KnownRunning
<1> QED BY <1>1, <1>2 DEF KnownRunning, LeavesNothing

LEMMA CutInv ==
  ASSUME StackInv, NEW signal \in {"INT", "TERM"}, CutBy(signal)
  PROVE  StackInv'
<1>1. CASE signal = "TERM" \/ stage = "stop"
  <2>1. /\ stage' = "ended" /\ cuts' = cuts \cup {<<signal, stage>>}
        /\ UNCHANGED <<smoke, todo, started, stopping, handlers, process, raised>>
    BY <1>1 DEF CutBy
  <2>2. stage \in {"next", "wait", "failed", "smoke", "stop"}
    BY DEF CutBy, StackInv, StackTypeOK
  <2>3. LeavesNothing'
    <3> SUFFICES ASSUME NEW s \in Left'
                 PROVE  (\/ LostInStart(s) \/ LostToTerm
                         \/ <<"INT", "stop">> \in cuts /\ s \in ToSet(stopping))'
      BY <2>1 DEF LeavesNothing
    <3>1. CASE signal = "TERM"
      BY <2>1, <2>2, <3>1 DEF LostToTerm
    <3>2. CASE signal = "INT" /\ stage = "stop"
      <4>1. s \in ToSet(stopping) \/ LostInStart(s)
        BY <2>1, <3>2 DEF StackInv, StoppingRest, Left
      <4> QED BY <2>1, <3>2, <4>1 DEF LostInStart
    <3> QED BY <1>1, <3>1, <3>2
  <2> QED BY <2>1, <2>3 DEF StackInv, StackTypeOK, KnownRunning, StoppingRest
<1>2. CASE ~(signal = "TERM" \/ stage = "stop")
  BY <1>2, ShutdownInv DEF CutBy, StackInv, StackTypeOK
<1> QED BY <1>1, <1>2

LEMMA StackInvNext == StackInv /\ [StackNext]_stackVars => StackInv'
<1> SUFFICES ASSUME StackInv, [StackNext]_stackVars PROVE StackInv'
  OBVIOUS
<1> USE DEF StackInv
<1>1. CASE CheckPort
  <2>1. Left' = {} /\ Left = {}
    <3>1. ToSet(started) = {}
      BY <1>1 DEF CheckPort, ToSet
    <3>2. Left = {}
      BY <1>1, <3>1 DEF CheckPort, KnownRunning
    <3> QED BY <1>1, <3>2 DEF CheckPort, Left
  <2> QED BY <1>1, <2>1
          DEF CheckPort, StackTypeOK, KnownRunning, StoppingRest, LeavesNothing, Left
<1>2. CASE Popen
  BY <1>2 DEF Popen, StackTypeOK, KnownRunning, StoppingRest, LeavesNothing, Left
<1>3. CASE HealthAnswered
  <2>1. IsSeq(started') /\ ToSet(started') = ToSet(started) \cup {Head(todo)}
    BY <1>3, Appended DEF HealthAnswered, StackTypeOK
  <2> QED BY <1>3, <2>1
          DEF HealthAnswered, StackTypeOK, KnownRunning, StoppingRest, LeavesNothing, Left
<1>4. CASE HealthFailed
  <2>1. /\ process' \in [ToSet(Services) -> {"none", "running", "killed", "gone"}]
        /\ Left' \subseteq Left \ {Head(todo)}
    BY <1>4, StoppedIsNotRunning DEF HealthFailed
  <2> QED BY <1>4, <2>1
          DEF HealthFailed, StackTypeOK, KnownRunning, StoppingRest, LeavesNothing
<1>5. CASE StartFailed
  <2>1. CASE Head(todo) = Mandatory
    BY <1>5, <2>1, ShutdownInv DEF StartFailed, StackTypeOK
  <2>2. CASE Head(todo) # Mandatory
    BY <1>5, <2>2
       DEF StartFailed, StackTypeOK, KnownRunning, StoppingRest, LeavesNothing, Left
  <2> QED BY <2>1, <2>2
<1>6. CASE StackUp
  BY <1>6 DEF StackUp, StackTypeOK, KnownRunning, StoppingRest, LeavesNothing, Left
<1>7. CASE StackDone
  BY <1>7, ShutdownInv DEF StackDone, StackTypeOK
<1>8. CASE StopNext
  <2>1. /\ process' \in [ToSet(Services) -> {"none", "running", "killed", "gone"}]
        /\ Left' \subseteq Left \ {Head(stopping)}
    BY <1>8, StoppedIsNotRunning DEF StopNext
  <2>2. IsSeq(stopping') /\ ToSet(stopping) \ {Head(stopping)} \subseteq ToSet(stopping')
    BY <1>8, Shortened DEF StopNext, StackTypeOK
  <2>3. StoppingRest'
    BY <1>8, <2>1, <2>2 DEF StopNext, StoppingRest, LostInStart
  <2> QED BY <1>8, <2>1, <2>2, <2>3 DEF StopNext, StackTypeOK, KnownRunning, LeavesNothing
<1>9. CASE StackEnds
  <2>1. ToSet(stopping) = {}
    BY <1>9 DEF StackEnds, ToSet
  <2>2. LeavesNothing'
    BY <1>9, <2>1 DEF StackEnds, StoppingRest, LostInStart, LeavesNothing, Left
  <2> QED BY <1>9, <2>2 DEF StackEnds, StackTypeOK, KnownRunning, StoppingRest
<1>10. ASSUME NEW signal \in {"INT", "TERM"}, CutBy(signal) PROVE StackInv'
  BY <1>10, CutInv
<1>11. ASSUME NEW s \in ToSet(Services), ServiceExits(s) PROVE StackInv'
  <2>1. /\ process' \in [ToSet(Services) -> {"none", "running", "killed", "gone"}]
        /\ \A q \in ToSet(Services) : process'[q] = "running" => process[q] = "running"
        /\ Left' \subseteq Left
    BY <1>11 DEF ServiceExits, StackTypeOK, Left
  <2>2. LeavesNothing'
    BY <1>11, <2>1 DEF ServiceExits, LeavesNothing, LostInStart, LostToTerm
  <2>3. StoppingRest'
    BY <1>11, <2>1 DEF ServiceExits, StoppingRest, LostInStart
  <2>4. KnownRunning'
    BY <1>11, <2>1 DEF ServiceExits, KnownRunning
  <2> QED BY <1>11, <2>1, <2>2, <2>3, <2>4 DEF ServiceExits, StackTypeOK
<1>12. CASE UNCHANGED stackVars
  BY <1>12
     DEF stackVars, StackTypeOK, KnownRunning, StoppingRest, LostInStart, LostToTerm,
         LeavesNothing, Left
<1>13. CASE LogFails
  BY <1>13, ShutdownInv DEF LogFails, StackTypeOK
<1>14. CASE HealthRaises
  BY <1>14, ShutdownInv DEF HealthRaises
<1> QED BY <1>1, <1>2, <1>3, <1>4, <1>5, <1>6, <1>7, <1>8, <1>9, <1>10, <1>11, <1>12,
           <1>13, <1>14
        DEF StackNext

\* For any services, signals and exceptions: what the launcher leaves running was
\* lost to a signal no handler catches or to an exception out of start(); that is
\* no more than the service being started, after Ctrl+C also those shutdown()
\* had not reached, and any after SIGTERM.
THEOREM LeavesNothingHolds == StackSpec => []LeavesNothing
<1>1. StackInv => LeavesNothing
  BY DEF StackInv
<1> QED BY <1>1, StackInvInit, StackInvNext, PTL DEF StackSpec

-----------------------------------------------------------------------------
(***************************************************************************)
(* The verification script and the build (verify.py, kernels/build.py).    *)
(***************************************************************************)

Compilers == {"vcvars", "prompt", "unix", "none", "raised"}
First == {"detect", "environment", "discover"}  \* nothing is detected before these
Later == {"build", "imports", "clients"}        \* something was

Process == [program : {"none", "verify", "verify --fast", "kernels", "build"},
            stage : First \cup Later \cup {"over", "traceback"}]
Artifacts == {"none", "good", "wrong", "unknown"}
Results == {"none", "ok", "skipped", "failed"}

ToolTypeOK ==
  /\ machine \in MachineType /\ proc \in Process
  /\ env \in {"unset", "set", "error"} /\ lost \in Nat
  /\ detected \in Seq(Compilers)
BuildTypeOK == disk \in [Targets -> Artifacts] /\ built \in [Targets -> Results]

\* Whatever is cached has been cached by the first detection.
CachedFirst ==
  /\ proc.stage \in First => env = "unset" /\ detected = <<>>
  /\ proc.stage \in Later /\ machine.windows => env # "unset"

\* What the cached environment makes every further detection answer.
Verdict ==
  IF ~machine.windows THEN Elsewhere
  ELSE IF env = "set" THEN IF machine.onPath \/ machine.inInstall THEN "vcvars" ELSE Elsewhere
  ELSE IF env = "error" THEN Elsewhere
  ELSE "raised"

AllVerdict ==
  machine.onPath \/ lost = 0 => \A i \in DOMAIN detected : detected[i] = Verdict

ToolInv == ToolTypeOK /\ BuildTypeOK /\ CachedFirst /\ AllVerdict /\ OkIsLoadable

-----------------------------------------------------------------------------
(* Detection.                                                              *)

\* What one detection may answer and leave cached.
LEMMA Answers ==
  ASSUME NEW cc, NEW e, NEW l
  PROVE  Answer(cc, e, l).cc = cc /\ Answer(cc, e, l).env = e /\ Answer(cc, e, l).lost = l
  BY DEF Answer

LEMMA ElsewhereType == Elsewhere \in Compilers \ {"raised"}
  BY DEF Elsewhere, Compilers

LEMMA MoreLostType == lost \in Nat => \A l \in MoreLost : l \in Nat /\ l # 0
  BY DEF MoreLost

\* With a vcvars environment.
LEMMA WithEnvAnswers ==
  ASSUME lost \in Nat, NEW a \in WithEnv
  PROVE  /\ a.cc \in Compilers \ {"raised"} /\ a.env = "set" /\ a.lost \in Nat
         /\ a.lost = 0 => lost = 0
         /\ machine.onPath \/ a.lost = 0 =>
              a.cc = IF machine.onPath \/ machine.inInstall THEN "vcvars" ELSE Elsewhere
<1>1. CASE machine.onPath
  <2>1. a = Answer("vcvars", "set", lost)
    BY <1>1 DEF WithEnv
  <2> QED BY <1>1, <2>1, Answers DEF Compilers
<1>2. CASE ~machine.onPath
  <2>1. \/ a = Answer(IF machine.inInstall THEN "vcvars" ELSE Elsewhere, "set", lost)
        \/ \E l \in MoreLost : a = Answer(Elsewhere, "set", l)
    BY <1>2 DEF WithEnv
  <2>2. CASE a = Answer(IF machine.inInstall THEN "vcvars" ELSE Elsewhere, "set", lost)
    <3>1. /\ a.cc = IF machine.inInstall THEN "vcvars" ELSE Elsewhere
          /\ a.env = "set" /\ a.lost = lost
      BY <2>2, Answers
    <3> QED BY <1>2, <3>1, ElsewhereType DEF Compilers
  <2>3. ASSUME NEW l \in MoreLost, a = Answer(Elsewhere, "set", l)
        PROVE  a.cc = Elsewhere /\ a.env = "set" /\ a.lost \in Nat /\ a.lost # 0
    BY <2>3, Answers, MoreLostType
  <2> QED BY <1>2, <2>1, <2>2, <2>3, ElsewhereType
<1> QED BY <1>1, <1>2

LEMMA OneDetection ==
  ASSUME ToolTypeOK, NEW a \in Detections
  PROVE  /\ a.cc \in Compilers /\ a.env \in {"unset", "set", "error"}
         /\ a.lost \in Nat /\ (a.lost = 0 => lost = 0)
         /\ machine.windows /\ env # "unset" => a.env = env
         /\ machine.windows /\ a.cc # "raised" => a.env # "unset"
         /\ machine.onPath \/ a.lost = 0 =>
              a.cc = IF ~machine.windows THEN Elsewhere
                     ELSE IF a.env = "set"
                          THEN IF machine.onPath \/ machine.inInstall THEN "vcvars" ELSE Elsewhere
                     ELSE IF a.env = "error" THEN Elsewhere
                     ELSE "raised"
<1>0. lost \in Nat /\ env \in {"unset", "set", "error"}
  BY DEF ToolTypeOK
<1>1. ASSUME NEW e \in {env, "error"}, NEW l \in {lost} \cup MoreLost, a = Answer(Elsewhere, e, l)
      PROVE  /\ a.cc = Elsewhere /\ a.cc \in Compilers \ {"raised"} /\ a.env = e
             /\ a.lost \in Nat /\ (a.lost = 0 => lost = 0)
  BY <1>0, <1>1, Answers, ElsewhereType, MoreLostType
<1>2. CASE ~machine.windows
  <2>1. a = Answer(Elsewhere, env, lost)
    BY <1>2 DEF Detections
  <2> QED BY <1>0, <1>1, <1>2, <2>1
<1>3. CASE machine.windows /\ env = "unset"
  <2>1. a \in FirstTime
    BY <1>3 DEF Detections
  <2>2. CASE a \in WithEnv
    BY <1>0, <1>3, <2>2, WithEnvAnswers
  <2>3. CASE \E l \in {lost} \cup MoreLost : a = Answer(Elsewhere, "error", l)
    BY <1>1, <1>3, <2>3
  <2>4. CASE \E l \in MoreLost : a = Answer("raised", "unset", l)
    <3>1. a.cc = "raised" /\ a.env = "unset" /\ a.lost \in Nat /\ a.lost # 0
      BY <1>0, <2>4, Answers, MoreLostType
    <3> QED BY <1>3, <3>1 DEF Compilers
  <2> QED BY <2>1, <2>2, <2>3, <2>4 DEF FirstTime
<1>4. CASE machine.windows /\ env = "set"
  <2>1. a \in WithEnv
    BY <1>4 DEF Detections
  <2> QED BY <1>0, <1>4, <2>1, WithEnvAnswers
<1>5. CASE machine.windows /\ env = "error"
  <2>1. a = Answer(Elsewhere, "error", lost)
    BY <1>5 DEF Detections
  <2> QED BY <1>1, <1>5, <2>1
<1> QED BY <1>0, <1>2, <1>3, <1>4, <1>5

\* A stage that detects the compiler, once all earlier ones have agreed.
LEMMA DetectInv ==
  ASSUME ToolInv, NEW a \in Detections, Detect(a), proc.stage \in First \cup Later,
         UNCHANGED machine
  PROVE  /\ env' \in {"unset", "set", "error"} /\ lost' \in Nat /\ detected' \in Seq(Compilers)
         /\ AllVerdict'
         /\ machine.windows /\ a.cc # "raised" => env' # "unset"
         /\ machine.windows /\ env # "unset" => env' # "unset"
<1> USE DEF ToolInv
<1>1. env' = a.env /\ lost' = a.lost /\ detected' = Append(detected, a.cc)
  BY DEF Detect
<1>2. a.cc \in Compilers
  BY OneDetection
<1>3. /\ detected' \in Seq(Compilers) /\ Len(detected') = Len(detected) + 1
      /\ \A i \in 1 .. Len(detected) : detected'[i] = detected[i]
      /\ detected'[Len(detected) + 1] = a.cc
  <2>1. detected \in Seq(Compilers)
    BY DEF ToolTypeOK
  <2>2. detected' = Append(detected, a.cc)
    BY <1>1
  <2> QED BY <1>2, <2>1, <2>2, AppendProperties
<1>4. /\ Len(detected) \in Nat /\ DOMAIN detected = 1 .. Len(detected)
      /\ DOMAIN detected' = 1 .. Len(detected) + 1
  <2>1. detected \in Seq(Compilers)
    BY DEF ToolTypeOK
  <2> QED BY <1>3, <2>1, LenProperties
<1>5. AllVerdict'
  <2> SUFFICES ASSUME machine.onPath \/ lost' = 0, NEW i \in 1 .. Len(detected) + 1
               PROVE  detected'[i] = Verdict'
    BY <1>4 DEF AllVerdict
  <2>1. a.cc = Verdict'
    BY <1>1, OneDetection DEF Verdict, Elsewhere
  <2>2. CASE i = Len(detected) + 1
    BY <1>3, <2>1, <2>2
  <2>3. CASE i \in 1 .. Len(detected)
    <3>1. detected # <<>>
      BY <2>3
    <3>2. proc.stage \in Later
      BY <3>1 DEF CachedFirst
    <3>3. machine.windows => env # "unset"
      BY <3>2 DEF CachedFirst
    <3>4. machine.windows => a.env = env
      BY <3>3, OneDetection
    <3>5. Verdict' = Verdict
      BY <1>1, <3>4 DEF Verdict, Elsewhere
    <3>6. machine.onPath \/ lost = 0
      BY <1>1, OneDetection
    <3> QED BY <1>3, <1>4, <2>3, <3>5, <3>6 DEF AllVerdict
  <2> QED BY <1>4, <2>2, <2>3
<1> QED BY <1>1, <1>3, <1>5, OneDetection

-----------------------------------------------------------------------------
(* The invariant.                                                          *)

LEMMA ToolInvInit == ToolInit => ToolInv
<1> SUFFICES ASSUME ToolInit PROVE ToolInv
  OBVIOUS
<1>1. ToolTypeOK
  <2>1. machine \in MachineType /\ detected \in Seq(Compilers)
    BY ToolchainAssumption, EmptySeq DEF ToolInit
  <2> QED BY <2>1 DEF ToolInit, ToolTypeOK, Process, First, Later
<1>2. AllVerdict
  BY DEF ToolInit, AllVerdict
<1> QED BY <1>1, <1>2
        DEF ToolInit, ToolInv, BuildTypeOK, Artifacts, Results, CachedFirst, OkIsLoadable, First,
            Later

LEMMA StartProcessInv == ToolInv /\ StartProcess => ToolInv'
<1> SUFFICES ASSUME ToolInv, StartProcess PROVE ToolInv'
  OBVIOUS
<1>1. /\ env' = "unset" /\ detected' = <<>> /\ built' = [t \in Targets |-> "none"]
      /\ UNCHANGED <<machine, lost>>
  BY DEF StartProcess
<1>2. proc' \in Process /\ proc'.stage \in First
  <2>1. PICK p \in {"verify", "verify --fast", "kernels", "build"}, s \in First :
          proc' = [program |-> p, stage |-> s]
    BY DEF StartProcess, First
  <2>2. p \in {"none", "verify", "verify --fast", "kernels", "build"}
        /\ s \in First \cup Later \cup {"over", "traceback"}
    OBVIOUS
  <2> QED BY <2>1, <2>2 DEF Process
<1>3. \/ disk' = [t \in Targets |-> "none"]
      \/ UNCHANGED <<disk, interrupted>>
  BY DEF StartProcess
<1>4. ToolTypeOK'
  <2>1. detected' \in Seq(Compilers)
    BY <1>1, EmptySeq
  <2> QED BY <1>1, <1>2, <2>1 DEF ToolInv, ToolTypeOK
<1>5. AllVerdict'
  BY <1>1 DEF AllVerdict
<1>6. OkIsLoadable' /\ BuildTypeOK'
  BY <1>1, <1>3 DEF ToolInv, BuildTypeOK, OkIsLoadable, Artifacts, Results
<1>7. CachedFirst'
  BY <1>1, <1>2 DEF CachedFirst, First, Later
<1> QED BY <1>4, <1>5, <1>6, <1>7 DEF ToolInv

\* Steps that detect nothing and build nothing.
LEMMA QuietStep ==
  ASSUME ToolInv, UNCHANGED <<machine, env, lost, detected, disk, interrupted, built>>,
         proc' \in Process,
         proc'.stage \in First => proc'.stage = proc.stage,
         proc'.stage \in Later => proc.stage \in Later
  PROVE  ToolInv'
<1> USE DEF ToolInv
<1>1. AllVerdict'
  BY DEF AllVerdict, Verdict, Elsewhere
<1>2. ToolTypeOK' /\ BuildTypeOK' /\ OkIsLoadable'
  BY DEF ToolTypeOK, BuildTypeOK, OkIsLoadable
<1> QED BY <1>1, <1>2 DEF CachedFirst

\* Steps that detect and go on to a later stage, or stop.
LEMMA DetectingStep ==
  ASSUME ToolInv, NEW a \in Detections, Detect(a), proc.stage \in First \cup Later,
         NEW next \in Later \cup {"over", "traceback"}, Stage(next),
         a.cc = "raised" => next = "traceback",
         UNCHANGED <<machine, disk, interrupted, built>>
  PROVE  ToolInv'
<1> USE DEF ToolInv
<1>1. proc' \in Process /\ proc'.stage = next
  BY DEF Stage, ToolTypeOK, Process
<1>2. ToolTypeOK' /\ AllVerdict'
  BY <1>1, DetectInv DEF ToolTypeOK
<1>3. next \in Later /\ machine.windows => env' # "unset"
  <2>1. next \in Later => a.cc # "raised"
    BY DEF Later
  <2> QED BY <2>1, DetectInv
<1>4. BuildTypeOK' /\ OkIsLoadable'
  BY DEF BuildTypeOK, OkIsLoadable
<1> QED BY <1>1, <1>2, <1>3, <1>4 DEF CachedFirst, First, Later

\* One target's result and artifact.
LEMMA OutcomeInv ==
  ASSUME BuildTypeOK, OkIsLoadable, NEW t, NEW result, NEW artifact,
         Outcome(t, result, artifact),
         t \in Targets =>
           /\ result \in Results /\ artifact \in Artifacts
           /\ result = "ok" => artifact \in {"good", "unknown"}
           /\ artifact = "wrong" => t \in interrupted',
         interrupted \ {t} \subseteq interrupted'
  PROVE  BuildTypeOK' /\ OkIsLoadable'
  BY DEF BuildTypeOK, OkIsLoadable, Outcome

LEMMA BuildTargetInv == ToolInv /\ BuildTarget => ToolInv'
<1> SUFFICES ASSUME ToolInv, BuildTarget PROVE ToolInv'
  OBVIOUS
<1> USE DEF ToolInv
<1> DEFINE t == Head(targets)
<1>1. proc.stage = "build" /\ UNCHANGED <<machine, proc>>
  BY DEF BuildTarget
<1>2. t \in Targets => disk[t] \in Artifacts /\ (disk[t] = "wrong" => t \in interrupted)
  BY DEF BuildTypeOK, OkIsLoadable
<1>3. CASE t \in {"pybind11", "nanobind"} \ machine.pip
  <2>1. Outcome(t, "skipped", disk[t]) /\ UNCHANGED <<env, lost, detected, interrupted>>
    BY <1>3 DEF BuildTarget
  <2>2. BuildTypeOK' /\ OkIsLoadable'
    BY <1>2, <2>1, OutcomeInv DEF Results
  <2>3. ToolTypeOK' /\ CachedFirst' /\ AllVerdict'
    BY <1>1, <2>1 DEF ToolTypeOK, CachedFirst, AllVerdict, Verdict, Elsewhere
  <2> QED BY <2>2, <2>3
<1>4. CASE t \notin {"pybind11", "nanobind"} \ machine.pip
  <2>1. PICK a \in Detections :
          /\ Detect(a)
          /\ IF a.cc \in {"none", "raised"}
             THEN /\ Outcome(t, IF a.cc = "none" THEN "skipped" ELSE "failed", disk[t])
                  /\ UNCHANGED interrupted
             ELSE \E run \in CompilerRuns(t) :
                    LET v == Verified(run[2]) IN
                    /\ CASE run[1] = "success" -> Outcome(t, v[1], v[2])
                         [] run[1] = "error" -> Outcome(t, "skipped", run[2])
                         [] run[1] = "killed" -> Outcome(t, "failed", run[2])
                    /\ interrupted' = IF run[1] = "killed" THEN interrupted \cup {t}
                                      ELSE IF run[1] = "success" THEN interrupted \ {t}
                                      ELSE interrupted
    BY <1>4 DEF BuildTarget
  <2>2. BuildTypeOK' /\ OkIsLoadable'
    <3>1. CASE a.cc \in {"none", "raised"}
      <4>1. PICK result \in {"skipped", "failed"} : Outcome(t, result, disk[t])
        BY <2>1, <3>1
      <4> QED BY <1>2, <2>1, <3>1, <4>1, OutcomeInv DEF Results
    <3>2. CASE a.cc \notin {"none", "raised"}
      <4>1. PICK run \in CompilerRuns(t) :
              LET v == Verified(run[2]) IN
              /\ CASE run[1] = "success" -> Outcome(t, v[1], v[2])
                   [] run[1] = "error" -> Outcome(t, "skipped", run[2])
                   [] run[1] = "killed" -> Outcome(t, "failed", run[2])
              /\ interrupted' = IF run[1] = "killed" THEN interrupted \cup {t}
                                ELSE IF run[1] = "success" THEN interrupted \ {t}
                                ELSE interrupted
        BY <2>1, <3>2
      <4>2. CASE run[1] = "success"
        <5>1. PICK v : v = Verified(run[2]) /\ Outcome(t, v[1], v[2])
          BY <4>1, <4>2
        <5>2. t \in Targets => run[2] \in Artifacts
          BY <1>2, <4>1 DEF CompilerRuns, Artifacts
        <5>3. /\ v[1] \in Results /\ (t \in Targets => v[2] \in Artifacts)
              /\ v[1] = "ok" => v[2] = run[2] /\ run[2] \notin {"none", "wrong"}
              /\ v[2] # "wrong"
          BY <5>1, <5>2 DEF Verified, Results, Artifacts
        <5>4. interrupted' = interrupted \ {t}
          BY <4>1, <4>2
        <5> QED BY <5>1, <5>2, <5>3, <5>4, OutcomeInv DEF Artifacts
      <4>3. CASE run[1] = "error"
        <5>1. Outcome(t, "skipped", run[2]) /\ interrupted' = interrupted
          BY <4>1, <4>3
        <5>2. run[2] = disk[t]
          BY <4>1, <4>3 DEF CompilerRuns
        <5> QED BY <1>2, <5>1, <5>2, OutcomeInv DEF Results
      <4>4. CASE run[1] = "killed"
        <5>1. Outcome(t, "failed", run[2]) /\ interrupted' = interrupted \cup {t}
          BY <4>1, <4>4
        <5>2. t \in Targets => run[2] \in Artifacts
          BY <1>2, <4>1 DEF CompilerRuns, Artifacts
        <5> QED BY <5>1, <5>2, OutcomeInv DEF Results
      <4> QED BY <4>1, <4>2, <4>3, <4>4 DEF CompilerRuns
    <3> QED BY <3>1, <3>2
  <2>3. ToolTypeOK' /\ AllVerdict'
    BY <1>1, <2>1, DetectInv DEF ToolTypeOK, Later
  <2>4. CachedFirst'
    BY <1>1, <2>1, DetectInv DEF CachedFirst, First, Later
  <2> QED BY <2>2, <2>3, <2>4
<1> QED BY <1>3, <1>4

LEMMA ToolInvNext == ToolInv /\ [ToolNext]_toolVars => ToolInv'
<1> SUFFICES ASSUME ToolInv, [ToolNext]_toolVars PROVE ToolInv'
  OBVIOUS
<1>0. proc \in Process
  BY DEF ToolInv, ToolTypeOK
<1>1. CASE BuildMain
  BY <1>1, DetectingStep DEF BuildMain, At, First, Later
<1>2. CASE BuildTarget
  BY <1>2, BuildTargetInv
<1>3. CASE BuildDone
  <2>1. proc' \in Process /\ proc'.stage \in {"over", "imports"} /\ proc.stage = "build"
    BY <1>0, <1>3 DEF BuildDone, Stage, Process, Later
  <2> QED BY <1>3, <2>1, QuietStep DEF BuildDone, First, Later
<1>4. CASE Discover
  <2>1. proc' \in Process /\ proc'.stage = "over"
    BY <1>0, <1>4 DEF Discover, Stage, Process
  <2> QED BY <1>4, <2>1, QuietStep DEF Discover, First, Later
<1>5. CASE Environment
  BY <1>5, DetectingStep DEF Environment, First, Later
<1>6. CASE ImportsToHttp
  <2>1. /\ proc' \in Process /\ proc'.stage \in {"clients", "over", "traceback"}
        /\ proc.stage = "imports"
    BY <1>0, <1>6 DEF ImportsToHttp, Stage, Process, Later
  <2> QED BY <1>6, <2>1, QuietStep DEF ImportsToHttp, First, Later
<1>7. CASE Clients
  BY <1>7, DetectingStep DEF Clients, First, Later
<1>8. CASE StartProcess
  BY <1>8, StartProcessInv
<1>9. CASE UNCHANGED toolVars
  BY <1>0, <1>9, QuietStep DEF toolVars
<1> QED BY <1>1, <1>2, <1>3, <1>4, <1>5, <1>6, <1>7, <1>8, <1>9 DEF ToolNext

LEMMA ToolInvHolds == ToolSpec => []ToolInv
  BY ToolInvInit, ToolInvNext, PTL DEF ToolSpec

\* On every machine all detections of a process answer the same, unless cl.exe
\* is not on the PATH that vcvars sets and a query is lost.
THEOREM StagesAgreeHolds == ToolSpec => []StagesAgree
<1>1. ToolInv => StagesAgree
  BY DEF ToolInv, AllVerdict, StagesAgree
<1> QED BY <1>1, ToolInvHolds, PTL

\* However processes, failures and killed compilers follow each other, a build
\* that says "ok" leaves an artifact that is not known to be unloadable.
THEOREM OkIsLoadableHolds == ToolSpec => []OkIsLoadable
<1>1. ToolInv => OkIsLoadable
  BY DEF ToolInv
<1> QED BY <1>1, ToolInvHolds, PTL

-----------------------------------------------------------------------------
(***************************************************************************)
(* The regression tracker (bench/regression.py).                           *)
(***************************************************************************)

\* The k-th of the indices in I, and what load() would find in a file.
UpTo(I, i) == {j \in I : j <= i}
Nth(I, k) == CHOOSE i \in {i \in I : Cardinality(UpTo(I, i)) = k} : TRUE
Good(file) == {i \in DOMAIN file : file[i] # Torn}
Parsed(file) == Picked(file, Good(file))

\* The lines before the one that a crash has left without its newline.
Settled == IF ended THEN lines ELSE Front(lines)

TrackInv ==
  /\ lines \in Seq(Records \cup {Torn}) /\ safe \in Seq(Records) /\ ended \in BOOLEAN
  /\ ~ended => lines # <<>>
  /\ Parsed(Settled) = safe

LEMMA LoadIsParsed == Load = Parsed(lines)
  BY DEF Load, Parsed, Good

LEMMA RecordIsNotTorn == Torn \notin Records
  BY RegressionAssumption DEF Records, Torn

\* Among finitely many indices each rank is taken once.
LEMMA Ranks ==
  ASSUME NEW I \in SUBSET Nat, IsFiniteSet(I)
  PROVE  /\ Cardinality(I) \in Nat
         /\ \A i, j \in I :
              Cardinality({n \in I : n <= i}) = Cardinality({n \in I : n <= j}) => i = j
         /\ \A k \in 1..Cardinality(I) : \E i \in I : Cardinality({n \in I : n <= i}) = k
         /\ \A i \in I : Cardinality({n \in I : n <= i}) \in 1..Cardinality(I)
<1> DEFINE Up(i) == {n \in I : n <= i}
           rank == [i \in I |-> Cardinality(Up(i))]
<1>1. \A i \in I : /\ IsFiniteSet(Up(i)) /\ Cardinality(Up(i)) \in Nat
                    /\ Cardinality(Up(i)) <= Cardinality(I) /\ Cardinality(Up(i)) # 0
  <2> SUFFICES ASSUME NEW i \in I
               PROVE  /\ IsFiniteSet(Up(i)) /\ Cardinality(Up(i)) \in Nat
                      /\ Cardinality(Up(i)) <= Cardinality(I) /\ Cardinality(Up(i)) # 0
    OBVIOUS
  <2>1. Up(i) \subseteq I /\ i \in Up(i)
    <3>1. i \in Nat /\ i <= i
      OBVIOUS
    <3> QED BY <3>1
  <2> HIDE DEF Up
  <2> QED BY <2>1, FS_Subset, FS_CardinalityType, FS_EmptySet
<1>2. Cardinality(I) \in Nat
  BY FS_CardinalityType
<1>3. \A i, j \in I : i < j => Cardinality(Up(i)) < Cardinality(Up(j))
  <2> SUFFICES ASSUME NEW i \in I, NEW j \in I, i < j
               PROVE  Cardinality(Up(i)) < Cardinality(Up(j))
    OBVIOUS
  <2>1. Up(i) \subseteq Up(j) /\ j \in Up(j) /\ j \notin Up(i)
    <3>1. i \in Nat /\ j \in Nat /\ \A n \in I : n \in Nat
      OBVIOUS
    <3>2. j <= j /\ ~(j <= i) /\ \A n \in I : n <= i => n <= j
      BY <3>1
    <3> QED BY <3>2
  <2>2. IsFiniteSet(Up(j)) /\ Cardinality(Up(i)) \in Nat /\ Cardinality(Up(j)) \in Nat
    BY <1>1
  <2> HIDE DEF Up
  <2>3. Cardinality(Up(i)) <= Cardinality(Up(j)) /\ Cardinality(Up(i)) # Cardinality(Up(j))
    BY <2>1, <2>2, FS_Subset
  <2> QED BY <2>2, <2>3
<1>4. rank \in Injection(I, 1..Cardinality(I))
  <2>1. \A i \in I : Cardinality(Up(i)) \in 1..Cardinality(I)
    <3> HIDE DEF Up
    <3> QED BY <1>1, <1>2
  <2>2. \A i, j \in I : Cardinality(Up(i)) = Cardinality(Up(j)) => i = j
    <3> SUFFICES ASSUME NEW i \in I, NEW j \in I, Cardinality(Up(i)) = Cardinality(Up(j)), i # j
                 PROVE  FALSE
      OBVIOUS
    <3>1. i < j \/ j < i
      OBVIOUS
    <3> HIDE DEF Up
    <3> QED BY <1>1, <1>3, <3>1
  <2> HIDE DEF Up
  <2> QED BY <2>1, <2>2 DEF Injection, IsInjective
<1>5. rank \in Surjection(I, 1..Cardinality(I))
  <2>1. IsFiniteSet(1..Cardinality(I)) /\ Cardinality(1..Cardinality(I)) = Cardinality(I)
    BY <1>2, FS_Interval
  <2> HIDE DEF rank
  <2> QED BY <1>4, <2>1, FS_Injection
<1>6. \A k \in 1..Cardinality(I) : \E i \in I : Cardinality(Up(i)) = k
  <2> HIDE DEF Up
  <2> QED BY <1>5 DEF Surjection
<1>7. \A i \in I : Cardinality(Up(i)) \in 1..Cardinality(I)
  <2> HIDE DEF Up
  <2> QED BY <1>1, <1>2
<1>8. \A i, j \in I : Cardinality(Up(i)) = Cardinality(Up(j)) => i = j
  <2> HIDE DEF Up
  <2> QED BY <1>4 DEF Injection, IsInjective
<1> QED BY <1>2, <1>6, <1>7, <1>8

\* The indices of a sequence, one by one.
LEMMA NthFacts ==
  ASSUME NEW n \in Nat, NEW I \in SUBSET (1..n)
  PROVE  /\ IsFiniteSet(I) /\ Cardinality(I) \in Nat /\ Cardinality(I) <= n
         /\ \A k \in 1..Cardinality(I) : Nth(I, k) \in I /\ Cardinality(UpTo(I, Nth(I, k))) = k
         /\ \A i \in I : /\ Cardinality(UpTo(I, i)) \in 1..Cardinality(I)
                         /\ Nth(I, Cardinality(UpTo(I, i))) = i
<1>1. IsFiniteSet(1..n) /\ Cardinality(1..n) = n
  BY FS_Interval
<1>2. IsFiniteSet(I) /\ Cardinality(I) <= n /\ I \in SUBSET Nat
  <2>1. IsFiniteSet(I) /\ Cardinality(I) <= n
    BY <1>1, FS_Subset
  <2> QED BY <2>1
<1>3. /\ Cardinality(I) \in Nat
      /\ \A i, j \in I : Cardinality(UpTo(I, i)) = Cardinality(UpTo(I, j)) => i = j
      /\ \A k \in 1..Cardinality(I) : \E i \in I : Cardinality(UpTo(I, i)) = k
      /\ \A i \in I : Cardinality(UpTo(I, i)) \in 1..Cardinality(I)
  BY <1>2, Ranks DEF UpTo
<1> DEFINE Of(k) == {i \in I : Cardinality(UpTo(I, i)) = k}
<1>4. \A k : Of(k) # {} => Nth(I, k) \in Of(k)
  BY DEF Nth
<1>5. ASSUME NEW k \in 1..Cardinality(I) PROVE Nth(I, k) \in I /\ Cardinality(UpTo(I, Nth(I, k))) = k
  <2>1. Of(k) # {}
    BY <1>3
  <2> QED BY <1>4, <2>1
<1>6. ASSUME NEW i \in I PROVE Nth(I, Cardinality(UpTo(I, i))) = i
  <2>1. Cardinality(UpTo(I, i)) \in 1..Cardinality(I)
    BY <1>3
  <2> QED BY <1>3, <1>5, <2>1
<1> QED BY <1>2, <1>3, <1>5, <1>6

\* What Picked is.
LEMMA PickedIs ==
  ASSUME NEW S, NEW q \in Seq(S), NEW I \in SUBSET DOMAIN q
  PROVE  /\ Picked(q, I) = [k \in 1..Cardinality(I) |-> q[Nth(I, k)]]
         /\ Picked(q, I) \in Seq(S) /\ Len(Picked(q, I)) = Cardinality(I)
<1>1. PICK n \in Nat : n = Len(q) /\ DOMAIN q = 1..n
  OBVIOUS
<1>2. /\ Cardinality(I) \in Nat
      /\ \A k \in 1..Cardinality(I) : Nth(I, k) \in I
  BY <1>1, NthFacts
<1>3. Picked(q, I) = [k \in 1..Cardinality(I) |-> q[Nth(I, k)]]
  <2> DEFINE c(k) == CHOOSE i \in I : Cardinality({j \in I : j <= i}) = k
  <2>1. \A k \in 1..Cardinality(I) : Nth(I, k) = c(k)
    BY DEF Nth, UpTo
  <2>2. Picked(q, I) = [k \in 1..Cardinality(I) |-> q[c(k)]]
    BY DEF Picked
  <2> HIDE DEF c
  <2> QED BY <2>1, <2>2
<1>4. \A k \in 1..Cardinality(I) : q[Nth(I, k)] \in S
  BY <1>1, <1>2
<1> QED BY <1>2, <1>3, <1>4

\* An index above the others changes the rank of none of them, and takes the next one.
LEMMA NextRank ==
  ASSUME NEW n \in Nat, NEW I \in SUBSET (1..n)
  PROVE  LET J == I \cup {n + 1} IN
         /\ IsFiniteSet(I) /\ Cardinality(I) \in Nat /\ Cardinality(J) = Cardinality(I) + 1
         /\ \A k \in 1..Cardinality(I) : Nth(J, k) = Nth(I, k) /\ Nth(I, k) \in I
         /\ Nth(J, Cardinality(I) + 1) = n + 1
<1> DEFINE J == I \cup {n + 1}
<1>1. IsFiniteSet(I)
  <2>1. IsFiniteSet(1..n)
    BY FS_Interval
  <2> QED BY <2>1, FS_Subset
<1>2. PICK c \in Nat : c = Cardinality(I)
  BY <1>1, FS_CardinalityType
<1>3. n + 1 \notin I /\ IsFiniteSet(J) /\ Cardinality(J) = c + 1
  <2>1. n + 1 \notin I
    OBVIOUS
  <2> QED BY <1>1, <1>2, <2>1, FS_AddElement
<1>4. ASSUME NEW i \in I PROVE UpTo(J, i) = UpTo(I, i) /\ Cardinality(UpTo(I, i)) # c + 1
  <2>1. ~(n + 1 <= i)
    OBVIOUS
  <2>2. UpTo(J, i) = UpTo(I, i) /\ UpTo(I, i) \subseteq I
    BY <2>1 DEF UpTo
  <2>3. IsFiniteSet(UpTo(I, i)) /\ Cardinality(UpTo(I, i)) <= c
    BY <1>1, <1>2, <2>2, FS_Subset
  <2>4. Cardinality(UpTo(I, i)) \in Nat
    BY <2>3, FS_CardinalityType
  <2>5. Cardinality(UpTo(I, i)) # c + 1
    BY <2>3, <2>4
  <2> QED BY <2>2, <2>5
<1>5. UpTo(J, n + 1) = J
  <2>1. \A j \in J : j <= n + 1
    OBVIOUS
  <2> QED BY <2>1 DEF UpTo
<1>6. ASSUME NEW k \in 1..c PROVE Nth(J, k) = Nth(I, k) /\ Nth(I, k) \in I
  <2>1. k # c + 1
    OBVIOUS
  <2>2. {i \in J : Cardinality(UpTo(J, i)) = k} = {i \in I : Cardinality(UpTo(I, i)) = k}
    <3> HIDE DEF UpTo
    <3> QED BY <1>3, <1>4, <1>5, <2>1
  <2>3. PICK i \in I : Cardinality(UpTo(I, i)) = k
    BY <1>2, NthFacts
  <2>4. Nth(J, k) = Nth(I, k)
    BY <2>2 DEF Nth
  <2>5. Nth(I, k) \in {j \in I : Cardinality(UpTo(I, j)) = k}
    BY <2>3 DEF Nth
  <2> QED BY <1>4, <2>3, <2>4, <2>5
<1>7. Nth(J, c + 1) = n + 1
  <2>1. {i \in J : Cardinality(UpTo(J, i)) = c + 1} = {n + 1}
    BY <1>3, <1>4, <1>5
  <2>2. Nth(J, c + 1) \in {n + 1}
    BY <2>1 DEF Nth
  <2> QED BY <2>2
<1> QED BY <1>1, <1>2, <1>3, <1>6, <1>7

\* What load() finds once a line has been appended.
LEMMA ParsedAppend ==
  ASSUME NEW S, NEW q \in Seq(S), NEW r \in S
  PROVE  Parsed(Append(q, r)) = IF r = Torn THEN Parsed(q) ELSE Append(Parsed(q), r)
<1> DEFINE a == Append(q, r)  I == Good(q)
<1>1. PICK n \in Nat : n = Len(q)
  OBVIOUS
<1>2. /\ a \in Seq(S) /\ Len(a) = n + 1 /\ DOMAIN a = 1..n + 1 /\ a[n + 1] = r
      /\ \A i \in 1..n : a[i] = q[i]
  BY <1>1
<1>3. Good(a) = IF r = Torn THEN I ELSE I \cup {n + 1}
  <2>1. 1..n + 1 = (1..n) \cup {n + 1} /\ DOMAIN q = 1..n
    BY <1>1
  <2> HIDE DEF a
  <2> QED BY <1>2, <2>1 DEF Good
<1>4. I \in SUBSET (1..n)
  BY <1>1 DEF Good
<1>8. /\ Parsed(q) = [k \in 1..Cardinality(I) |-> q[Nth(I, k)]] /\ Parsed(q) \in Seq(S)
      /\ Parsed(a) = [k \in 1..Cardinality(Good(a)) |-> a[Nth(Good(a), k)]]
  <2>1. I \in SUBSET DOMAIN q /\ Good(a) \in SUBSET DOMAIN a
    BY DEF Good
  <2> HIDE DEF I, a
  <2> QED BY <1>2, <2>1, PickedIs DEF Parsed, I
<1> HIDE DEF I, a
<1>5. \A k \in 1..Cardinality(I) : Nth(I, k) \in I
  BY <1>4, NthFacts
<1>6. CASE r = Torn
  <2>1. \A k \in 1..Cardinality(I) : a[Nth(I, k)] = q[Nth(I, k)]
    BY <1>2, <1>4, <1>5
  <2>2. Parsed(a) = [k \in 1..Cardinality(I) |-> a[Nth(I, k)]]
    BY <1>3, <1>6, <1>8
  <2>3. Parsed(a) = Parsed(q)
    BY <1>8, <2>1, <2>2
  <2> QED BY <1>6, <2>3 DEF a
<1>7. CASE r # Torn
  <2> DEFINE J == I \cup {n + 1}
  <2>1. /\ Cardinality(I) \in Nat /\ Cardinality(J) = Cardinality(I) + 1
        /\ \A k \in 1..Cardinality(I) : Nth(J, k) = Nth(I, k)
        /\ Nth(J, Cardinality(I) + 1) = n + 1
    BY <1>4, NextRank
  <2>2. PICK c \in Nat : c = Cardinality(I)
    BY <2>1
  <2>3. Good(a) = J
    BY <1>3, <1>7
  <2> HIDE DEF J
  <2>4. Parsed(a) = [k \in 1..c + 1 |-> a[Nth(J, k)]]
    BY <1>8, <2>1, <2>2, <2>3
  <2>5. Parsed(q) = [k \in 1..c |-> q[Nth(I, k)]]
    BY <1>8, <2>2
  <2>6. Len(Parsed(q)) = c
    BY <2>2, <2>5, <1>8
  <2>7. Append(Parsed(q), r) = [k \in 1..c + 1 |-> IF k = c + 1 THEN r ELSE Parsed(q)[k]]
    <3>1. ASSUME NEW p \in Seq(S), Len(p) = c
          PROVE  Append(p, r) = [k \in 1..c + 1 |-> IF k = c + 1 THEN r ELSE p[k]]
      <4> DEFINE f == [k \in 1..c + 1 |-> IF k = c + 1 THEN r ELSE p[k]]
      <4>1. /\ Append(p, r) \in Seq(S) /\ Len(Append(p, r)) = c + 1
            /\ \A i \in 1..c : Append(p, r)[i] = p[i]
            /\ Append(p, r)[c + 1] = r
        BY <3>1, AppendProperties
      <4>2. f \in Seq(S) /\ Len(f) = c + 1
        <5>1. \A k \in 1..c + 1 : (IF k = c + 1 THEN r ELSE p[k]) \in S
          <6> SUFFICES ASSUME NEW k \in 1..c + 1, k # c + 1 PROVE p[k] \in S
            OBVIOUS
          <6>1. k \in 1..Len(p)
            BY <3>1
          <6> QED BY <6>1, ElementOfSeq
        <5> QED BY <5>1
      <4>3. \A i \in 1..c + 1 : Append(p, r)[i] = f[i]
        BY <4>1
      <4> HIDE DEF f
      <4>4. Append(p, r) = f
        BY <4>1, <4>2, <4>3, SeqEqual
      <4> QED BY <4>4 DEF f
    <3> QED BY <1>8, <2>6, <3>1
  <2>8. ASSUME NEW k \in 1..c + 1 PROVE a[Nth(J, k)] = IF k = c + 1 THEN r ELSE Parsed(q)[k]
    <3>1. CASE k = c + 1
      BY <1>2, <2>1, <2>2, <3>1
    <3>2. CASE k # c + 1
      <4>1. k \in 1..c
        BY <3>2
      <4>2. Nth(J, k) = Nth(I, k) /\ Nth(I, k) \in 1..n
        BY <1>4, <1>5, <2>1, <2>2, <4>1
      <4> QED BY <1>2, <2>5, <3>2, <4>1, <4>2
    <3> QED BY <3>1, <3>2
  <2>9. Parsed(a) = Append(Parsed(q), r)
    BY <2>4, <2>7, <2>8
  <2> QED BY <1>7, <2>1, <2>3, <2>9 DEF a
<1> QED BY <1>6, <1>7

\* A file in which every line parses is loaded as it is.
LEMMA ParsedAll ==
  ASSUME NEW q \in Seq(Records)
  PROVE  Parsed(q) = q
<1>1. PICK n \in Nat : n = Len(q)
  OBVIOUS
<1>2. DOMAIN q = 1..n /\ \A i \in 1..n : q[i] \in Records
  BY <1>1
<1>3. Good(q) = 1..n
  BY <1>2, RecordIsNotTorn DEF Good
<1>4. Cardinality(1..n) = n
  BY FS_Interval
<1>5. ASSUME NEW i \in 1..n PROVE Cardinality(UpTo(1..n, i)) = i
  <2>1. UpTo(1..n, i) = 1..i
    BY DEF UpTo
  <2>2. Cardinality(1..i) = i
    BY FS_Interval
  <2> QED BY <2>1, <2>2
<1>6. ASSUME NEW k \in 1..n PROVE Nth(1..n, k) = k
  <2>1. {i \in 1..n : Cardinality(UpTo(1..n, i)) = k} = {k}
    BY <1>5
  <2>2. Nth(1..n, k) \in {k}
    BY <2>1 DEF Nth
  <2> QED BY <2>2
<1>7. Parsed(q) = [k \in 1..n |-> q[k]]
  <2>1. Parsed(q) = [k \in 1..Cardinality(1..n) |-> q[Nth(1..n, k)]]
    BY <1>2, <1>3, PickedIs DEF Parsed
  <2> QED BY <1>4, <1>6, <2>1
<1>8. q = [k \in 1..n |-> q[k]]
  BY <1>1
<1> QED BY <1>7, <1>8

\* A sequence and its last element.
LEMMA LastApart ==
  ASSUME NEW S, NEW q \in Seq(S), q # <<>>
  PROVE  Front(q) \in Seq(S) /\ Last(q) \in S /\ q = Append(Front(q), Last(q))
<1>1. PICK n \in Nat \ {0} : n = Len(q)
  OBVIOUS
<1>2. /\ SubSeq(q, 1, n - 1) = [i \in 1..n - 1 |-> q[i]]
      /\ Append(SubSeq(q, 1, n - 1), q[n]) = [i \in 1..n |-> IF i = n THEN q[n] ELSE q[i]]
  BY <1>1
<1>3. q = [i \in 1..n |-> q[i]] /\ \A i \in 1..n : q[i] \in S
  BY <1>1
<1>4. SubSeq(q, 1, n - 1) \in Seq(S)
  BY <1>1, <1>2, <1>3
<1> QED BY <1>1, <1>2, <1>3, <1>4 DEF Front, Last

LEMMA LastOfAppend ==
  ASSUME NEW S, NEW q \in Seq(S), NEW e \in S
  PROVE  Append(q, e) # <<>> /\ Front(Append(q, e)) = q /\ Last(Append(q, e)) = e
<1>1. PICK n \in Nat : n = Len(q)
  OBVIOUS
<1>2. /\ Append(q, e) \in Seq(S) /\ Len(Append(q, e)) = n + 1 /\ Append(q, e)[n + 1] = e
      /\ \A i \in 1..n : Append(q, e)[i] = q[i]
  BY <1>1
<1>3. SubSeq(Append(q, e), 1, n) = [i \in 1..n |-> Append(q, e)[i]] /\ q = [i \in 1..n |-> q[i]]
  BY <1>1, <1>2
<1>4. SubSeq(Append(q, e), 1, n) = q
  BY <1>2, <1>3
<1>5. Append(q, e) # <<>> /\ (n + 1) - 1 = n
  BY <1>2
<1> QED BY <1>2, <1>4, <1>5 DEF Front, Last

\* What load() finds in the file.
LEMMA LoadIsWhole ==
  ASSUME TrackInv
  PROVE  Load = Whole /\ Load \in Seq(Records)
<1> DEFINE S == Records \cup {Torn}
<1>1. /\ lines \in Seq(S) /\ safe \in Seq(Records) /\ ended \in BOOLEAN
      /\ ~ended => lines # <<>>
      /\ Parsed(IF ended THEN lines ELSE Front(lines)) = safe
  BY DEF TrackInv, Settled
<1>2. safe \o <<>> = safe
  BY <1>1, ConcatEmptySeq
<1>3. CASE ended
  BY <1>1, <1>2, <1>3, LoadIsParsed DEF Whole, Open
<1>4. CASE ~ended
  <2> HIDE DEF S
  <2>1. PICK q \in Seq(S), e \in S : lines = Append(q, e) /\ q = Front(lines) /\ e = Last(lines)
    BY <1>1, <1>4, LastApart
  <2>2. Parsed(Append(q, e)) = IF e = Torn THEN Parsed(q) ELSE Append(Parsed(q), e)
    BY ParsedAppend
  <2>3. Load = IF e = Torn THEN safe ELSE Append(safe, e)
    BY <1>1, <1>4, <2>1, <2>2, LoadIsParsed
  <2>4. CASE e = Torn
    BY <1>1, <1>2, <2>1, <2>3, <2>4 DEF Whole, Open
  <2>5. CASE e # Torn
    <3>1. e \in Records
      BY <2>5 DEF S
    <3>2. Append(safe, e) = safe \o <<e>> /\ Append(safe, e) \in Seq(Records)
      BY <1>1, <3>1, AppendIsConcat
    <3> QED BY <1>1, <1>4, <2>1, <2>3, <2>5, <3>2 DEF Whole, Open
  <2> QED BY <2>4, <2>5
<1> QED BY <1>1, <1>3, <1>4

\* What a write leaves in the file, and what load() will find before its last line.
LEMMA WrittenFacts ==
  ASSUME TrackInv, NEW r \in Records \cup {Torn}
  PROVE  /\ Written(r) \in Seq(Records \cup {Torn})
         /\ Written(r) # <<>>
         /\ Parsed(Front(Written(r))) = safe
         /\ Parsed(Written(r)) = IF ended /\ r # Torn THEN Append(safe, r) ELSE safe
<1> DEFINE S == Records \cup {Torn}
           e == IF ended THEN r ELSE Torn
<1>1. /\ lines \in Seq(S) /\ ended \in BOOLEAN /\ e \in S
      /\ ~ended => lines # <<>>
      /\ Parsed(Settled) = safe
  BY DEF TrackInv
<1> HIDE DEF S
<1>2. Settled \in Seq(S)
  BY <1>1, LastApart DEF Settled
<1>3. Written(r) = Append(Settled, e)
  BY DEF Written, Settled
<1>4. e = Torn <=> ~(ended /\ r # Torn)
  BY <1>1
<1>5. ended /\ r # Torn => e = r
  OBVIOUS
<1> HIDE DEF e
<1>6. Parsed(Append(Settled, e)) = IF e = Torn THEN safe ELSE Append(safe, e)
  BY <1>1, <1>2, ParsedAppend
<1>7. /\ Append(Settled, e) \in Seq(S) /\ Append(Settled, e) # <<>>
      /\ Front(Append(Settled, e)) = Settled
  BY <1>1, <1>2, LastOfAppend
<1> QED BY <1>1, <1>3, <1>4, <1>5, <1>6, <1>7 DEF S

\* What a rewrite leaves in the file.
LEMMA RewrittenFacts ==
  ASSUME TrackInv, Len(Load) > Keep
  PROVE  /\ LastKeep(Load) = LastKeep(Whole)
         /\ LastKeep(Load) \in Seq(Records) /\ Len(LastKeep(Load)) = Keep
<1>1. Load = Whole /\ Load \in Seq(Records)
  BY LoadIsWhole
<1>2. PICK q \in Seq(Records), n \in Nat, k \in Nat : q = Load /\ n = Len(q) /\ k = Keep /\ k < n
  <2>1. Keep \in Nat
    BY RegressionAssumption
  <2>2. Len(Load) \in Nat
    BY <1>1
  <2> QED BY <1>1, <2>1, <2>2
<1>3. n - k + 1 \in Int /\ n \in Int /\ \A i \in n - k + 1..n : q[i] \in Records
  <2>1. \A i \in n - k + 1..n : i \in 1..n
    BY <1>2
  <2> QED BY <1>2, <2>1
<1>4. SubSeq(q, n - k + 1, n) \in Seq(Records) /\ Len(SubSeq(q, n - k + 1, n)) = k
  <2>1. /\ SubSeq(q, n - k + 1, n) \in Seq(Records)
        /\ Len(SubSeq(q, n - k + 1, n)) = IF n - k + 1 <= n THEN n - (n - k + 1) + 1 ELSE 0
    BY <1>3, SubSeqProperties
  <2> QED BY <1>2, <2>1
<1> QED BY <1>1, <1>2, <1>4 DEF LastKeep

LEMMA TrackInvInit == TrackInit => TrackInv
<1> SUFFICES ASSUME TrackInit PROVE TrackInv
  OBVIOUS
<1>1. lines = <<>> /\ ended = TRUE /\ safe = <<>>
  BY DEF TrackInit
<1>2. <<>> \in Seq(Records) /\ <<>> \in Seq(Records \cup {Torn})
  OBVIOUS
<1>3. Parsed(<<>>) = <<>>
  BY <1>2, ParsedAll
<1> QED BY <1>1, <1>2, <1>3 DEF TrackInv, Settled

LEMMA TrackInvNext == TrackInv /\ [TrackNext]_trackVars => TrackInv'
<1> SUFFICES ASSUME TrackInv, [TrackNext]_trackVars PROVE TrackInv'
  OBVIOUS
<1>1. /\ lines \in Seq(Records \cup {Torn}) /\ safe \in Seq(Records) /\ ended \in BOOLEAN
      /\ ~ended => lines # <<>>
  BY DEF TrackInv
<1>2. ASSUME NEW name \in Names, NEW values \in [DOMAIN Metrics -> Samples],
             CheckAndRecord(name, values)
      PROVE  TrackInv'
  <2> DEFINE r == [name |-> name, values |-> values]
  <2>1. r \in Records /\ r # Torn
    BY RecordIsNotTorn DEF Records
  <2> HIDE DEF r
  <2>2. lines' = Written(r) /\ safe' = (IF ended THEN Append(safe, r) ELSE safe) /\ ended' = TRUE
    BY <1>2 DEF CheckAndRecord, r
  <2>3. /\ Written(r) \in Seq(Records \cup {Torn})
        /\ Parsed(Written(r)) = IF ended /\ r # Torn THEN Append(safe, r) ELSE safe
    BY <2>1, WrittenFacts
  <2>4. safe' \in Seq(Records)
    BY <1>1, <2>1, <2>2
  <2>5. Settled' = Written(r)
    BY <2>2 DEF Settled
  <2> QED BY <2>1, <2>2, <2>3, <2>4, <2>5 DEF TrackInv
<1>3. ASSUME CrashInRecord PROVE TrackInv'
  <2>1. PICK r \in Records \cup {Torn} : lines' = Written(r)
    BY <1>3 DEF CrashInRecord
  <2>2. safe' = safe /\ ended' = FALSE
    BY <1>3 DEF CrashInRecord
  <2>3. /\ Written(r) \in Seq(Records \cup {Torn})
        /\ Written(r) # <<>> /\ Parsed(Front(Written(r))) = safe
    BY WrittenFacts
  <2>4. Settled' = Front(Written(r))
    BY <2>1, <2>2 DEF Settled, Front
  <2> QED BY <1>1, <2>1, <2>2, <2>3, <2>4 DEF TrackInv
<1>4. ASSUME Prune PROVE TrackInv'
  <2>1. PICK t \in Seq(Records) : lines' = t /\ safe' = t /\ ended' = TRUE
    BY <1>4, RewrittenFacts DEF Prune
  <2>2. Parsed(t) = t /\ t \in Seq(Records \cup {Torn})
    BY ParsedAll
  <2>3. Settled' = t
    BY <2>1 DEF Settled
  <2> QED BY <2>1, <2>2, <2>3 DEF TrackInv
<1>5. ASSUME CrashInPrune PROVE TrackInv'
  <2>1. PICK t \in Seq(Records) : t = LastKeep(Load) /\ t = LastKeep(Whole) /\ Len(t) = Keep
    BY <1>5, RewrittenFacts DEF CrashInPrune
  <2>2. PICK n \in 0..Keep - 1 :
          /\ safe' = SubSeq(t, 1, n)
          /\ \/ lines' = SubSeq(t, 1, n) /\ ended' = TRUE
             \/ lines' = Append(SubSeq(t, 1, n), Torn) /\ ended' = FALSE
             \/ lines' = Append(SubSeq(t, 1, n), t[n + 1]) /\ ended' = FALSE
    BY <1>5, <2>1 DEF CrashInPrune
  <2>3. n \in Nat /\ n + 1 \in 1..Len(t)
    <3>1. Keep \in Nat
      BY RegressionAssumption
    <3> QED BY <2>1, <3>1
  <2>4. SubSeq(t, 1, n) \in Seq(Records)
    <3>1. 1 \in Int /\ n \in Int /\ \A i \in 1..n : t[i] \in Records
      <4>1. \A i \in 1..n : i \in 1..Len(t)
        BY <2>3
      <4> QED BY <2>3, <4>1
    <3> QED BY <3>1, SubSeqProperties
  <2>5. PICK back \in Seq(Records) : back = SubSeq(t, 1, n)
    BY <2>4
  <2>6. Parsed(back) = back /\ back \in Seq(Records \cup {Torn})
    BY ParsedAll
  <2>7. ASSUME NEW e \in Records \cup {Torn}, lines' = Append(back, e), ended' = FALSE
        PROVE  TrackInv'
    <3>1. /\ Append(back, e) \in Seq(Records \cup {Torn})
          /\ Append(back, e) # <<>> /\ Front(Append(back, e)) = back
      BY <2>6, LastOfAppend
    <3>2. Settled' = Front(Append(back, e))
      BY <2>7 DEF Settled, Front
    <3> QED BY <2>2, <2>5, <2>6, <2>7, <3>1, <3>2 DEF TrackInv
  <2>8. ASSUME lines' = back, ended' = TRUE PROVE TrackInv'
    <3>1. Settled' = back
      BY <2>8 DEF Settled
    <3> QED BY <2>2, <2>5, <2>6, <2>8, <3>1 DEF TrackInv
  <2>9. t[n + 1] \in Records
    BY <2>3
  <2> QED BY <2>2, <2>5, <2>7, <2>8, <2>9
<1>6. CASE UNCHANGED trackVars
  <2>1. lines' = lines /\ safe' = safe /\ ended' = ended
    BY <1>6 DEF trackVars
  <2>2. Settled' = Settled
    BY <2>1 DEF Settled, Front
  <2> QED BY <2>1, <2>2 DEF TrackInv
<1> QED BY <1>2, <1>3, <1>4, <1>5, <1>6 DEF TrackNext

\* A crash in the middle of an append costs the torn record and the one behind it,
\* one in the middle of a rewrite what was not back yet.
THEOREM OneLostPerCrashHolds == TrackSpec => []OneLostPerCrash
<1>1. TrackInv => OneLostPerCrash
  BY LoadIsWhole DEF OneLostPerCrash
<1> QED BY <1>1, TrackInvInit, TrackInvNext, PTL DEF TrackSpec

\* A set of naturals that is not empty has a least member.
LEMMA LeastMember ==
  ASSUME NEW T \in SUBSET Nat, T # {}
  PROVE  \E x \in T : \A y \in T : x <= y
<1> DEFINE Less == {p \in Nat \X Nat : p[1] < p[2]}
<1>1. IsWellFoundedOn(Less, Nat)
  BY NatLessThanWellFounded DEF OpToRel
<1>2. PICK x \in T : \A y \in T : ~(<<y, x>> \in Less)
  <2> HIDE DEF Less
  <2> QED BY <1>1, WFMin
<1>3. ASSUME NEW y \in T PROVE x <= y
  <2>1. ~(<<y, x>> \in Less) /\ x \in Nat /\ y \in Nat
    BY <1>2
  <2> QED BY <2>1
<1> QED BY <1>3

\* Where n values are below x, and where they are at most x.
Under(n, f, x) == {i \in 1..n : f[i] < x}
AtMost(n, f, x) == {i \in 1..n : f[i] <= x}

\* The k-th smallest of n values.
Kth(n, f, k) == CHOOSE x \in {f[i] : i \in 1..n} :
                  Cardinality(Under(n, f, x)) < k /\ Cardinality(AtMost(n, f, x)) >= k

\* Among finitely many values one is the greatest.
LEMMA Greatest ==
  ASSUME NEW n \in Nat, NEW f \in [1..n -> Nat], NEW I \in SUBSET (1..n), I # {}
  PROVE  \E i \in I : \A j \in I : f[j] <= f[i]
<1> DEFINE Upto(i) == {j \in I : f[j] <= f[i]}
           Rest == {n - Cardinality(Upto(i)) : i \in I}
<1>1. \A i \in I : IsFiniteSet(Upto(i)) /\ Cardinality(Upto(i)) \in 0..n
  <2> SUFFICES ASSUME NEW i \in I PROVE IsFiniteSet(Upto(i)) /\ Cardinality(Upto(i)) \in 0..n
    OBVIOUS
  <2>1. Upto(i) \in SUBSET (1..n)
    OBVIOUS
  <2> HIDE DEF Upto
  <2> QED BY <2>1, NthFacts
<1>2. Rest \in SUBSET Nat /\ Rest # {}
  <2>1. \A i \in I : n - Cardinality(Upto(i)) \in Nat
    <3> HIDE DEF Upto
    <3> QED BY <1>1
  <2> HIDE DEF Upto
  <2> QED BY <2>1
<1>3. PICK r \in Rest : \A y \in Rest : r <= y
  <2> HIDE DEF Rest
  <2> QED BY <1>2, LeastMember
<1>4. PICK i \in I : r = n - Cardinality(Upto(i))
  <2> HIDE DEF Upto
  <2> QED BY <1>3
<1>5. \A j \in I : Cardinality(Upto(j)) <= Cardinality(Upto(i))
  <2> SUFFICES ASSUME NEW j \in I PROVE Cardinality(Upto(j)) <= Cardinality(Upto(i))
    OBVIOUS
  <2> HIDE DEF Upto
  <2>1. r <= n - Cardinality(Upto(j))
    BY <1>3
  <2> QED BY <1>1, <1>4, <2>1
<1>6. ASSUME NEW j \in I PROVE f[j] <= f[i]
  <2>1. SUFFICES ASSUME f[i] < f[j] PROVE FALSE
    OBVIOUS
  <2>2. Upto(i) \subseteq Upto(j) /\ j \in Upto(j) /\ j \notin Upto(i)
    <3>1. f[i] \in Nat /\ f[j] \in Nat /\ \A l \in I : f[l] \in Nat
      OBVIOUS
    <3>2. ~(f[j] <= f[i]) /\ f[j] <= f[j] /\ \A l \in I : f[l] <= f[i] => f[l] <= f[j]
      BY <2>1, <3>1
    <3> QED BY <3>2
  <2> HIDE DEF Upto
  <2>3. Cardinality(Upto(i)) <= Cardinality(Upto(j)) /\ Cardinality(Upto(i)) # Cardinality(Upto(j))
    BY <1>1, <2>2, FS_Subset
  <2> QED BY <1>1, <1>5, <2>3
<1> QED BY <1>6

\* There is a k-th smallest among n values.
LEMMA KthExists ==
  ASSUME NEW n \in Nat, NEW f \in [1..n -> Nat], NEW k \in 1..n
  PROVE  \E x \in {f[i] : i \in 1..n} : /\ Cardinality(Under(n, f, x)) < k
                                          /\ Cardinality(AtMost(n, f, x)) >= k
<1> DEFINE Lt(x) == {i \in 1..n : f[i] < x}
           Le(x) == {i \in 1..n : f[i] <= x}
           T == {x \in {f[i] : i \in 1..n} : Cardinality(Le(x)) >= k}
<1>1. \A x : /\ IsFiniteSet(Lt(x)) /\ Cardinality(Lt(x)) \in Nat
             /\ IsFiniteSet(Le(x)) /\ Cardinality(Le(x)) \in Nat
  <2>1. \A x : Lt(x) \in SUBSET (1..n) /\ Le(x) \in SUBSET (1..n)
    OBVIOUS
  <2> HIDE DEF Lt, Le
  <2> QED BY <2>1, NthFacts
<1>2. T \in SUBSET Nat /\ T # {}
  <2>1. PICK i \in 1..n : \A j \in 1..n : f[j] <= f[i]
    <3>1. 1..n # {} /\ 1..n \in SUBSET (1..n)
      OBVIOUS
    <3> QED BY <3>1, Greatest
  <2>2. Le(f[i]) = 1..n
    BY <2>1
  <2>3. Cardinality(1..n) = n
    BY FS_Interval
  <2> HIDE DEF Le
  <2> QED BY <2>2, <2>3
<1>3. PICK x \in T : \A y \in T : x <= y
  <2> HIDE DEF T
  <2> QED BY <1>2, LeastMember
<1>4. Cardinality(Lt(x)) < k
  <2>0. PICK c \in Nat : c = Cardinality(Lt(x))
    <3> HIDE DEF Lt, T
    <3> QED BY <1>1
  <2>1. SUFFICES ASSUME Cardinality(Lt(x)) >= k PROVE FALSE
    <3>1. c < k \/ c >= k
      OBVIOUS
    <3> HIDE DEF Lt, T
    <3> QED BY <2>0, <3>1
  <2>2. Lt(x) # {} /\ Lt(x) \in SUBSET (1..n)
    <3>1. Cardinality(Lt(x)) # 0
      BY <1>1, <2>1
    <3>2. Lt(x) # {}
      <4> HIDE DEF Lt
      <4> QED BY <3>1, FS_EmptySet
    <3> QED BY <3>2
  <2>3. PICK i \in Lt(x) : \A j \in Lt(x) : f[j] <= f[i]
    <3> HIDE DEF Lt
    <3> QED BY <2>2, Greatest
  <2>4. Lt(x) \subseteq Le(f[i]) /\ f[i] \in {f[j] : j \in 1..n} /\ f[i] < x /\ f[i] \in Nat
    BY <2>3
  <2>5. Cardinality(Lt(x)) <= Cardinality(Le(f[i]))
    <3> HIDE DEF Lt, Le
    <3> QED BY <1>1, <2>4, FS_Subset
  <2>6. f[i] \in T
    <3> HIDE DEF Lt, Le
    <3> QED BY <1>1, <2>1, <2>4, <2>5
  <2>7. x \in Nat /\ x <= f[i]
    <3> HIDE DEF T
    <3> QED BY <1>2, <1>3, <2>6
  <2> QED BY <2>4, <2>7
<1> QED BY <1>3, <1>4 DEF Under, AtMost

\* The k-th smallest of n values lies among any p of them with n - p < k <= p.
LEMMA Majority ==
  ASSUME NEW n \in Nat, NEW f \in [1..n -> Nat], NEW P \in SUBSET (1..n),
         NEW k \in Nat, k <= Cardinality(P), n - Cardinality(P) < k, NEW x \in Nat,
         Cardinality(Under(n, f, x)) < k, Cardinality(AtMost(n, f, x)) >= k
  PROVE  \E i, j \in P : f[i] <= x /\ x <= f[j]
<1> DEFINE Lt == {i \in 1..n : f[i] < x}
           Le == {i \in 1..n : f[i] <= x}
<1>1. PICK p \in Nat : p = Cardinality(P)
  BY NthFacts
<1>2. IsFiniteSet(1..n) /\ Cardinality(1..n) = n /\ IsFiniteSet(P)
  BY FS_Interval, NthFacts
<1>3. k <= p /\ n - p < k
  BY <1>1
<1>4. \E j \in P : x <= f[j]
  <2>1. SUFFICES ASSUME \A j \in P : ~(x <= f[j]) PROVE FALSE
    OBVIOUS
  <2>2. P \subseteq Lt /\ Lt \in SUBSET (1..n)
    BY <2>1
  <2> HIDE DEF Lt
  <2>3. IsFiniteSet(Lt) /\ Cardinality(Lt) \in Nat
    BY <2>2, NthFacts
  <2>4. p <= Cardinality(Lt)
    BY <1>1, <2>2, <2>3, FS_Subset
  <2>5. Cardinality(Lt) < k
    BY DEF Lt, Under
  <2> QED BY <1>3, <2>3, <2>4, <2>5
<1>5. \E i \in P : f[i] <= x
  <2>1. SUFFICES ASSUME \A i \in P : ~(f[i] <= x) PROVE FALSE
    OBVIOUS
  <2>2. Le \subseteq (1..n) \ P /\ Le \in SUBSET (1..n)
    BY <2>1
  <2> HIDE DEF Le
  <2>3. Cardinality(Le) \in Nat
    BY <2>2, NthFacts
  <2>4. IsFiniteSet((1..n) \ P) /\ Cardinality((1..n) \ P) = n - p
    <3>1. (1..n) \cap P = P
      OBVIOUS
    <3>2. /\ IsFiniteSet((1..n) \ P)
          /\ Cardinality((1..n) \ P) = Cardinality(1..n) - Cardinality((1..n) \cap P)
      BY <1>2, FS_Difference
    <3> QED BY <1>1, <1>2, <3>1, <3>2
  <2>5. Cardinality(Le) <= n - p
    BY <2>2, <2>4, FS_Subset
  <2>6. Cardinality(Le) >= k
    BY DEF Le, AtMost
  <2> QED BY <1>1, <1>3, <2>3, <2>5, <2>6
<1> QED BY <1>4, <1>5

\* So the middle ones lie among those that are more than half.
LEMMA Middle ==
  ASSUME NEW n \in Nat, NEW f \in [1..n -> Nat], NEW P \in SUBSET (1..n),
         NEW k \in 1..n, k <= Cardinality(P), n - Cardinality(P) < k
  PROVE  Kth(n, f, k) \in Nat /\ \E i, j \in P : f[i] <= Kth(n, f, k) /\ Kth(n, f, k) <= f[j]
<1> DEFINE s == Kth(n, f, k)
<1>1. \E x \in {f[i] : i \in 1..n} :
        Cardinality(Under(n, f, x)) < k /\ Cardinality(AtMost(n, f, x)) >= k
  BY KthExists
<1>2. s \in {f[i] : i \in 1..n} /\ Cardinality(Under(n, f, s)) < k /\ Cardinality(AtMost(n, f, s)) >= k
  BY <1>1 DEF Kth
<1> HIDE DEF s
<1>3. s \in Nat /\ k \in Nat
  <2>1. PICK i \in 1..n : s = f[i]
    BY <1>2
  <2> QED BY <2>1
<1>4. \E i, j \in P : f[i] <= s /\ s <= f[j]
  BY <1>2, <1>3, Majority
<1> QED BY <1>3, <1>4 DEF s

\* The runs that a baseline is taken from are those of LastRuns, one for one.
LEMMA RecentIs ==
  ASSUME Load \in Seq(Records), NEW name
  PROVE  \E n \in Nat : \E b \in Bijection(1..n, LastRuns(name)) :
           /\ Recent(name) \in Seq(Records) /\ Len(Recent(name)) = n
           /\ \A k \in 1..n : Recent(name)[k] = Load[b[k]]
<1>1. PICK all \in Seq(Records) : all = Load
  OBVIOUS
<1>2. PICK N \in Nat : N = Len(all) /\ DOMAIN all = 1..N
  OBVIOUS
<1> DEFINE H == {i \in 1..N : all[i].name = name}
           h == Picked(all, H)
           Rank(i) == Cardinality(UpTo(H, i))
<1>3. H \in SUBSET (1..N) /\ \A i \in 1..N : i \in H <=> all[i].name = name
  OBVIOUS
<1>4. History(name) = h
  BY <1>1, <1>2 DEF History
<1> HIDE DEF H
<1>5. /\ IsFiniteSet(H)
      /\ \A k \in 1..Cardinality(H) : Nth(H, k) \in H /\ Rank(Nth(H, k)) = k
      /\ \A i \in H : Rank(i) \in 1..Cardinality(H) /\ Nth(H, Rank(i)) = i
  BY <1>3, NthFacts
<1>6. PICK c \in Nat : c = Cardinality(H)
  BY <1>3, NthFacts
<1>7. h \in Seq(Records) /\ Len(h) = c /\ \A k \in 1..c : h[k] = all[Nth(H, k)]
  <2>1. H \in SUBSET DOMAIN all
    BY <1>2, <1>3
  <2>2. /\ h = [k \in 1..Cardinality(H) |-> all[Nth(H, k)]]
        /\ h \in Seq(Records) /\ Len(h) = Cardinality(H)
    BY <2>1, PickedIs
  <2> HIDE DEF h
  <2> QED BY <1>6, <2>2
<1> HIDE DEF h, Rank
<1>8. Window \in Nat \ {0}
  BY RegressionAssumption
<1>9. PICK o \in 0..c : o = IF c > Window THEN c - Window ELSE 0
  <2>1. CASE c > Window
    <3>1. c - Window \in 0..c
      BY <1>8, <2>1
    <3> QED BY <2>1, <3>1
  <2>2. CASE ~(c > Window)
    <3>1. 0 \in 0..c
      OBVIOUS
    <3> QED BY <2>2, <3>1
  <2> QED BY <2>1, <2>2
<1> DEFINE n == c - o
           b == [k \in 1..n |-> Nth(H, o + k)]
<1>10. n \in Nat /\ \A k \in 1..n : o + k \in 1..c /\ o + k > o
  OBVIOUS
<1>11. \A i \in 1..N : i \in LastRuns(name) <=> i \in H /\ Rank(i) > o
  <2> SUFFICES ASSUME NEW i \in 1..N, i \in H
               PROVE  i \in LastRuns(name) <=> Rank(i) > o
    BY <1>1, <1>2, <1>3 DEF LastRuns
  <2> DEFINE After == {j \in i + 1..N : all[j].name = name}
  <2>1. After = H \ UpTo(H, i) /\ H \cap UpTo(H, i) = UpTo(H, i)
    <3>1. \A j \in 1..N : j \in i + 1..N <=> ~(j <= i)
      BY <1>2
    <3>2. \A j \in i + 1..N : j \in 1..N
      BY <1>2
    <3> QED BY <1>3, <3>1, <3>2 DEF UpTo
  <2>2. Cardinality(H \ UpTo(H, i)) = c - Rank(i)
    <3>1. Cardinality(H \ UpTo(H, i)) = Cardinality(H) - Cardinality(H \cap UpTo(H, i))
      BY <1>5, FS_Difference
    <3> QED BY <1>6, <2>1, <3>1 DEF Rank
  <2>3. PICK r \in 1..c : r = Rank(i)
    BY <1>5, <1>6
  <2>4. i \in LastRuns(name) <=> Cardinality(After) < Window
    BY <1>1, <1>2, <1>3 DEF LastRuns
  <2> HIDE DEF After
  <2>5. i \in LastRuns(name) <=> c - r < Window
    BY <2>1, <2>2, <2>3, <2>4
  <2>6. c - r < Window <=> r > o
    BY <1>8, <1>9
  <2> QED BY <2>3, <2>5, <2>6
<1>12. LastRuns(name) \subseteq 1..N
  BY <1>1, <1>2 DEF LastRuns
<1>13. b \in Bijection(1..n, LastRuns(name))
  <2>1. ASSUME NEW k \in 1..n PROVE b[k] \in LastRuns(name) /\ Rank(b[k]) = o + k
    <3>1. Nth(H, o + k) \in H /\ Rank(Nth(H, o + k)) = o + k
      BY <1>5, <1>6, <1>10
    <3> QED BY <1>3, <1>10, <1>11, <3>1
  <2>2. ASSUME NEW k \in 1..n, NEW l \in 1..n, b[k] = b[l] PROVE k = l
    <3>1. o + k = o + l
      BY <2>1, <2>2
    <3> HIDE DEF b
    <3> QED BY <3>1
  <2>3. ASSUME NEW i \in LastRuns(name) PROVE \E k \in 1..n : b[k] = i
    <3>1. i \in H /\ Rank(i) > o /\ Rank(i) \in 1..c /\ Nth(H, Rank(i)) = i
      BY <1>5, <1>6, <1>11, <1>12
    <3>2. PICK r \in 1..c : r = Rank(i)
      BY <3>1
    <3>3. r - o \in 1..n /\ o + (r - o) = r
      BY <3>1, <3>2
    <3> QED BY <3>1, <3>2, <3>3
  <2>4. b \in [1..n -> LastRuns(name)]
    BY <2>1
  <2> HIDE DEF b, n
  <2> QED BY <2>2, <2>3, <2>4 DEF Bijection, Injection, Surjection, IsInjective
<1>14. Recent(name) = SubSeq(h, o + 1, c)
  <2>1. Recent(name) = SubSeq(h, IF c > Window THEN c - Window + 1 ELSE 1, c)
    BY <1>4, <1>7 DEF Recent
  <2> QED BY <1>8, <1>9, <2>1
<1>15. /\ SubSeq(h, o + 1, c) \in Seq(Records) /\ Len(SubSeq(h, o + 1, c)) = n
       /\ \A k \in 1..n : SubSeq(h, o + 1, c)[k] = h[o + k]
  <2>1. \A k \in o + 1..c : h[k] \in Records
    <3> SUFFICES ASSUME NEW k \in o + 1..c PROVE h[k] \in Records
      OBVIOUS
    <3>1. k \in 1..Len(h)
      BY <1>7
    <3> QED BY <1>7, <3>1, ElementOfSeq
  <2>2. /\ SubSeq(h, o + 1, c) \in Seq(Records)
        /\ Len(SubSeq(h, o + 1, c)) = IF o + 1 <= c THEN c - (o + 1) + 1 ELSE 0
        /\ \A k \in 1..c - (o + 1) + 1 : SubSeq(h, o + 1, c)[k] = h[o + 1 + k - 1]
    <3>1. o + 1 \in Int /\ c \in Int
      OBVIOUS
    <3> QED BY <2>1, <3>1, SubSeqProperties
  <2>3. n = IF o + 1 <= c THEN c - (o + 1) + 1 ELSE 0
    OBVIOUS
  <2>4. ASSUME NEW k \in 1..n PROVE k \in 1..c - (o + 1) + 1 /\ o + 1 + k - 1 = o + k
    OBVIOUS
  <2> HIDE DEF n
  <2> QED BY <2>2, <2>3, <2>4
<1>16. \A k \in 1..n : Recent(name)[k] = Load[b[k]]
  <2> SUFFICES ASSUME NEW k \in 1..n PROVE Recent(name)[k] = Load[b[k]]
    OBVIOUS
  <2>1. Recent(name)[k] = h[o + k]
    BY <1>14, <1>15
  <2>2. h[o + k] = all[Nth(H, o + k)]
    BY <1>7, <1>10
  <2> QED BY <1>1, <2>1, <2>2
<1> HIDE DEF n, b
<1> QED BY <1>10, <1>13, <1>14, <1>15, <1>16

\* Its typical runs are as many as those of LastRuns.
LEMMA TypicalInRecent ==
  ASSUME Load \in Seq(Records), NEW name, NEW m
  PROVE  \E n \in Nat : \E P \in SUBSET (1..n) :
           /\ Recent(name) \in Seq(Records) /\ Len(Recent(name)) = n
           /\ n = RunsInWindow(name) /\ Cardinality(P) = TypicalCount(name, m)
           /\ IsFiniteSet(LastRuns(name))
           /\ \A k \in P : Recent(name)[k].values[m] \in Typical
<1>1. PICK n \in Nat : \E b \in Bijection(1..n, LastRuns(name)) :
        /\ Recent(name) \in Seq(Records) /\ Len(Recent(name)) = n
        /\ \A k \in 1..n : Recent(name)[k] = Load[b[k]]
  BY RecentIs
<1>2. PICK b \in Bijection(1..n, LastRuns(name)) :
        /\ Recent(name) \in Seq(Records) /\ Len(Recent(name)) = n
        /\ \A k \in 1..n : Recent(name)[k] = Load[b[k]]
  BY <1>1
<1> DEFINE P == {k \in 1..n : Recent(name)[k].values[m] \in Typical}
           Q == {i \in LastRuns(name) : Load[i].values[m] \in Typical}
           c == [k \in P |-> b[k]]
<1>3. IsFiniteSet(1..n) /\ Cardinality(1..n) = n
  BY FS_Interval
<1>4. IsFiniteSet(LastRuns(name)) /\ Cardinality(LastRuns(name)) = n
  <2>1. ExistsBijection(1..n, LastRuns(name))
    BY DEF ExistsBijection
  <2> QED BY <1>3, <2>1, FS_Bijection
<1>5. /\ b \in [1..n -> LastRuns(name)]
      /\ \A k, l \in 1..n : b[k] = b[l] => k = l
      /\ \A i \in LastRuns(name) : \E k \in 1..n : b[k] = i
  BY DEF Bijection, Injection, Surjection, IsInjective
<1>6. c \in Bijection(P, Q)
  <2>1. \A k \in 1..n : k \in P <=> b[k] \in Q
    BY <1>2, <1>5
  <2>2. P \subseteq 1..n /\ Q \subseteq LastRuns(name)
    OBVIOUS
  <2> HIDE DEF P, Q
  <2>3. c \in [P -> Q] /\ (\A k, l \in P : c[k] = c[l] => k = l) /\ \A i \in Q : \E k \in P : c[k] = i
    BY <1>5, <2>1, <2>2
  <2> HIDE DEF c
  <2> QED BY <2>3 DEF Bijection, Injection, Surjection, IsInjective
<1>7. P \in SUBSET (1..n) /\ \A k \in P : Recent(name)[k].values[m] \in Typical
  OBVIOUS
<1>8. Cardinality(P) = TypicalCount(name, m)
  <2>1. Q = {i \in LastRuns(name) : Load[i].values[m] \in Typical}
    OBVIOUS
  <2> HIDE DEF P, Q, c
  <2>2. IsFiniteSet(P)
    BY <1>7, NthFacts
  <2>3. ExistsBijection(P, Q)
    BY <1>6 DEF ExistsBijection
  <2>4. Cardinality(Q) = Cardinality(P)
    BY <2>2, <2>3, FS_Bijection
  <2> QED BY <2>1, <2>4 DEF TypicalCount
<1> HIDE DEF P
<1> QED BY <1>2, <1>4, <1>7, <1>8 DEF RunsInWindow

\* The median of the window lies among its typical runs when these are more than half.
LEMMA MedianIsTypical ==
  ASSUME Load \in Seq(Records), NEW name, NEW m \in DOMAIN Metrics,
         2 * TypicalCount(name, m) > RunsInWindow(name)
  PROVE  /\ Recent(name) # <<>>
         /\ \E x, y \in Nat : \E a, b, c, d \in Typical :
              /\ TwiceMedian(Recent(name), m) = x + y
              /\ a <= x /\ x <= b /\ c <= y /\ y <= d
<1>1. PICK n \in Nat : \E P \in SUBSET (1..n) :
        /\ Recent(name) \in Seq(Records) /\ Len(Recent(name)) = n
        /\ n = RunsInWindow(name) /\ Cardinality(P) = TypicalCount(name, m)
        /\ \A k \in P : Recent(name)[k].values[m] \in Typical
  BY TypicalInRecent
<1>2. PICK P \in SUBSET (1..n) :
        /\ Recent(name) \in Seq(Records) /\ Len(Recent(name)) = n
        /\ n = RunsInWindow(name) /\ Cardinality(P) = TypicalCount(name, m)
        /\ \A k \in P : Recent(name)[k].values[m] \in Typical
  BY <1>1
<1>3. PICK r \in Seq(Records) : r = Recent(name) /\ Len(r) = n /\ DOMAIN r = 1..n
  BY <1>2
<1> DEFINE f == [i \in 1..n |-> r[i].values[m]]
<1>4. f \in [1..n -> Nat]
  <2> SUFFICES ASSUME NEW i \in 1..n PROVE r[i].values[m] \in Nat
    OBVIOUS
  <2>1. r[i] \in Records
    BY <1>3
  <2>2. Samples \subseteq Nat
    BY RegressionAssumption
  <2> QED BY <2>1, <2>2 DEF Records
<1>5. \A i \in 1..n : f[i] = r[i].values[m]
  OBVIOUS
<1> HIDE DEF f
<1>6. n # 0 /\ r # <<>>
  <2>1. PICK p \in Nat : p = Cardinality(P) /\ p <= n
    BY NthFacts
  <2>2. 2 * p > n
    BY <1>2, <2>1
  <2> QED BY <1>3, <2>1, <2>2
<1>7. ASSUME NEW k \in 1..n, k \in {(n + 1) \div 2, n \div 2 + 1}
      PROVE  /\ Smallest(r, m, k) \in Nat
             /\ \E a, b \in Typical : a <= Smallest(r, m, k) /\ Smallest(r, m, k) <= b
  <2> DEFINE s == Smallest(r, m, k)
             Lt(x) == {i \in DOMAIN r : r[i].values[m] < x}
             Le(x) == {i \in DOMAIN r : r[i].values[m] <= x}
             V == {r[i].values[m] : i \in DOMAIN r}
  <2>1. s = CHOOSE x \in V : Cardinality(Lt(x)) < k /\ Cardinality(Le(x)) >= k
    BY DEF Smallest
  <2>2. V = {f[i] : i \in 1..n} /\ \A x : Lt(x) = Under(n, f, x) /\ Le(x) = AtMost(n, f, x)
    BY <1>3, <1>5 DEF Under, AtMost
  <2> HIDE DEF s, V, Lt, Le
  <2>3. s = Kth(n, f, k)
    BY <2>1, <2>2 DEF Kth
  <2>4. k <= Cardinality(P) /\ n - Cardinality(P) < k
    <3>1. PICK p \in Nat : p = Cardinality(P)
      BY NthFacts
    <3>2. 2 * p > n
      BY <1>2, <3>1
    <3> QED BY <1>7, <3>1, <3>2
  <2>5. s \in Nat /\ \E i, j \in P : f[i] <= s /\ s <= f[j]
    BY <1>4, <2>3, <2>4, Middle
  <2>6. \A i \in P : f[i] \in Typical
    BY <1>2, <1>3, <1>5
  <2> QED BY <2>5, <2>6 DEF s
<1>8. (n + 1) \div 2 \in 1..n /\ n \div 2 + 1 \in 1..n
  BY <1>6
<1>9. TwiceMedian(r, m) = Smallest(r, m, (n + 1) \div 2) + Smallest(r, m, n \div 2 + 1)
  BY <1>3 DEF TwiceMedian
<1>10. /\ Smallest(r, m, (n + 1) \div 2) \in Nat
       /\ \E a, b \in Typical : a <= Smallest(r, m, (n + 1) \div 2) /\ Smallest(r, m, (n + 1) \div 2) <= b
  BY <1>7, <1>8
<1>11. /\ Smallest(r, m, n \div 2 + 1) \in Nat
       /\ \E a, b \in Typical : a <= Smallest(r, m, n \div 2 + 1) /\ Smallest(r, m, n \div 2 + 1) <= b
  BY <1>7, <1>8
<1> QED BY <1>3, <1>6, <1>9, <1>10, <1>11

LEMMA Scaled == \A q, x, y \in Nat : x <= y => q * x <= q * y
  OBVIOUS

\* A verdict on a metric whose median lies among typical values.
LEMMA VerdictIs ==
  ASSUME NEW x \in Nat, NEW y \in Nat, NEW v \in Nat, NEW m \in DOMAIN Metrics,
         NEW a \in Typical, NEW b \in Typical, NEW c \in Typical, NEW d \in Typical,
         a <= x, x <= b, c <= y, y <= d,
         NEW records, TwiceMedian(records, m) = x + y,
         NEW values, values[m] = v
  PROVE  /\ v \in Typical => ~Regressed(records, values, m)
         /\ WorseThanTypical(v, m) => Regressed(records, values, m)
<1>1. PICK T \in Nat : T = TolerancePct
  BY RegressionAssumption
<1>2. /\ a \in Nat \ {0} /\ b \in Nat \ {0} /\ c \in Nat \ {0} /\ d \in Nat \ {0}
      /\ v \in Typical => /\ 100 * v <= (100 + T) * a /\ 100 * v <= (100 + T) * c
                          /\ 100 * v >= (100 - T) * b /\ 100 * v >= (100 - T) * d
  <2>1. \A t \in Typical : t \in Nat \ {0}
    BY RegressionAssumption
  <2>2. \A t \in Typical : v \in Typical => 100 * v <= (100 + T) * t /\ 100 * v >= (100 - T) * t
    <3>1. \A t, u \in Typical : /\ 100 * u <= (100 + TolerancePct) * t
                                /\ 100 * u >= (100 - TolerancePct) * t
      BY RegressionAssumption
    <3> QED BY <1>1, <3>1
  <2> QED BY <2>1, <2>2
<1> DEFINE base == x + y  delta == 100 * (2 * v - base)  up == Metrics[m] = "higher_is_better"
<1>3. Regressed(records, values, m) <=>
        base # 0 /\ IF up THEN delta < - (T * base) ELSE delta > T * base
  BY <1>1 DEF Regressed
<1>4. base # 0 /\ base \in Nat
  BY <1>2
<1>5. delta \in Int /\ T * base \in Nat /\ (100 + T) * base = 100 * base + T * base
  BY <1>4
<1>6. WorseThanTypical(v, m) =>
        IF up THEN 100 * v < (100 - T) * a /\ 100 * v < (100 - T) * c
        ELSE 100 * v > (100 + T) * b /\ 100 * v > (100 + T) * d
  BY <1>1 DEF WorseThanTypical
<1>7. CASE ~up
  <2>1. PICK r \in Nat : r = 100 + T
    OBVIOUS
  <2>2. r * a <= r * x /\ r * x <= r * b /\ r * c <= r * y /\ r * y <= r * d
    BY <1>2, <2>1, Scaled
  <2>3. r * base = r * x + r * y /\ r * base = 100 * base + T * base
    BY <1>5, <2>1
  <2>4. /\ r * a \in Nat /\ r * b \in Nat /\ r * c \in Nat /\ r * d \in Nat
        /\ r * x \in Nat /\ r * y \in Nat
    BY <1>2
  <2>5. delta = 200 * v - 100 * base
    OBVIOUS
  <2>6. v \in Typical => ~(delta > T * base)
    <3> SUFFICES ASSUME v \in Typical PROVE ~(delta > T * base)
      OBVIOUS
    <3>1. 100 * v <= r * a /\ 100 * v <= r * c
      BY <1>2, <2>1
    <3>2. 200 * v <= r * base
      BY <2>2, <2>3, <2>4, <3>1
    <3> QED BY <1>4, <1>5, <2>3, <2>5, <3>2
  <2>7. WorseThanTypical(v, m) => delta > T * base
    <3> SUFFICES ASSUME WorseThanTypical(v, m) PROVE delta > T * base
      OBVIOUS
    <3>1. 100 * v > r * b /\ 100 * v > r * d
      BY <1>6, <1>7, <2>1
    <3>2. 200 * v > r * base
      BY <2>2, <2>3, <2>4, <3>1
    <3> QED BY <1>4, <1>5, <2>3, <2>5, <3>2
  <2> QED BY <1>3, <1>4, <1>7, <2>6, <2>7
<1>8. CASE up /\ T <= 100
  <2>1. PICK r \in Nat : r = 100 - T
    BY <1>8
  <2>2. r * a <= r * x /\ r * x <= r * b /\ r * c <= r * y /\ r * y <= r * d
    BY <1>2, <2>1, Scaled
  <2>3. r * base = r * x + r * y /\ r * base = 100 * base - T * base
    BY <1>4, <2>1
  <2>4. /\ r * a \in Nat /\ r * b \in Nat /\ r * c \in Nat /\ r * d \in Nat
        /\ r * x \in Nat /\ r * y \in Nat
    BY <1>2
  <2>5. delta = 200 * v - 100 * base
    OBVIOUS
  <2>6. v \in Typical => ~(delta < - (T * base))
    <3> SUFFICES ASSUME v \in Typical PROVE ~(delta < - (T * base))
      OBVIOUS
    <3>1. 100 * v >= r * b /\ 100 * v >= r * d
      BY <1>2, <2>1
    <3>2. 200 * v >= r * base
      BY <2>2, <2>3, <2>4, <3>1
    <3> QED BY <1>4, <1>5, <2>3, <2>5, <3>2
  <2>7. WorseThanTypical(v, m) => delta < - (T * base)
    <3> SUFFICES ASSUME WorseThanTypical(v, m) PROVE delta < - (T * base)
      OBVIOUS
    <3>1. 100 * v < r * a /\ 100 * v < r * c
      BY <1>6, <1>8, <2>1
    <3>2. 200 * v < r * base
      BY <2>2, <2>3, <2>4, <3>1
    <3> QED BY <1>4, <1>5, <2>3, <2>5, <3>2
  <2> QED BY <1>3, <1>4, <1>8, <2>6, <2>7
<1>9. CASE up /\ T > 100
  <2>1. ~WorseThanTypical(v, m)
    <3>1. (100 - T) * a <= 0
      <4>1. PICK q \in Nat : q = T - 100
        BY <1>9
      <4>2. (100 - T) * a = - (q * a) /\ q * a \in Nat
        BY <1>2, <4>1
      <4> QED BY <4>2
    <3>2. PICK z \in Int : z = (100 - T) * a
      BY <1>2
    <3>3. WorseThanTypical(v, m) => 100 * v < z
      BY <1>6, <1>9, <3>2
    <3> QED BY <3>1, <3>2, <3>3
  <2>2. 100 * base <= T * base
    BY <1>4, <1>9, Scaled
  <2>3. ~(delta < - (T * base))
    BY <1>4, <1>5, <2>2
  <2> QED BY <1>3, <1>9, <2>1, <2>3
<1> QED BY <1>7, <1>8, <1>9

\* While more than half of the window is typical, the outliers in it decide nothing.
LEMMA OutliersInv == TrackInv => OutliersMeanNothing
<1> SUFFICES ASSUME TrackInv, NEW name \in Names,
                    LastRuns(name) # {},
                    \A m \in DOMAIN Metrics : 2 * TypicalCount(name, m) > RunsInWindow(name),
                    NEW v \in [DOMAIN Metrics -> Samples]
             PROVE  /\ (\A m \in DOMAIN Metrics : v[m] \in Typical) => Check(name, v)
                    /\ (\E m \in DOMAIN Metrics : WorseThanTypical(v[m], m)) => ~Check(name, v)
  BY DEF OutliersMeanNothing
<1>1. Load \in Seq(Records)
  BY LoadIsWhole
<1>2. ASSUME NEW m \in DOMAIN Metrics
      PROVE  /\ Recent(name) # <<>>
             /\ v[m] \in Typical => ~Regressed(Recent(name), v, m)
             /\ WorseThanTypical(v[m], m) => Regressed(Recent(name), v, m)
  <2>1. /\ Recent(name) # <<>>
        /\ \E x, y \in Nat : \E a, b, c, d \in Typical :
             /\ TwiceMedian(Recent(name), m) = x + y
             /\ a <= x /\ x <= b /\ c <= y /\ y <= d
    BY <1>1, MedianIsTypical
  <2>2. v[m] \in Nat
    BY RegressionAssumption
  <2> QED BY <2>1, <2>2, VerdictIs
<1>3. Check(name, v) <=>
        Recent(name) = <<>> \/ \A m \in DOMAIN Metrics : ~Regressed(Recent(name), v, m)
  BY DEF Check
<1> QED BY <1>2, <1>3

\* "a single slower run on a laptop means nothing", whatever was torn or pruned before.
THEOREM OutliersMeanNothingHolds == TrackSpec => []OutliersMeanNothing
<1> QED BY OutliersInv, TrackInvInit, TrackInvNext, PTL DEF TrackSpec
=============================================================================
